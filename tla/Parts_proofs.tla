----------------------------- MODULE Parts_proofs -----------------------------
(***************************************************************************)
(* What is proved of the parts that work on their own: the warnings of     *)
(* LiveDeviation, the entries of ResponseCache, the tree of Organizations, *)
(* the links of Accounts, the records of VehicleMaintenance and of         *)
(* MasterData, the pages of OrdersScreen, the stops of RouteMap, the times *)
(* of EtaCascade, the plan of PlanningScreen, and the other screens that   *)
(* MCScreens runs.  Each is proved of its own specification, the last of   *)
(* the one that lets any of them work, by an inductive invariant and one   *)
(* lemma per kind of step.                                                 *)
(***************************************************************************)
EXTENDS LiveDeviation, ResponseCache, Organizations, Accounts, VehicleMaintenance,
        MasterData, OrdersScreen, EtaCascade, MCScreens,
        SequenceTheorems, FiniteSetTheorems, TLAPS

-----------------------------------------------------------------------------
(* LiveDeviation: the warnings of checkDeviation.                          *)

CheckStages == {"idle", "trip", "create"}
Check == [at : CheckStages, far : BOOLEAN, drift : Nat, overtaken : BOOLEAN]
Warning == [at : Nat, drift : Nat, overtaken : BOOLEAN]

DeviationTypes ==
    /\ live \in [Checks -> Check]
    /\ counter \in [count : Nat, last : Int] /\ now \in Nat /\ drift \in Nat
    /\ warnings \in Seq(Warning)

\* The count is of far positions in a row; a check about to store an incident rests on
\* enough of them, and unless one was stored since it decided the last one is long past.
Deciding ==
    /\ counter.count <= drift
    /\ \A i \in DOMAIN warnings : warnings[i].at <= counter.last /\ warnings[i].at <= now
    /\ \A c \in Checks : live[c].at = "create" =>
          /\ live[c].drift >= Trigger
          /\ ~live[c].overtaken => \A i \in DOMAIN warnings : now - warnings[i].at > Cooldown

DeviationInv == DeviationTypes /\ Deciding /\ WarningsAreEarned

LEMMA IdleCheck == NotRunning \in Check /\ NotRunning.at = "idle"
    BY DEF NotRunning, Check, CheckStages

LEMMA WarningTimes ==
    ASSUME DeviationTypes
    PROVE  \A i \in DOMAIN warnings : warnings[i].at \in Nat
<1>1. warnings \in Seq(Warning)
    BY DEF DeviationTypes
<1>2. \A i \in DOMAIN warnings : warnings[i] \in Warning
    BY <1>1, ElementOfSeq
<1> QED
    BY <1>2 DEF Warning

\* A step of one check that stores nothing.
LEMMA CheckStep ==
    ASSUME DeviationInv, UNCHANGED <<now, warnings>>, drift' \in Nat,
           NEW tally \in Nat, counter' = [counter EXCEPT !.count = tally], tally <= drift',
           NEW c \in Checks, NEW call \in Check, live' = [live EXCEPT ![c] = call],
           call.at = "create" =>
              call.drift >= Trigger /\ now - counter.last > Cooldown
    PROVE  DeviationInv'
<1>1. DeviationTypes
    BY DEF DeviationInv
<1>2. counter' \in [count : Nat, last : Int] /\ counter'.count = tally /\ counter'.last = counter.last
    BY <1>1 DEF DeviationTypes
<1>3. live' \in [Checks -> Check] /\ live'[c] = call /\ \A d \in Checks \ {c} : live'[d] = live[d]
    BY <1>1 DEF DeviationTypes
<1>4. DeviationTypes'
    BY <1>1, <1>2, <1>3 DEF DeviationTypes
<1>5. \A i \in DOMAIN warnings : warnings[i].at \in Nat /\ warnings[i].at <= counter.last
    BY <1>1, WarningTimes DEF DeviationInv, Deciding
<1>6. call.at = "create" => \A i \in DOMAIN warnings : now - warnings[i].at > Cooldown
    BY <1>1, <1>5, TriggerAssumption DEF DeviationTypes
<1>7. Deciding'
    <2>1. ASSUME NEW d \in Checks, live'[d].at = "create"
          PROVE  /\ live'[d].drift >= Trigger
                 /\ ~live'[d].overtaken => \A i \in DOMAIN warnings' : now' - warnings'[i].at > Cooldown
        <3>1. CASE d = c
            BY <1>3, <1>6, <2>1, <3>1
        <3>2. CASE d # c
            BY <1>3, <2>1, <3>2 DEF DeviationInv, Deciding
        <3> QED
            BY <3>1, <3>2
    <2> QED
        BY <1>2, <2>1 DEF DeviationInv, Deciding
<1> QED
    BY <1>4, <1>7 DEF DeviationInv, WarningsAreEarned

LEMMA JudgeFarStep ==
    ASSUME DeviationInv, NEW c \in Checks, JudgeFar(c)
    PROVE  DeviationInv'
<1> DEFINE call == IF Triggers(Counted) THEN [live[c] EXCEPT !.at = "create", !.drift = drift']
                                        ELSE NotRunning
<1>1. DeviationTypes /\ counter.count <= drift
    BY DEF DeviationInv, Deciding
<1>2. /\ Counted = [counter EXCEPT !.count = counter.count + 1]
      /\ Counted.count = counter.count + 1 /\ Counted.last = counter.last
    BY <1>1 DEF Counted, DeviationTypes
<1>3. /\ counter' = Counted /\ drift' = drift + 1 /\ live' = [live EXCEPT ![c] = call]
      /\ UNCHANGED <<now, warnings>>
    BY DEF JudgeFar
<1>4. drift' \in Nat /\ counter.count + 1 \in Nat /\ counter.count + 1 <= drift'
    BY <1>1, <1>3 DEF DeviationTypes
<1>5. call \in Check
    BY <1>1, <1>4, IdleCheck DEF DeviationTypes, Check, CheckStages
<1>6. call.at = "create" => call.drift >= Trigger /\ now - counter.last > Cooldown
    <2>1. CASE Triggers(Counted)
        <3>1. counter.count + 1 >= Trigger /\ now - counter.last > Cooldown
            BY <1>2, <2>1 DEF Triggers
        <3>2. call.drift = drift'
            BY <1>1, <2>1 DEF DeviationTypes, Check
        <3> QED
            BY <1>1, <1>4, <3>1, <3>2, TriggerAssumption DEF DeviationTypes
    <2>2. CASE ~Triggers(Counted)
        BY <2>2, IdleCheck
    <2> QED
        BY <2>1, <2>2
<1> HIDE DEF call
<1> QED
    BY <1>2, <1>3, <1>4, <1>5, <1>6, CheckStep

LEMMA JudgeNearStep ==
    ASSUME DeviationInv, NEW c \in Checks, JudgeNear(c)
    PROVE  DeviationInv'
<1>1. /\ counter' = [counter EXCEPT !.count = 0] /\ drift' = 0
      /\ live' = [live EXCEPT ![c] = NotRunning] /\ UNCHANGED <<now, warnings>>
    BY DEF JudgeNear, Cleared
<1>2. 0 \in Nat /\ drift' \in Nat /\ 0 <= drift'
    BY <1>1
<1> QED
    BY <1>1, <1>2, IdleCheck, CheckStep

\* CheckTrip, NoTrip and CreateFailed touch the check alone.
LEMMA OtherCheckStep ==
    ASSUME DeviationInv, NEW c \in Checks, CheckTrip(c) \/ NoTrip(c) \/ CreateFailed(c)
    PROVE  DeviationInv'
<1>1. DeviationTypes /\ counter.count <= drift
    BY DEF DeviationInv, Deciding
<1>2. UNCHANGED <<counter, now, drift, warnings>>
    BY DEF CheckTrip, NoTrip, CreateFailed
<1>3. PICK call \in Check : live' = [live EXCEPT ![c] = call] /\ call.at # "create"
    <2>1. CASE CheckTrip(c)
        <3>1. PICK far \in BOOLEAN : live' = [live EXCEPT ![c].at = "trip", ![c].far = far]
            BY <2>1 DEF CheckTrip
        <3>2. /\ [live[c] EXCEPT !.at = "trip", !.far = far] \in Check
              /\ [live[c] EXCEPT !.at = "trip", !.far = far].at = "trip"
            BY <1>1 DEF DeviationTypes, Check, CheckStages
        <3> QED
            BY <3>1, <3>2
    <2>2. CASE NoTrip(c) \/ CreateFailed(c)
        BY <2>2, IdleCheck DEF NoTrip, CreateFailed
    <2> QED
        BY <2>1, <2>2
<1>4. counter' = [counter EXCEPT !.count = counter.count] /\ counter.count \in Nat
    BY <1>1, <1>2 DEF DeviationTypes
<1> QED
    BY <1>1, <1>2, <1>3, <1>4, CheckStep DEF DeviationTypes

\* Checks that are still storing an incident are overtaken by this one.
LEMMA CreateIncidentStep ==
    ASSUME DeviationInv, NEW c \in Checks, CreateIncident(c)
    PROVE  DeviationInv'
<1> DEFINE warning == [at |-> now, drift |-> live[c].drift, overtaken |-> live[c].overtaken]
<1>1. /\ live[c].at = "create" /\ warnings' = Append(warnings, warning)
      /\ counter' = [count |-> 0, last |-> now] /\ now' = now /\ drift' = drift
      /\ live' = [d \in Checks |-> IF d = c THEN NotRunning
                                   ELSE [live[d] EXCEPT !.overtaken = live[d].at = "create"]]
    BY DEF CreateIncident
<1>2. DeviationTypes /\ live[c] \in Check /\ warning \in Warning
    BY DEF DeviationInv, DeviationTypes, Check, Warning
<1>3. /\ warning.at = now /\ warning.drift = live[c].drift /\ warning.overtaken = live[c].overtaken
      /\ live[c].drift >= Trigger
      /\ ~live[c].overtaken => \A i \in DOMAIN warnings : now - warnings[i].at > Cooldown
    BY <1>1 DEF DeviationInv, Deciding
<1>4. /\ counter'.count = 0 /\ counter'.last = now
      /\ counter' \in [count : Nat, last : Int]
    BY <1>1, <1>2 DEF DeviationTypes
<1> HIDE DEF warning
<1> DEFINE n == Len(warnings) + 1
<1>5. /\ warnings' \in Seq(Warning) /\ Len(warnings) \in Nat /\ DOMAIN warnings = 1 .. Len(warnings)
      /\ DOMAIN warnings' = 1 .. n /\ warnings'[n] = warning
      /\ \A i \in DOMAIN warnings : warnings'[i] = warnings[i]
    BY <1>1, <1>2, AppendProperties DEF DeviationTypes
<1>6. /\ live' \in [Checks -> Check]
      /\ \A d \in Checks : live'[d].at = "create" =>
            live[d].at = "create" /\ live'[d].overtaken /\ live'[d].drift = live[d].drift
    <2>1. ASSUME NEW d \in Checks
          PROVE  /\ live'[d] \in Check
                 /\ live'[d].at = "create" =>
                       live[d].at = "create" /\ live'[d].overtaken /\ live'[d].drift = live[d].drift
        <3>1. CASE d = c
            BY <1>1, <3>1, IdleCheck
        <3>2. CASE d # c
            <4>1. live'[d] = [live[d] EXCEPT !.overtaken = live[d].at = "create"] /\ live[d] \in Check
                BY <1>1, <1>2, <3>2 DEF DeviationTypes
            <4> QED
                BY <4>1 DEF Check
        <3> QED
            BY <3>1, <3>2
    <2>2. live' = [d \in Checks |-> live'[d]]
        BY <1>1
    <2> QED
        BY <2>1, <2>2
<1>7. DeviationTypes'
    BY <1>1, <1>2, <1>4, <1>5, <1>6 DEF DeviationTypes
<1>8. \A i \in DOMAIN warnings' : warnings'[i].at <= now
    BY <1>3, <1>2, <1>5 DEF DeviationTypes, DeviationInv, Deciding
<1>9. Deciding'
    BY <1>1, <1>2, <1>4, <1>6, <1>8 DEF DeviationTypes, DeviationInv, Deciding
<1>10. WarningsAreEarned'
    <2>1. \A i \in DOMAIN warnings' : warnings'[i].drift >= Trigger
        BY <1>3, <1>5 DEF DeviationInv, WarningsAreEarned
    <2>2. ASSUME NEW i \in DOMAIN warnings', NEW j \in DOMAIN warnings', i < j,
                 warnings'[j].at - warnings'[i].at <= Cooldown
          PROVE  warnings'[j].overtaken
        <3>1. i \in DOMAIN warnings
            BY <1>5, <2>2
        <3>2. warnings[i].at \in Nat /\ now \in Nat /\ Cooldown \in Nat
            BY <1>2, <3>1, WarningTimes, TriggerAssumption DEF DeviationTypes
        <3>3. CASE j = n
            BY <1>3, <1>5, <2>2, <3>1, <3>2, <3>3
        <3>4. CASE j # n
            BY <1>5, <2>2, <3>1, <3>4 DEF DeviationInv, WarningsAreEarned
        <3> QED
            BY <3>3, <3>4
    <2> QED
        BY <2>1, <2>2 DEF WarningsAreEarned
<1> QED
    BY <1>7, <1>9, <1>10 DEF DeviationInv

LEMMA RestartStep ==
    ASSUME DeviationInv, RestartServer
    PROVE  DeviationInv'
<1>1. /\ live' = [c \in Checks |-> NotRunning] /\ counter' = NoCount /\ drift' = 0
      /\ warnings' = <<>> /\ now' = now
    BY DEF RestartServer
<1>2. NoCount \in [count : Nat, last : Int] /\ NoCount.count = 0
    BY TriggerAssumption DEF NoCount, Never
<1>3. DeviationTypes'
    BY <1>1, <1>2, IdleCheck, EmptySeq DEF DeviationInv, DeviationTypes
<1>4. Deciding' /\ WarningsAreEarned'
    BY <1>1, <1>2, IdleCheck DEF Deciding, WarningsAreEarned
<1> QED
    BY <1>3, <1>4 DEF DeviationInv

LEMMA TickStep ==
    ASSUME DeviationInv, Tick
    PROVE  DeviationInv'
<1>1. now' = now + 1 /\ UNCHANGED <<live, counter, drift, warnings>>
    BY DEF Tick
<1>2. DeviationTypes /\ now \in Nat /\ Cooldown \in Nat
    BY TriggerAssumption DEF DeviationInv, DeviationTypes
<1>3. DeviationTypes'
    BY <1>1, <1>2 DEF DeviationTypes
<1>4. \A i \in DOMAIN warnings : warnings[i].at \in Nat
    BY <1>2, WarningTimes
<1>5. Deciding'
    BY <1>1, <1>2, <1>4 DEF DeviationInv, Deciding
<1> QED
    BY <1>1, <1>3, <1>5 DEF DeviationInv, WarningsAreEarned

\* checkDeviation (socket.js 22-24): an incident rests on Trigger far positions in a row, and
\* a second one comes after the cooldown unless it was decided on before the first was stored.
THEOREM EarnedWarnings == DeviationSpec => []WarningsAreEarned
<1>1. DeviationInit => DeviationInv
    <2> SUFFICES ASSUME DeviationInit PROVE DeviationInv
        OBVIOUS
    <2>1. NoCount \in [count : Nat, last : Int] /\ NoCount.count = 0
        BY TriggerAssumption DEF NoCount, Never
    <2>2. DeviationTypes
        BY <2>1, IdleCheck, EmptySeq DEF DeviationInit, DeviationTypes
    <2>3. Deciding /\ WarningsAreEarned
        BY <2>1, IdleCheck DEF DeviationInit, Deciding, WarningsAreEarned
    <2> QED
        BY <2>2, <2>3 DEF DeviationInv
<1>2. DeviationInv /\ [DeviationNext]_deviation => DeviationInv'
    <2> SUFFICES ASSUME DeviationInv, [DeviationNext]_deviation PROVE DeviationInv'
        OBVIOUS
    <2>1. ASSUME NEW c \in Checks, CheckTrip(c) \/ NoTrip(c) \/ CreateFailed(c) PROVE DeviationInv'
        BY <2>1, OtherCheckStep
    <2>2. ASSUME NEW c \in Checks, JudgeFar(c) PROVE DeviationInv'
        BY <2>2, JudgeFarStep
    <2>3. ASSUME NEW c \in Checks, JudgeNear(c) PROVE DeviationInv'
        BY <2>3, JudgeNearStep
    <2>4. ASSUME NEW c \in Checks, CreateIncident(c) PROVE DeviationInv'
        BY <2>4, CreateIncidentStep
    <2>5. CASE RestartServer
        BY <2>5, RestartStep
    <2>6. CASE Tick
        BY <2>6, TickStep
    <2>7. CASE UNCHANGED deviation
        BY <2>7 DEF deviation, DeviationInv, DeviationTypes, Deciding, WarningsAreEarned
    <2> QED
        BY <2>1, <2>2, <2>3, <2>4, <2>5, <2>6, <2>7 DEF DeviationNext
<1>3. DeviationInv => WarningsAreEarned
    BY DEF DeviationInv
<1> QED
    BY <1>1, <1>2, <1>3, PTL DEF DeviationSpec

-----------------------------------------------------------------------------
(* ResponseCache: what an entry shows.                                     *)

Shows == [Orgs -> Int]
CacheEntry == [shows : Shows, excused : BOOLEAN]
Reading == [at : {"idle", "missed", "read"}, key : Keys \cup {<<>>}, saw : CacheEntry]
Writing == [at : {"idle", "answered", "scanned"}, org : Orgs \cup {"none"}, found : SUBSET Keys]

CacheTypes ==
    /\ data \in [Orgs -> Nat] /\ cached \in [Keys -> CacheEntry]
    /\ reading \in [Readers -> Reading] /\ writing \in [Writers -> Writing]

\* What a read has seen is what the database still shows, unless the read was excused;
\* and a request that invalidates nothing has found nothing.
Seen ==
    /\ \A r \in Readers : reading[r].at \in {"missed", "read"} => reading[r].key \in Keys
    /\ \A r \in Readers : reading[r].at = "read" =>
          reading[r].saw.excused \/ reading[r].saw.shows = Shown(reading[r].key[1])
    /\ \A w \in Writers : writing[w].at = "idle" => writing[w].found = {}

CacheInv == CacheTypes /\ Seen /\ StaleHasACause

\* A write is about to delete the entry of k.
Pursued(k) ==
    \E w \in Writers : writing[w].org = k[1] /\ (writing[w].at = "answered" \/ k \in writing[w].found)

LEMMA KeyOrgs == \A k \in Keys : k[1] \in Orgs
    BY DEF Keys

LEMMA ShownType == ASSUME data \in [Orgs -> Nat] PROVE \A o \in Orgs : Shown(o) \in Shows
    BY DEF Shown, Shows

LEMMA NoEntryType == NoEntry \in CacheEntry /\ NotReading \in Reading /\ NotReading.at = "idle"
                     /\ NotWriting \in Writing /\ NotWriting.at = "idle" /\ NotWriting.found = {}
<1>1. NoEntry \in CacheEntry
    BY DEF NoEntry, CacheEntry, Shows
<1> QED
    BY <1>1 DEF NotReading, Reading, NotWriting, Writing

\* A step that leaves the data, and whose entries were there, are gone or are excused or seen.
LEMMA SameData ==
    ASSUME CacheInv, CacheTypes', data' = data, Seen',
           \A k \in Keys : \/ cached'[k] = NoEntry
                           \/ cached'[k].excused
                           \/ cached'[k] = cached[k]
                           \/ cached'[k].shows = Shown(k[1]),
           \A k \in Keys : Pursued(k) /\ ~Pursued(k)' => cached'[k] = NoEntry \/ cached'[k].excused
    PROVE  CacheInv'
<1>1. \A o : Shown(o)' = Shown(o)
    BY DEF Shown
<1>2. ASSUME NEW k \in Keys, cached'[k] # NoEntry
      PROVE  cached'[k].shows = Shown(k[1]) \/ cached'[k].excused \/ Pursued(k)'
    <2>1. CASE cached'[k] = cached[k]
        BY <1>2, <2>1 DEF CacheInv, StaleHasACause, Pursued
    <2> QED
        BY <1>2, <2>1
<1>3. StaleHasACause'
    <2> SUFFICES ASSUME NEW k \in Keys, cached'[k] # NoEntry, cached'[k].shows # Shown(k[1])'
                 PROVE  cached'[k].excused \/ Pursued(k)'
        BY DEF StaleHasACause, Pursued
    <2> QED
        BY <1>1, <1>2
<1> QED
    BY <1>3 DEF CacheInv

\* The steps of a read: a miss, the query, and the answer that is stored.
LEMMA ReadStep ==
    ASSUME CacheInv, NEW r \in Readers, (\E k \in Keys : Miss(r, k)) \/ Query(r) \/ Store(r)
    PROVE  CacheInv'
<1>1. CacheTypes /\ Seen /\ reading[r] \in Reading
    BY DEF CacheInv, CacheTypes
<1>2. data' = data /\ writing' = writing /\ \A k : Pursued(k) => Pursued(k)'
    BY DEF Miss, Query, Store, Pursued
<1>3. \A o : Shown(o)' = Shown(o)
    BY <1>2 DEF Shown
<1>4. /\ reading' \in [Readers -> Reading] /\ \A q \in Readers \ {r} : reading'[q] = reading[q]
      /\ reading'[r].at \in {"missed", "read"} => reading'[r].key \in Keys
      /\ reading'[r].at = "read" => reading'[r].saw.shows = Shown(reading'[r].key[1])
    <2>1. ASSUME NEW k \in Keys, Miss(r, k)
          PROVE  /\ reading' \in [Readers -> Reading] /\ \A q \in Readers \ {r} : reading'[q] = reading[q]
                 /\ reading'[r].key \in Keys /\ reading'[r].at = "missed"
        <3>1. [at |-> "missed", key |-> k, saw |-> NoEntry] \in Reading
            BY NoEntryType DEF Reading
        <3> QED
            BY <1>1, <2>1, <3>1 DEF Miss, CacheTypes
    <2>2. CASE Query(r)
        <3> DEFINE saw == [shows |-> Shown(reading[r].key[1]), excused |-> FALSE]
        <3>1. reading[r].at = "missed" /\ reading[r].key \in Keys
            BY <1>1, <2>2 DEF Query, Seen
        <3>2. reading' = [reading EXCEPT ![r] = [reading[r] EXCEPT !.at = "read", !.saw = saw]]
            BY <1>1, <2>2 DEF Query, CacheTypes
        <3>3. saw \in CacheEntry /\ saw.shows = Shown(reading[r].key[1])
            BY <1>1, <3>1, KeyOrgs, ShownType DEF CacheTypes, CacheEntry
        <3> HIDE DEF saw
        <3>4. /\ [reading[r] EXCEPT !.at = "read", !.saw = saw] \in Reading
              /\ [reading[r] EXCEPT !.at = "read", !.saw = saw].key = reading[r].key
              /\ [reading[r] EXCEPT !.at = "read", !.saw = saw].saw = saw
            BY <1>1, <3>3 DEF Reading
        <3> QED
            BY <1>1, <3>1, <3>2, <3>3, <3>4 DEF CacheTypes
    <2>3. CASE Store(r)
        <3>1. reading' = [reading EXCEPT ![r] = NotReading]
            BY <2>3 DEF Store
        <3> QED
            BY <1>1, <3>1, NoEntryType DEF CacheTypes
    <2> QED
        BY <2>1, <2>2, <2>3
<1>5. cached' \in [Keys -> CacheEntry]
      /\ \A k \in Keys : cached'[k] = cached[k] \/ cached'[k].excused \/ cached'[k].shows = Shown(k[1])
    <2>1. CASE cached' = cached
        BY <1>1, <2>1 DEF CacheTypes
    <2>2. CASE Store(r) /\ cached' # cached
        <3>1. /\ reading[r].at = "read" /\ reading[r].key \in Keys /\ reading[r].saw \in CacheEntry
              /\ cached' = [cached EXCEPT ![reading[r].key] = reading[r].saw]
            BY <1>1, <2>2 DEF Store, Seen, Reading
        <3>2. reading[r].saw.excused \/ reading[r].saw.shows = Shown(reading[r].key[1])
            BY <1>1, <3>1 DEF Seen
        <3> QED
            BY <1>1, <3>1, <3>2 DEF CacheTypes
    <2> QED
        BY <2>1, <2>2 DEF Miss, Query
<1>6. CacheTypes'
    BY <1>1, <1>2, <1>4, <1>5 DEF CacheTypes
<1>7. Seen'
    BY <1>1, <1>2, <1>3, <1>4 DEF Seen
<1> QED
    BY <1>2, <1>5, <1>6, <1>7, SameData

\* Entries run out or are flushed, and Redis comes and goes.
LEMMA DropStep ==
    ASSUME CacheInv, (\E k \in Keys : Expire(k)) \/ (\E o \in Orgs : FlushOrg(o)) \/ RedisComesAndGoes
    PROVE  CacheInv'
<1>1. CacheTypes /\ Seen
    BY DEF CacheInv
<1>2. data' = data /\ reading' = reading /\ writing' = writing
    BY DEF Expire, FlushOrg, RedisComesAndGoes
<1>3. cached' \in [Keys -> CacheEntry] /\ \A k \in Keys : cached'[k] \in {cached[k], NoEntry}
    BY <1>1, NoEntryType DEF CacheTypes, Expire, FlushOrg, RedisComesAndGoes
<1>4. CacheTypes'
    BY <1>1, <1>2, <1>3 DEF CacheTypes
<1>5. Seen' /\ \A k : Pursued(k) => Pursued(k)'
    BY <1>1, <1>2 DEF Seen, Shown, Pursued
<1> QED
    BY <1>2, <1>3, <1>4, <1>5, SameData

\* Scanning finds every entry there is, so the write stays on the heels of all of them.
LEMMA ScanStep ==
    ASSUME CacheInv, NEW w \in Writers, Scan(w)
    PROVE  CacheInv'
<1> DEFINE write == [writing[w] EXCEPT !.at = "scanned", !.found = Matching(writing[w].org)]
<1>1. CacheTypes /\ Seen /\ writing[w] \in Writing
    BY DEF CacheInv, CacheTypes
<1>2. /\ writing[w].at = "answered" /\ writing' = [writing EXCEPT ![w] = write]
      /\ UNCHANGED <<data, cached, ready, reading>>
    BY <1>1 DEF Scan, CacheTypes
<1>3. /\ write \in Writing /\ write.at = "scanned" /\ write.org = writing[w].org
      /\ write.found = Matching(writing[w].org)
    BY <1>1 DEF Writing, Matching
<1> HIDE DEF write
<1>4. /\ writing' \in [Writers -> Writing] /\ writing'[w] = write
      /\ \A v \in Writers \ {w} : writing'[v] = writing[v]
    BY <1>1, <1>2, <1>3 DEF CacheTypes
<1>5. CacheTypes'
    BY <1>1, <1>2, <1>4 DEF CacheTypes
<1>6. Seen'
    BY <1>1, <1>2, <1>3, <1>4 DEF Seen, Shown
<1>7. ASSUME NEW k \in Keys, Pursued(k), ~Pursued(k)'
      PROVE  cached'[k] = NoEntry
    <2>1. PICK v \in Writers : writing[v].org = k[1] /\ (writing[v].at = "answered" \/ k \in writing[v].found)
        BY <1>7 DEF Pursued
    <2>2. v = w
        BY <1>4, <1>7, <2>1 DEF Pursued
    <2>3. k \notin Matching(writing[w].org)
        BY <1>3, <1>4, <1>7, <2>1, <2>2 DEF Pursued
    <2> QED
        BY <1>2, <2>1, <2>2, <2>3 DEF Matching
<1> QED
    BY <1>2, <1>5, <1>6, <1>7, SameData

\* What was found is deleted; or nothing is, and the history excuses what stays.
LEMMA DeleteStep ==
    ASSUME CacheInv, NEW w \in Writers, Delete(w) \/ InvalidationLost(w)
    PROVE  CacheInv'
<1>1. CacheTypes /\ Seen /\ writing[w] \in Writing
    BY DEF CacheInv, CacheTypes
<1>2. writing' = [writing EXCEPT ![w] = NotWriting] /\ UNCHANGED <<data, reading>>
    BY DEF Delete, InvalidationLost
<1>3. /\ writing' \in [Writers -> Writing] /\ writing'[w] = NotWriting
      /\ \A v \in Writers \ {w} : writing'[v] = writing[v]
    BY <1>1, <1>2, NoEntryType DEF CacheTypes
<1>4. cached' \in [Keys -> CacheEntry]
      /\ \A k \in Keys : cached'[k] \in {cached[k], NoEntry} \/ cached'[k].excused
    <2>1. CASE Delete(w)
        BY <1>1, <2>1, NoEntryType DEF CacheTypes, Delete
    <2>2. CASE InvalidationLost(w)
        <3>1. \A k \in Keys : /\ [cached[k] EXCEPT !.excused = TRUE] \in CacheEntry
                              /\ [cached[k] EXCEPT !.excused = TRUE].excused
            BY <1>1 DEF CacheTypes, CacheEntry
        <3> QED
            BY <1>1, <2>2, <3>1 DEF CacheTypes, InvalidationLost, Behind
    <2> QED
        BY <2>1, <2>2
<1>5. CacheTypes'
    BY <1>1, <1>2, <1>3, <1>4 DEF CacheTypes
<1>6. Seen'
    BY <1>1, <1>2, <1>3, NoEntryType DEF Seen, Shown
<1>7. ASSUME NEW k \in Keys, Pursued(k), ~Pursued(k)'
      PROVE  cached'[k] = NoEntry \/ cached'[k].excused
    <2>1. PICK v \in Writers : writing[v].org = k[1] /\ (writing[v].at = "answered" \/ k \in writing[v].found)
        BY <1>7 DEF Pursued
    <2>2. v = w
        BY <1>3, <1>7, <2>1 DEF Pursued
    <2>3. CASE Delete(w)
        BY <2>1, <2>2, <2>3 DEF Delete
    <2>4. CASE InvalidationLost(w)
        <3>1. cached[k] \in CacheEntry
            BY <1>1 DEF CacheTypes
        <3> QED
            BY <2>1, <2>2, <2>4, <3>1 DEF InvalidationLost, Behind, CacheEntry
    <2> QED
        BY <2>3, <2>4
<1> QED
    BY <1>2, <1>4, <1>5, <1>6, <1>7, SameData

\* A change of o's data: reads of it under way and the entries of other organisations that
\* show it are excused, o's own are excused or about to be deleted.
LEMMA ChangeStep ==
    ASSUME CacheInv, NEW o \in Orgs,
           ChangeElsewhere(o) \/ \E w \in Writers : Change(w, o)
    PROVE  CacheInv'
<1>1. CacheTypes /\ Seen
    BY DEF CacheInv
<1>2. /\ data' = [data EXCEPT ![o] = data[o] + 1] /\ Overtake(o)
      /\ data' \in [Orgs -> Nat] /\ \A p \in Orgs \ {o} : data'[p] = data[p]
    <2>1. data' = [data EXCEPT ![o] = data[o] + 1] /\ Overtake(o)
        BY DEF Change, ChangeElsewhere
    <2>2. data \in [Orgs -> Nat] /\ data[o] + 1 \in Nat
        BY <1>1 DEF CacheTypes
    <2> QED
        BY <2>1, <2>2
<1>3. ASSUME NEW p \in Orgs, o \notin Scope[p] PROVE Shown(p)' = Shown(p)
    BY <1>2, <1>3 DEF Shown
<1>4. PICK keys \in SUBSET Keys :
         /\ Behind(keys)
         /\ \A k \in Keys : o \in Scope[k[1]] => k \in keys \/ (k[1] = o /\ Pursued(k)')
         /\ writing' \in [Writers -> Writing]
         /\ \A v \in Writers : writing'[v] = writing[v] \/ (writing[v].found = {} /\ writing[v].at = "idle")
         /\ \A v \in Writers : writing'[v].at = "idle" => writing'[v].found = {}
    <2>1. CASE ChangeElsewhere(o)
        BY <1>1, <2>1 DEF ChangeElsewhere, CacheTypes, Seen
    <2>2. ASSUME NEW w \in Writers, Change(w, o)
          PROVE  LET keys == {k \in Keys : k[1] # o /\ o \in Scope[k[1]]} IN
                 /\ Behind(keys)
                 /\ \A k \in Keys : o \in Scope[k[1]] => k \in keys \/ (k[1] = o /\ Pursued(k)')
                 /\ writing' \in [Writers -> Writing]
                 /\ \A v \in Writers : writing'[v] = writing[v] \/ (writing[v].found = {} /\ writing[v].at = "idle")
                 /\ \A v \in Writers : writing'[v].at = "idle" => writing'[v].found = {}
        <3> DEFINE write == [at |-> "answered", org |-> o, found |-> {}]
        <3>1. /\ writing' = [writing EXCEPT ![w] = write] /\ writing[w].at = "idle"
              /\ Behind({k \in Keys : k[1] # o /\ o \in Scope[k[1]]})
            <4>1. PICK status \in {200, 201} :
                     writing' = [writing EXCEPT ![w] = IF Success(status) THEN write ELSE NotWriting]
                BY <2>2 DEF Change
            <4>2. Success(status)
                BY DEF Success
            <4> QED
                BY <2>2, <4>1, <4>2 DEF Change
        <3>2. write \in Writing /\ write.at = "answered" /\ write.org = o
            BY DEF Writing
        <3> HIDE DEF write
        <3>3. /\ writing' \in [Writers -> Writing] /\ writing'[w] = write
              /\ \A v \in Writers \ {w} : writing'[v] = writing[v]
            BY <1>1, <3>1, <3>2 DEF CacheTypes
        <3>4. \A k \in Keys : k[1] = o => Pursued(k)'
            BY <3>2, <3>3 DEF Pursued
        <3> QED
            BY <1>1, <3>1, <3>2, <3>3, <3>4 DEF Seen
    <2> QED
        BY <2>1, <2>2
<1>5. \A k \in Keys : Pursued(k) => Pursued(k)'
    BY <1>4 DEF Pursued
<1>6. \A k \in Keys : /\ cached[k] \in CacheEntry
                      /\ [cached[k] EXCEPT !.excused = TRUE] \in CacheEntry
                      /\ [cached[k] EXCEPT !.excused = TRUE].excused
                      /\ [cached[k] EXCEPT !.excused = TRUE].shows = cached[k].shows
    BY <1>1 DEF CacheTypes, CacheEntry
<1>7. /\ cached' \in [Keys -> CacheEntry]
      /\ \A k \in Keys : cached'[k] = cached[k] \/ cached'[k].excused
      /\ \A k \in keys : cached[k] = NoEntry \/ cached'[k].excused
    BY <1>4, <1>6 DEF Behind
<1>8. /\ reading' \in [Readers -> Reading]
      /\ \A r \in Readers : /\ reading'[r].at = reading[r].at /\ reading'[r].key = reading[r].key
                            /\ \/ reading'[r] = reading[r]
                                  /\ ~(reading[r].at = "read" /\ o \in Scope[reading[r].key[1]])
                               \/ reading'[r].saw.excused
    <2>1. ASSUME NEW r \in Readers
          PROVE  /\ [reading[r] EXCEPT !.saw.excused = TRUE] \in Reading
                 /\ [reading[r] EXCEPT !.saw.excused = TRUE].at = reading[r].at
                 /\ [reading[r] EXCEPT !.saw.excused = TRUE].key = reading[r].key
                 /\ [reading[r] EXCEPT !.saw.excused = TRUE].saw.excused
        <3>1. reading[r] \in Reading
            BY <1>1 DEF CacheTypes
        <3> QED
            BY <3>1 DEF Reading, CacheEntry
    <2> QED
        BY <1>1, <1>2, <2>1 DEF Overtake, CacheTypes
<1>9. CacheTypes'
    BY <1>2, <1>4, <1>7, <1>8 DEF CacheTypes
<1>10. Seen'
    <2>1. ASSUME NEW r \in Readers, reading'[r].at = "read"
          PROVE  reading'[r].saw.excused \/ reading'[r].saw.shows = Shown(reading[r].key[1])'
        <3>1. reading[r].at = "read" /\ reading[r].key \in Keys /\ reading[r].key[1] \in Orgs
            BY <1>1, <1>8, <2>1, KeyOrgs DEF Seen
        <3> DEFINE p == reading[r].key[1]
        <3>2. CASE o \in Scope[p]
            BY <1>8, <3>1, <3>2
        <3>3. CASE o \notin Scope[p]
            <4>1. PICK q \in Orgs : q = p
                BY <3>1
            <4>2. Shown(q)' = Shown(q)
                BY <1>3, <3>3, <4>1
            <4>3. reading'[r].key[1] = q
                BY <1>8, <4>1
            <4> QED
                BY <1>1, <1>8, <2>1, <3>1, <4>1, <4>2, <4>3 DEF Seen, Shown
        <3> QED
            BY <3>2, <3>3
    <2>2. \A r \in Readers : reading'[r].key = reading[r].key
        BY <1>8
    <2> QED
        BY <1>1, <1>4, <1>8, <2>1, <2>2 DEF Seen
<1>11. StaleHasACause'
    <2> SUFFICES ASSUME NEW k \in Keys, cached'[k] # NoEntry, cached'[k].shows # Shown(k[1])'
                 PROVE  cached'[k].excused \/ Pursued(k)'
        BY DEF StaleHasACause, Pursued
    <2>1. CASE o \notin Scope[k[1]]
        <3>1. Shown(k[1])' = Shown(k[1])
            BY <1>3, <2>1, KeyOrgs
        <3>2. cached'[k].excused \/ (cached[k] # NoEntry /\ cached[k].shows # Shown(k[1]) /\ cached'[k] = cached[k])
            BY <1>7, <3>1
        <3> QED
            BY <1>5, <3>2 DEF CacheInv, StaleHasACause, Pursued
    <2>2. CASE o \in Scope[k[1]]
        BY <1>4, <1>7, <2>2
    <2> QED
        BY <2>1, <2>2
<1> QED
    BY <1>9, <1>10, <1>11 DEF CacheInv

\* cache.js 97: an entry that shows old data is about to be deleted, or one the code cannot
\* delete: nothing else outlives its data.
THEOREM StaleEntries == CacheSpec => []StaleHasACause
<1>1. CacheInit => CacheInv
    <2> SUFFICES ASSUME CacheInit PROVE CacheInv
        OBVIOUS
    <2> QED
        BY NoEntryType DEF CacheInit, CacheInv, CacheTypes, Seen, StaleHasACause
<1>2. CacheInv /\ [CacheNext]_cache => CacheInv'
    <2> SUFFICES ASSUME CacheInv, [CacheNext]_cache PROVE CacheInv'
        OBVIOUS
    <2>1. ASSUME NEW r \in Readers, (\E k \in Keys : Miss(r, k)) \/ Query(r) \/ Store(r) PROVE CacheInv'
        BY <2>1, ReadStep
    <2>2. CASE (\E k \in Keys : Expire(k)) \/ (\E o \in Orgs : FlushOrg(o)) \/ RedisComesAndGoes
        BY <2>2, DropStep
    <2>3. ASSUME NEW w \in Writers, NEW o \in Orgs, Change(w, o) PROVE CacheInv'
        BY <2>3, ChangeStep
    <2>4. ASSUME NEW o \in Orgs, ChangeElsewhere(o) PROVE CacheInv'
        BY <2>4, ChangeStep
    <2>5. ASSUME NEW w \in Writers, Scan(w) PROVE CacheInv'
        BY <2>5, ScanStep
    <2>6. ASSUME NEW w \in Writers, Delete(w) \/ InvalidationLost(w) PROVE CacheInv'
        BY <2>6, DeleteStep
    <2>7. CASE UNCHANGED cache
        BY <2>7 DEF cache, CacheInv, CacheTypes, Seen, StaleHasACause, Shown
    <2> QED
        BY <2>1, <2>2, <2>3, <2>4, <2>5, <2>6, <2>7 DEF CacheNext
<1>3. CacheInv => StaleHasACause
    BY DEF CacheInv
<1> QED
    BY <1>1, <1>2, <1>3, PTL DEF CacheSpec

-----------------------------------------------------------------------------
(* Organizations: the tree.                                                *)

AnyType == OrgType \cup {"none"}
Org == [exists : BOOLEAN, type : AnyType, parent : Nat, path : Seq(Nat)]
Duty == [op : {"none", "create", "import", "register", "update", "delete"},
         at : Looked \cup {"idle", "role", "account"},
         id : Nat, type : AnyType, parent : Nat, path : Seq(Nat), late : BOOLEAN]

TreeTypes ==
    /\ orgs \in Seq(Org) /\ duty \in [Requests -> Duty]
    /\ \A i \in Existing : orgs[i].type \in OrgType

\* The place an organisation has under its parent.
Placed(parent, path, type) ==
    parent # 0 => /\ parent \in Existing
                  /\ path = Append(orgs[parent].path, parent)
                  /\ type = ORG_CHILD_TYPE[orgs[parent].type]

\* What a request that looked at the tree found there.
FoundThere(d) ==
    /\ d.at = "store" => d.type \in OrgType /\ Placed(d.parent, d.path, d.type)
    /\ d.at = "save" =>
          /\ d.type \in OrgType /\ d.type # orgs[d.id].type
          /\ orgs[d.id].parent # 0 => d.type = ORG_CHILD_TYPE[orgs[orgs[d.id].parent].type]
          /\ \A c \in Children(d.id) : orgs[c].type = ORG_CHILD_TYPE[d.type]
    /\ d.at \in {"roles", "delete"} => Children(d.id) = {}

\* A request nobody overtook has found what is still there.
Fresh ==
    \A q \in Requests :
        /\ duty[q].at \in Looked /\ ~duty[q].late => FoundThere(duty[q])
        /\ duty[q].at \in {"store", "save"} => duty[q].type \in OrgType

TreeInv == TreeTypes /\ Fresh /\ TreeAgrees

LEMMA NoDutyType == NoDuty \in Duty /\ NoDuty.at = "idle" /\ NoOrg \in Org /\ ~NoOrg.exists
    BY EmptySeq DEF NoDuty, Duty, NoOrg, Org, AnyType

\* A request looks, or goes on, and the tree stays.
LEMMA LookStep ==
    ASSUME TreeInv, UNCHANGED <<orgs, excused>>, NEW q \in Requests, NEW d \in Duty,
           duty' = [duty EXCEPT ![q] = d],
           d.at \in Looked /\ ~d.late => FoundThere(d),
           d.at \in {"store", "save"} => d.type \in OrgType
    PROVE  TreeInv'
<1>1. duty' \in [Requests -> Duty] /\ duty'[q] = d /\ \A p \in Requests \ {q} : duty'[p] = duty[p]
    BY DEF TreeInv, TreeTypes
<1>2. Existing' = Existing /\ \A i : Children(i)' = Children(i)
    BY DEF Existing, Children
<1>3. TreeTypes'
    BY <1>1, <1>2 DEF TreeInv, TreeTypes
<1>4. \A e \in Duty : FoundThere(e) => FoundThere(e)'
    BY <1>2 DEF FoundThere, Placed
<1>5. Fresh'
    <2> SUFFICES ASSUME NEW p \in Requests
                 PROVE  /\ duty'[p].at \in Looked /\ ~duty'[p].late => FoundThere(duty[p])'
                        /\ duty'[p].at \in {"store", "save"} => duty'[p].type \in OrgType
        BY DEF Fresh
    <2>1. duty'[p].at \in Looked /\ ~duty'[p].late => FoundThere(duty'[p])
        BY <1>1 DEF TreeInv, Fresh
    <2>2. duty'[p].at \in {"store", "save"} => duty'[p].type \in OrgType
        BY <1>1 DEF TreeInv, Fresh
    <2>3. PICK e \in Duty : e = duty'[p]
        BY <1>1
    <2>4. duty'[p].at \in Looked /\ ~duty'[p].late => FoundThere(e)'
        BY <1>4, <2>1, <2>3
    <2> QED
        BY <2>2, <2>3, <2>4 DEF FoundThere, Placed
<1>6. TreeAgrees'
    BY <1>2 DEF TreeInv, TreeAgrees
<1> QED
    BY <1>3, <1>5, <1>6 DEF TreeInv

\* A change of the tree overtakes every request that has looked.
LEMMA MoveStep ==
    ASSUME TreeInv, orgs' \in Seq(Org), \A i \in Existing' : orgs'[i].type \in OrgType, TreeAgrees',
           NEW q \in Requests, NEW d \in Duty, d.at \notin Looked, Move(q, d)
    PROVE  TreeInv'
<1>1. ASSUME NEW p \in Requests
      PROVE  /\ duty'[p] \in Duty
             /\ duty'[p].at \in Looked => duty'[p].late
             /\ duty'[p].at \in {"store", "save"} => duty'[p].type \in OrgType
    <2>1. CASE p = q
        BY <2>1 DEF Move, Looked
    <2>2. CASE p # q
        <3> DEFINE looked == duty[p].at \in Looked
        <3>1. PICK tardy \in BOOLEAN : tardy = looked
            <4>1. CASE looked
                <5>1. TRUE = looked
                    BY <4>1
                <5> QED
                    BY <5>1
            <4>2. CASE ~looked
                <5>1. FALSE = looked
                    BY <4>2
                <5> QED
                    BY <5>1
            <4> QED
                BY <4>1, <4>2
        <3>2. duty'[p] = [duty[p] EXCEPT !.late = tardy] /\ duty[p] \in Duty
            BY <2>2, <3>1 DEF Move, TreeInv, TreeTypes
        <3>3. /\ duty'[p] \in Duty /\ duty'[p].at = duty[p].at /\ duty'[p].type = duty[p].type
              /\ duty'[p].late = tardy
            BY <3>2 DEF Duty
        <3>4. duty[p].at \in Looked => tardy
            BY <3>1
        <3> QED
            BY <3>3, <3>4 DEF TreeInv, Fresh
    <2> QED
        BY <2>1, <2>2
<1>2. duty' = [p \in Requests |-> duty'[p]]
    BY DEF Move
<1>3. duty' \in [Requests -> Duty]
    BY <1>1, <1>2
<1>4. Fresh'
    BY <1>1 DEF Fresh
<1> QED
    BY <1>3, <1>4 DEF TreeInv, TreeTypes

LEMMA Kept ==
    ASSUME TreeInv
    PROVE  /\ \A i \in DOMAIN orgs : orgs[i] \in Org /\ i \in Nat /\ i # 0
           /\ \A q \in Requests : duty[q] \in Duty
           /\ DOMAIN orgs = 1 .. Len(orgs) /\ Len(orgs) \in Nat
<1>1. orgs \in Seq(Org)
    BY DEF TreeInv, TreeTypes
<1>2. DOMAIN orgs = 1 .. Len(orgs) /\ Len(orgs) \in Nat /\ \A i \in DOMAIN orgs : orgs[i] \in Org
    BY <1>1, ElementOfSeq
<1> QED
    BY <1>2 DEF TreeInv, TreeTypes

LEMMA CreateChecksStep ==
    ASSUME TreeInv, NEW q \in Requests, CreateChecks(q)
    PROVE  TreeInv'
<1>1. PICK parent \in {0} \cup Existing, type \in OrgType :
         /\ HierarchyOk(parent, type)
         /\ duty' = [duty EXCEPT ![q] =
               [NoDuty EXCEPT !.op = "create", !.at = "store", !.type = type, !.parent = parent,
                              !.path = IF parent = 0 THEN <<>> ELSE Append(orgs[parent].path, parent)]]
    BY DEF CreateChecks, Begin
<1> DEFINE path == IF parent = 0 THEN <<>> ELSE Append(orgs[parent].path, parent)
           d == [NoDuty EXCEPT !.op = "create", !.at = "store", !.type = type, !.parent = parent,
                               !.path = path]
<1>2. parent \in Nat /\ path \in Seq(Nat)
    <2>1. CASE parent = 0
        BY <2>1, EmptySeq
    <2>2. CASE parent # 0
        <3>1. parent \in DOMAIN orgs
            BY <2>2 DEF Existing
        <3>2. orgs[parent].path \in Seq(Nat) /\ parent \in Nat
            BY <3>1, Kept DEF Org
        <3> QED
            BY <2>2, <3>2, AppendProperties
    <2> QED
        BY <2>1, <2>2
<1>3. Placed(parent, path, type)
    <2>1. parent # 0 => parent \in Existing /\ path = Append(orgs[parent].path, parent)
        OBVIOUS
    <2>2. parent # 0 => type = ORG_CHILD_TYPE[orgs[parent].type]
        BY <1>1 DEF HierarchyOk, ExpectedType
    <2> HIDE DEF path
    <2> QED
        BY <2>1, <2>2 DEF Placed
<1>4. duty' = [duty EXCEPT ![q] = d]
    BY <1>1
<1> HIDE DEF path
<1>5. /\ d \in Duty /\ d.at = "store" /\ d.type = type /\ d.parent = parent /\ d.path = path
    BY <1>2, NoDutyType DEF NoDuty, Duty, AnyType, Looked
<1> HIDE DEF d
<1>6. FoundThere(d) /\ UNCHANGED <<orgs, excused>>
    BY <1>3, <1>5 DEF FoundThere, CreateChecks
<1> QED
    BY <1>4, <1>5, <1>6, LookStep

\* Requests that write no place in the tree: an import or registration that begins, a role
\* or an account that is stored, requests that end or fail.
LEMMA PlainStep ==
    ASSUME TreeInv, NEW q \in Requests,
           \/ RootChecks(q) \/ StoreRole(q) \/ StoreAccount(q) \/ OrgRequestFails(q)
           \/ RoleFails(q) /\ duty[q].op = "import"
           \/ SaveType(q) /\ ~orgs[duty[q].id].exists
    PROVE  TreeInv'
<1>1. duty[q] \in Duty /\ UNCHANGED <<orgs, excused>>
    BY Kept DEF RootChecks, StoreRole, StoreAccount, OrgRequestFails, RoleFails, SaveType
<1>2. PICK d \in Duty :
         /\ duty' = [duty EXCEPT ![q] = d]
         /\ d.at \in Looked => d.at = "store" /\ d.type \in OrgType /\ d.parent = 0
    <2>1. CASE duty' = [duty EXCEPT ![q] = NoDuty]
        BY <2>1, NoDutyType DEF Looked
    <2>2. CASE duty' = [duty EXCEPT ![q].at = "account"]
        <3>1. [duty[q] EXCEPT !.at = "account"] \in Duty /\ [duty[q] EXCEPT !.at = "account"].at = "account"
            BY <1>1 DEF Duty
        <3> QED
            BY <2>2, <3>1 DEF Looked
    <2>3. CASE RootChecks(q)
        <3>1. PICK op \in {"import", "register"}, type \in OrgType :
                 duty' = [duty EXCEPT ![q] = [NoDuty EXCEPT !.op = op, !.at = "store", !.type = type]]
            BY <2>3 DEF RootChecks, Begin
        <3> DEFINE d == [NoDuty EXCEPT !.op = op, !.at = "store", !.type = type]
        <3>2. d \in Duty /\ d.at = "store" /\ d.type = type /\ d.parent = 0
            BY NoDutyType DEF NoDuty, Duty, AnyType, Looked
        <3> QED
            BY <3>1, <3>2
    <2> QED
        BY <2>1, <2>2, <2>3 DEF StoreRole, StoreAccount, OrgRequestFails, RoleFails, SaveType, Answer, Step
<1>3. /\ d.at \in Looked /\ ~d.late => FoundThere(d)
      /\ d.at \in {"store", "save"} => d.type \in OrgType
    BY <1>2 DEF FoundThere, Placed, Looked
<1> QED
    BY <1>1, <1>2, <1>3, LookStep

LEMMA UpdateChecksStep ==
    ASSUME TreeInv, NEW q \in Requests, UpdateChecks(q)
    PROVE  TreeInv'
<1>1. PICK i \in Existing, type \in OrgType :
         /\ type # orgs[i].type /\ HierarchyOk(orgs[i].parent, type)
         /\ \A c \in Children(i) : orgs[c].type = ORG_CHILD_TYPE[type]
         /\ duty' = [duty EXCEPT ![q] = [NoDuty EXCEPT !.op = "update", !.at = "save", !.id = i, !.type = type]]
    BY DEF UpdateChecks, Begin
<1> DEFINE d == [NoDuty EXCEPT !.op = "update", !.at = "save", !.id = i, !.type = type]
<1>2. i \in Nat
    BY Kept DEF Existing
<1>3. d \in Duty /\ d.at = "save" /\ d.id = i /\ d.type = type
    BY <1>2, NoDutyType DEF NoDuty, Duty, AnyType, Looked
<1>4. orgs[i].parent # 0 => type = ORG_CHILD_TYPE[orgs[orgs[i].parent].type]
    BY <1>1 DEF HierarchyOk, ExpectedType
<1>5. duty' = [duty EXCEPT ![q] = d]
    BY <1>1
<1> HIDE DEF d
<1>6. FoundThere(d) /\ UNCHANGED <<orgs, excused>>
    BY <1>1, <1>3, <1>4 DEF FoundThere, UpdateChecks
<1> QED
    BY <1>3, <1>5, <1>6, LookStep

LEMMA DeletingStep ==
    ASSUME TreeInv, NEW q \in Requests, DeleteChecks(q) \/ DeleteRoles(q)
    PROVE  TreeInv'
<1>1. CASE DeleteChecks(q)
    <2>1. PICK i \in Existing :
             /\ Children(i) = {}
             /\ duty' = [duty EXCEPT ![q] = [NoDuty EXCEPT !.op = "delete", !.at = "roles", !.id = i]]
        BY <1>1 DEF DeleteChecks, Begin, Keeping
    <2> DEFINE d == [NoDuty EXCEPT !.op = "delete", !.at = "roles", !.id = i]
    <2>2. i \in Nat
        BY Kept DEF Existing
    <2>3. d \in Duty /\ d.at = "roles" /\ d.id = i
        BY <2>2, NoDutyType DEF NoDuty, Duty, Looked
    <2>4. duty' = [duty EXCEPT ![q] = d]
        BY <2>1
    <2> HIDE DEF d
    <2>5. FoundThere(d) /\ UNCHANGED <<orgs, excused>>
        BY <1>1, <2>1, <2>3 DEF FoundThere, DeleteChecks
    <2> QED
        BY <2>3, <2>4, <2>5, LookStep
<1>2. CASE DeleteRoles(q)
    <2> DEFINE d == [duty[q] EXCEPT !.at = "delete"]
    <2>1. duty[q] \in Duty /\ duty[q].at = "roles"
        BY <1>2, Kept DEF DeleteRoles
    <2>2. d \in Duty /\ d.at = "delete" /\ d.id = duty[q].id /\ d.late = duty[q].late
        BY <2>1 DEF Duty, Looked
    <2>3. duty' = [duty EXCEPT ![q] = d] /\ UNCHANGED <<orgs, excused>>
        BY <1>2 DEF DeleteRoles, Step
    <2> HIDE DEF d
    <2>4. ~d.late => FoundThere(d)
        BY <2>1, <2>2 DEF TreeInv, Fresh, FoundThere, Looked
    <2> QED
        BY <2>2, <2>3, <2>4, LookStep
<1> QED
    BY <1>1, <1>2

\* A new organisation is where its request looked, or is excused.
LEMMA StoreOrgStep ==
    ASSUME TreeInv, NEW q \in Requests, StoreOrg(q)
    PROVE  TreeInv'
<1> DEFINE d == duty[q]
           n == Len(orgs) + 1
           org == [exists |-> TRUE, type |-> d.type, parent |-> d.parent, path |-> d.path]
           next == [NoDuty EXCEPT !.op = d.op, !.at = "role", !.id = n]
<1>1. /\ d.at = "store" /\ orgs' = Append(orgs, org) /\ Move(q, next)
      /\ excused' = IF d.late THEN excused \cup {n} ELSE excused
    BY DEF StoreOrg
<1>2. d \in Duty /\ Len(orgs) \in Nat /\ orgs \in Seq(Org)
    BY Kept DEF TreeInv, TreeTypes
<1>3. /\ org \in Org /\ org.exists /\ org.type = d.type /\ org.parent = d.parent /\ org.path = d.path
      /\ d.type \in OrgType
    BY <1>1, <1>2 DEF Org, Duty, TreeInv, Fresh
<1>4. next \in Duty /\ next.at = "role"
    <2>1. n \in Nat /\ d.op \in {"none", "create", "import", "register", "update", "delete"}
        BY <1>2 DEF Duty
    <2> HIDE DEF n, d
    <2> QED
        BY <2>1, NoDutyType DEF NoDuty, Duty
<1> HIDE DEF org, next
<1>5. /\ orgs' \in Seq(Org) /\ Len(orgs') = n /\ orgs'[n] = org
      /\ \A i \in 1 .. Len(orgs) : orgs'[i] = orgs[i]
    BY <1>1, <1>2, <1>3, AppendProperties
<1>6. /\ Existing' = Existing \cup {n} /\ n \notin Existing
      /\ \A i \in Existing : orgs'[i] = orgs[i]
    BY <1>2, <1>3, <1>5, Kept DEF Existing
<1>7. \A i \in Existing' : orgs'[i].type \in OrgType
    BY <1>3, <1>5, <1>6 DEF TreeInv, TreeTypes
<1>8. ~d.late => Placed(d.parent, d.path, d.type)
    BY <1>1 DEF TreeInv, Fresh, FoundThere, Looked
<1>9. TreeAgrees'
    <2> SUFFICES ASSUME NEW i \in Existing' \ excused', orgs'[i].parent # 0
                 PROVE  LET p == orgs'[i].parent IN
                        /\ p \in Existing'
                        /\ orgs'[i].path = Append(orgs'[p].path, p)
                        /\ orgs'[i].type = ORG_CHILD_TYPE[orgs'[p].type]
        BY DEF TreeAgrees
    <2>1. CASE i = n
        <3>1. ~d.late
            BY <1>1, <2>1
        <3> QED
            BY <1>3, <1>5, <1>6, <1>8, <2>1, <3>1 DEF Placed
    <2>2. CASE i # n
        <3> DEFINE p == orgs[i].parent
        <3>1. i \in Existing \ excused /\ orgs'[i] = orgs[i]
            BY <1>1, <1>6, <2>2
        <3>2. /\ p \in Existing
              /\ orgs[i].path = Append(orgs[p].path, p)
              /\ orgs[i].type = ORG_CHILD_TYPE[orgs[p].type]
            BY <3>1 DEF TreeInv, TreeAgrees
        <3>3. p \in Existing' /\ orgs'[p] = orgs[p]
            BY <1>6, <3>2
        <3> QED
            BY <3>1, <3>2, <3>3
    <2> QED
        BY <2>1, <2>2
<1> QED
    BY <1>1, <1>4, <1>5, <1>7, <1>9, MoveStep DEF Looked

\* An organisation that is taken back or deleted leaves no child that is not excused.
LEMMA GoneStep ==
    ASSUME TreeInv, NEW q \in Requests, NEW i, Gone(i), Move(q, NoDuty),
           (excused \cup Children(i)) \ {i} \subseteq excused'
    PROVE  TreeInv'
<1>1. orgs' = [orgs EXCEPT ![i] = NoOrg] /\ orgs \in Seq(Org)
    BY DEF Gone, TreeInv, TreeTypes
<1>2. /\ orgs' \in Seq(Org) /\ DOMAIN orgs' = DOMAIN orgs
      /\ \A j \in DOMAIN orgs : j # i => orgs'[j] = orgs[j]
      /\ i \in DOMAIN orgs => orgs'[i] = NoOrg
    <2>1. CASE i \in DOMAIN orgs
        BY <1>1, <2>1, NoDutyType, Kept, ExceptSeq
    <2>2. CASE i \notin DOMAIN orgs
        <3>1. orgs' = orgs
            BY <1>1, <2>2, Kept
        <3> QED
            BY <1>1, <2>2, <3>1
    <2> QED
        BY <2>1, <2>2
<1>3. Existing' = Existing \ {i} /\ \A j \in Existing' : orgs'[j] = orgs[j]
    BY <1>2, NoDutyType DEF Existing
<1>4. \A j \in Existing' : orgs'[j].type \in OrgType
    BY <1>3 DEF TreeInv, TreeTypes
<1>5. TreeAgrees'
    <2> SUFFICES ASSUME NEW j \in Existing' \ excused', orgs'[j].parent # 0
                 PROVE  LET p == orgs'[j].parent IN
                        /\ p \in Existing'
                        /\ orgs'[j].path = Append(orgs'[p].path, p)
                        /\ orgs'[j].type = ORG_CHILD_TYPE[orgs'[p].type]
        BY DEF TreeAgrees
    <2>1. j \in Existing \ excused /\ j # i /\ orgs'[j] = orgs[j] /\ orgs[j].parent # i
        BY <1>3 DEF Children
    <2> DEFINE p == orgs[j].parent
    <2>2. /\ p \in Existing
          /\ orgs[j].path = Append(orgs[p].path, p)
          /\ orgs[j].type = ORG_CHILD_TYPE[orgs[p].type]
        BY <2>1 DEF TreeInv, TreeAgrees
    <2>3. p \in Existing' /\ orgs'[p] = orgs[p]
        BY <1>3, <2>1, <2>2
    <2> QED
        BY <2>1, <2>2, <2>3
<1> QED
    BY <1>2, <1>4, <1>5, NoDutyType, MoveStep DEF Looked

LEMMA TakingBackStep ==
    ASSUME TreeInv, NEW q \in Requests,
           DeleteOrg(q) \/ AccountFails(q) \/ (RoleFails(q) /\ duty[q].op # "import")
    PROVE  TreeInv'
<1> DEFINE i == duty[q].id
<1>1. CASE DeleteOrg(q)
    <2>1. duty[q].at = "delete" /\ Gone(i) /\ Move(q, NoDuty)
        BY <1>1 DEF DeleteOrg
    <2>2. ~duty[q].late => Children(i) = {}
        BY <2>1 DEF TreeInv, Fresh, FoundThere, Looked
    <2>3. (excused \cup Children(i)) \ {i} \subseteq excused'
        BY <1>1, <2>2 DEF DeleteOrg
    <2> QED
        BY <2>1, <2>3, GoneStep
<1>2. CASE AccountFails(q) \/ (RoleFails(q) /\ duty[q].op # "import")
    BY <1>2, GoneStep DEF AccountFails, RoleFails
<1> QED
    BY <1>1, <1>2

\* The new type suits the parent and every child, or they are excused.
LEMMA SaveTypeStep ==
    ASSUME TreeInv, NEW q \in Requests, SaveType(q), orgs[duty[q].id].exists
    PROVE  TreeInv'
<1> DEFINE i == duty[q].id
           type == duty[q].type
<1>1. /\ duty[q].at = "save" /\ orgs' = [orgs EXCEPT ![i].type = type] /\ Move(q, NoDuty)
      /\ excused' = IF duty[q].late THEN excused \cup {i} \cup Children(i) ELSE excused
    BY DEF SaveType
<1>2. duty[q] \in Duty /\ orgs \in Seq(Org) /\ type \in OrgType
    BY <1>1, Kept DEF TreeInv, TreeTypes, Fresh
<1> DEFINE org == [orgs[i] EXCEPT !.type = type]
<1>3. i \in DOMAIN orgs =>
         /\ org \in Org /\ org.type = type /\ org.exists
         /\ org.parent = orgs[i].parent /\ org.path = orgs[i].path
    BY <1>2, Kept DEF Org, AnyType
<1>9. orgs' = [orgs EXCEPT ![i] = org]
    BY <1>1
<1> HIDE DEF org
<1>4. /\ orgs' \in Seq(Org) /\ DOMAIN orgs' = DOMAIN orgs
      /\ \A j \in DOMAIN orgs : j # i => orgs'[j] = orgs[j]
      /\ i \in DOMAIN orgs => orgs'[i] = org
    <2> HIDE DEF i
    <2>1. CASE i \in DOMAIN orgs
        BY <1>2, <1>3, <1>9, <2>1, Kept, ExceptSeq
    <2>2. CASE i \notin DOMAIN orgs
        <3>1. orgs' = orgs
            BY <1>2, <1>9, <2>2, Kept
        <3> QED
            BY <1>2, <2>2, <3>1
    <2> QED
        BY <2>1, <2>2
<1>5. Existing' = Existing
    BY <1>3, <1>4 DEF Existing
<1>6. \A j \in Existing' : orgs'[j].type \in OrgType
    <2>1. ASSUME NEW j \in Existing PROVE orgs'[j].type \in OrgType
        BY <1>2, <1>3, <1>4 DEF Existing, TreeInv, TreeTypes
    <2> QED
        BY <1>5, <2>1
<1>7. TreeAgrees'
    <2> SUFFICES ASSUME NEW j \in Existing \ excused', orgs'[j].parent # 0
                 PROVE  LET p == orgs'[j].parent IN
                        /\ p \in Existing
                        /\ orgs'[j].path = Append(orgs'[p].path, p)
                        /\ orgs'[j].type = ORG_CHILD_TYPE[orgs'[p].type]
        BY <1>5 DEF TreeAgrees
    <2> DEFINE p == orgs[j].parent
    <2>1. j \in Existing \ excused /\ j \in DOMAIN orgs
        BY <1>1 DEF Existing
    <2>2. /\ orgs'[j].parent = p /\ orgs'[j].path = orgs[j].path /\ p # 0
          /\ j # i => orgs'[j].type = orgs[j].type
        BY <1>3, <1>4, <2>1
    <2>3. /\ p \in Existing /\ p \in DOMAIN orgs /\ orgs[j].path = Append(orgs[p].path, p)
          /\ orgs[j].type = ORG_CHILD_TYPE[orgs[p].type]
        BY <2>1, <2>2 DEF TreeInv, TreeAgrees, Existing
    <2>4. /\ orgs'[p].path = orgs[p].path
          /\ p # i => orgs'[p].type = orgs[p].type
          /\ p = i => orgs'[p].type = type
        BY <1>3, <1>4, <2>3
    <2>5. j # p
        BY <2>1, <2>3 DEF TreeInv, TreeTypes, OrgType, ORG_CHILD_TYPE
    <2>6. orgs'[j].type = ORG_CHILD_TYPE[orgs'[p].type]
        <3>1. CASE j = i
            <4>1. ~duty[q].late
                BY <1>1, <3>1
            <4>2. type = ORG_CHILD_TYPE[orgs[p].type]
                BY <1>1, <2>2, <3>1, <4>1 DEF TreeInv, Fresh, FoundThere, Looked
            <4> QED
                BY <1>3, <1>4, <2>1, <2>4, <2>5, <3>1, <4>2
        <3>2. CASE p = i
            <4>1. j \in Children(i)
                BY <2>1, <3>2 DEF Children
            <4>2. ~duty[q].late
                BY <1>1, <4>1
            <4>3. orgs[j].type = ORG_CHILD_TYPE[type]
                BY <1>1, <4>1, <4>2 DEF TreeInv, Fresh, FoundThere, Looked
            <4> QED
                BY <2>2, <2>4, <2>5, <3>2, <4>3
        <3>3. CASE j # i /\ p # i
            BY <2>2, <2>3, <2>4, <3>3
        <3> QED
            BY <3>1, <3>2, <3>3
    <2> QED
        BY <2>2, <2>3, <2>4, <2>6
<1> QED
    BY <1>1, <1>4, <1>6, <1>7, NoDutyType, MoveStep DEF Looked

\* organizationController 12-30, 204: every organisation below another finds its parent there
\* and has the path and the type its place asks for, unless a request that placed, retyped or
\* removed one had been overtaken since it looked.
THEOREM TreeStays == TreeSpec => []TreeAgrees
<1>1. TreeInit => TreeInv
    <2> SUFFICES ASSUME TreeInit PROVE TreeInv
        OBVIOUS
    <2>1. orgs = <<>> /\ orgs \in Seq(Org) /\ Existing = {}
        BY EmptySeq DEF TreeInit, Existing
    <2> QED
        BY <2>1, NoDutyType DEF TreeInit, TreeInv, TreeTypes, Fresh, TreeAgrees, Looked
<1>2. TreeInv /\ [TreeNext]_tree => TreeInv'
    <2> SUFFICES ASSUME TreeInv, [TreeNext]_tree PROVE TreeInv'
        OBVIOUS
    <2>1. ASSUME NEW q \in Requests, CreateChecks(q) PROVE TreeInv'
        BY <2>1, CreateChecksStep
    <2>2. ASSUME NEW q \in Requests,
                 RootChecks(q) \/ StoreRole(q) \/ StoreAccount(q) \/ OrgRequestFails(q) PROVE TreeInv'
        BY <2>2, PlainStep
    <2>3. ASSUME NEW q \in Requests, StoreOrg(q) PROVE TreeInv'
        BY <2>3, StoreOrgStep
    <2>4. ASSUME NEW q \in Requests, RoleFails(q) PROVE TreeInv'
        BY <2>4, PlainStep, TakingBackStep
    <2>5. ASSUME NEW q \in Requests, DeleteOrg(q) \/ AccountFails(q) PROVE TreeInv'
        BY <2>5, TakingBackStep
    <2>6. ASSUME NEW q \in Requests, SaveType(q) PROVE TreeInv'
        BY <2>6, PlainStep, SaveTypeStep
    <2>7. ASSUME NEW q \in Requests, UpdateChecks(q) PROVE TreeInv'
        BY <2>7, UpdateChecksStep
    <2>8. ASSUME NEW q \in Requests, DeleteChecks(q) \/ DeleteRoles(q) PROVE TreeInv'
        BY <2>8, DeletingStep
    <2>9. CASE UNCHANGED tree
        <3>1. orgs' = orgs /\ duty' = duty /\ excused' = excused
            BY <2>9 DEF tree
        <3>2. TreeTypes'
            BY <3>1 DEF TreeInv, TreeTypes, Existing
        <3>3. Fresh'
            BY <3>1 DEF TreeInv, Fresh, FoundThere, Placed, Existing, Children
        <3>4. TreeAgrees'
            BY <3>1 DEF TreeInv, TreeAgrees, Existing
        <3> QED
            BY <3>2, <3>3, <3>4 DEF TreeInv
    <2> QED
        BY <2>1, <2>2, <2>3, <2>4, <2>5, <2>6, <2>7, <2>8, <2>9 DEF TreeNext
<1>3. TreeInv => TreeAgrees
    BY DEF TreeInv
<1> QED
    BY <1>1, <1>2, <1>3, PTL DEF TreeSpec

-----------------------------------------------------------------------------
(* Accounts: the mailed links.                                             *)

Kinds == {"verify", "reset", "invite"}
AccountFields == {"id", "status"} \cup Kinds
Known == 0 .. links
IsAct(a) == a = [busy |-> a.busy, id |-> a.id, link |-> a.link, late |-> a.late, changes |-> a.changes]
Spending == [link : Nat, late : BOOLEAN]

\* The request has made this link and not yet stored it.
Pending(q, f, l) == f \in DOMAIN acting[q].changes /\ acting[q].changes[f] = l
IsSpent(l) == \E i \in DOMAIN spent : spent[i].link = l

AccountsTypes ==
    /\ links \in Nat /\ spent \in Seq(Spending)
    /\ \A i \in DOMAIN spent : spent[i].link \in Known \ {NoLink}
    /\ DOMAIN account = AccountFields /\ \A f \in Kinds : account[f] \in Known
    /\ acting = [q \in Requests |-> acting[q]]
    /\ \A q \in Requests :
          /\ IsAct(acting[q]) /\ acting[q].link \in Known /\ acting[q].late \in BOOLEAN
          /\ \A f \in Kinds : f \in DOMAIN acting[q].changes => acting[q].changes[f] \in Known

\* Every link has one kind, and what the account stores has not been spent.
StoredLinks ==
    \A f \in Kinds : account[f] # NoLink =>
        /\ ~IsSpent(account[f])
        /\ \A g \in Kinds \ {f} : account[g] # account[f]

\* A link not stored yet is known to the request that made it only.
PendingLinks ==
    \A q \in Requests, f \in Kinds, l \in Known \ {NoLink} : Pending(q, f, l) =>
        /\ ~IsSpent(l)
        /\ \A g \in Kinds : account[g] # l
        /\ \A p \in Requests : acting[p].link # l
        /\ \A p \in Requests, g \in Kinds : Pending(p, g, l) => p = q /\ g = f

\* A request that spends a link empties its field, and the link is in no other;
\* unless another one spent it in the meantime it has not been spent.
CarriedLinks ==
    \A q \in Requests : acting[q].link # NoLink =>
        /\ \E f \in Kinds : /\ Pending(q, f, NoLink)
                            /\ \A g \in Kinds \ {f} : account[g] # acting[q].link
        /\ ~acting[q].late => ~IsSpent(acting[q].link)

LinksInv == AccountsTypes /\ StoredLinks /\ PendingLinks /\ CarriedLinks /\ LinksAreSpentOnce

LEMMA IdleAct == IsAct(NoAct) /\ NoAct.link = NoLink /\ NoAct.late = FALSE /\ DOMAIN NoAct.changes = {}
<1>1. DOMAIN Changes(NoAccount, NoAccount) = {}
    BY DEF Changes
<1> QED
    BY <1>1 DEF NoAct, IsAct

\* A request reads the account, or gives up: what it carries is stored, and what it made is new.
LEMMA ActStep ==
    ASSUME LinksInv, UNCHANGED <<account, spent>>, links' \in {links, links + 1},
           NEW q \in Requests, NEW a, acting' = [acting EXCEPT ![q] = a],
           IsAct(a), a.link \in Known, a.late = FALSE,
           a.link # NoLink => \E f \in Kinds : /\ f \in DOMAIN a.changes /\ a.changes[f] = NoLink
                                               /\ account[f] = a.link,
           \A f \in Kinds : f \in DOMAIN a.changes =>
              a.changes[f] = NoLink \/ (a.changes[f] = links + 1 /\ links' = links + 1),
           \A f, g \in Kinds :
              f \in DOMAIN a.changes /\ a.changes[f] = links + 1
                 /\ g \in DOMAIN a.changes /\ a.changes[g] = links + 1 => f = g
    PROVE  LinksInv'
<1>1. acting'[q] = a /\ \A p \in Requests \ {q} : acting'[p] = acting[p]
    BY DEF LinksInv, AccountsTypes
<1>2. links \in Nat /\ links' \in Nat /\ Known \subseteq Known' /\ (links' # links => links' \notin Known)
    BY DEF LinksInv, AccountsTypes, Known
<1>3. AccountsTypes'
    <2>1. acting' = [p \in Requests |-> acting'[p]]
        BY DEF LinksInv, AccountsTypes
    <2>2. \A p \in Requests :
          /\ IsAct(acting'[p]) /\ acting'[p].link \in Known' /\ acting'[p].late \in BOOLEAN
          /\ \A f \in Kinds : f \in DOMAIN acting'[p].changes => acting'[p].changes[f] \in Known'
        <3> SUFFICES ASSUME NEW p \in Requests
                     PROVE  /\ IsAct(acting'[p]) /\ acting'[p].link \in Known' /\ acting'[p].late \in BOOLEAN
                            /\ \A f \in Kinds : f \in DOMAIN acting'[p].changes => acting'[p].changes[f] \in Known'
            OBVIOUS
        <3>1. CASE p = q
            <4>1. NoLink \in Known' /\ links' \in Known'
                BY <1>2 DEF Known, NoLink
            <4> QED
                BY <1>1, <1>2, <3>1, <4>1
        <3>2. CASE p # q
            BY <1>1, <1>2, <3>2 DEF LinksInv, AccountsTypes
        <3> QED
            BY <3>1, <3>2
    <2> QED
        BY <1>2, <2>1, <2>2 DEF LinksInv, AccountsTypes, IsAct
<1>4. \A l : IsSpent(l)' <=> IsSpent(l)
    BY DEF IsSpent
<1>5. StoredLinks'
    BY <1>4 DEF LinksInv, StoredLinks
<1>6. ASSUME links' # links
      PROVE  /\ ~IsSpent(links') /\ \A g \in Kinds : account[g] # links'
             /\ \A p \in Requests : acting[p].link # links' /\ \A g \in Kinds : ~Pending(p, g, links')
    BY <1>2, <1>6 DEF LinksInv, AccountsTypes, IsSpent, Pending
<1>7. PendingLinks'
    <2> SUFFICES ASSUME NEW p \in Requests, NEW f \in Kinds, NEW l \in Known' \ {NoLink}, Pending(p, f, l)'
                 PROVE  /\ ~IsSpent(l)
                        /\ \A g \in Kinds : account[g] # l
                        /\ \A r \in Requests : acting'[r].link # l
                        /\ \A r \in Requests, g \in Kinds : Pending(r, g, l)' => r = p /\ g = f
        BY <1>4 DEF PendingLinks
    <2>1. CASE p = q
        <3>1. l = links' /\ links' = links + 1 /\ links' # links
            BY <1>1, <1>2, <2>1 DEF Pending
        <3>2. a.link # l
            BY <1>2, <3>1
        <3> QED
            BY <1>1, <1>6, <2>1, <3>1, <3>2 DEF Pending
    <2>2. CASE p # q
        <3>1. Pending(p, f, l) /\ l \in Known
            BY <1>1, <2>2 DEF Pending, LinksInv, AccountsTypes
        <3>2. /\ ~IsSpent(l) /\ \A g \in Kinds : account[g] # l
              /\ \A r \in Requests : acting[r].link # l
              /\ \A r \in Requests, g \in Kinds : Pending(r, g, l) => r = p /\ g = f
            BY <3>1 DEF LinksInv, PendingLinks
        <3>3. a.link # l
            BY <3>2
        <3>4. \A g \in Kinds : ~Pending(q, g, l)'
            BY <1>1, <1>2, <3>1 DEF Pending, Known
        <3>5. \A r \in Requests \ {q}, g \in Kinds : Pending(r, g, l)' <=> Pending(r, g, l)
            BY <1>1 DEF Pending
        <3> QED
            BY <1>1, <3>2, <3>3, <3>4, <3>5
    <2> QED
        BY <2>1, <2>2
<1>8. CarriedLinks'
    <2> SUFFICES ASSUME NEW p \in Requests, acting'[p].link # NoLink
                 PROVE  /\ \E f \in Kinds : /\ Pending(p, f, NoLink)'
                                            /\ \A g \in Kinds \ {f} : account[g] # acting'[p].link
                        /\ ~acting'[p].late => ~IsSpent(acting'[p].link)
        BY <1>4 DEF CarriedLinks
    <2>1. CASE p = q
        <3>1. PICK f \in Kinds : /\ f \in DOMAIN a.changes /\ a.changes[f] = NoLink
                                 /\ account[f] = a.link
            BY <1>1, <2>1
        <3>2. ~IsSpent(a.link) /\ \A g \in Kinds \ {f} : account[g] # a.link
            BY <1>1, <2>1, <3>1 DEF LinksInv, StoredLinks
        <3> QED
            BY <1>1, <2>1, <3>1, <3>2 DEF Pending
    <2>2. CASE p # q
        BY <1>1, <2>2 DEF LinksInv, CarriedLinks, Pending
    <2> QED
        BY <2>1, <2>2
<1> QED
    BY <1>3, <1>5, <1>7, <1>8 DEF LinksInv, LinksAreSpentOnce

\* A step of the account alone: a link it stores is stored already, or new.
LEMMA AccountStep ==
    ASSUME LinksInv, UNCHANGED <<acting, spent>>, links' \in {links, links + 1},
           DOMAIN account' = AccountFields,
           \A f \in Kinds : \/ account'[f] \in {account[f], NoLink}
                            \/ account'[f] = links + 1 /\ links' = links + 1,
           \A f, g \in Kinds : account'[f] = links + 1 /\ account'[g] = links + 1 => f = g
    PROVE  LinksInv'
<1>1. links \in Nat /\ links' \in Nat /\ Known \subseteq Known' /\ (links' # links => links' \notin Known)
    BY DEF LinksInv, AccountsTypes, Known
<1>2. \A l : IsSpent(l)' <=> IsSpent(l)
    BY DEF IsSpent
<1>3. \A q \in Requests, f \in Kinds : \A l : Pending(q, f, l)' <=> Pending(q, f, l)
    BY DEF Pending
<1>4. \A f \in Kinds : account[f] \in Known
    BY DEF LinksInv, AccountsTypes
<1>5. ~IsSpent(links + 1) /\ \A q \in Requests : acting[q].link # links + 1
      /\ \A f \in Kinds : ~Pending(q, f, links + 1)
    <2>1. links + 1 \notin Known
        BY <1>1 DEF Known
    <2> QED
        BY <2>1 DEF LinksInv, AccountsTypes, IsSpent, Pending
<1>6. AccountsTypes'
    <2>1. \A f \in Kinds : account'[f] \in Known'
        BY <1>1, <1>4 DEF Known, NoLink
    <2> QED
        BY <1>1, <2>1 DEF LinksInv, AccountsTypes
<1>7. StoredLinks'
    <2> SUFFICES ASSUME NEW f \in Kinds, account'[f] # NoLink
                 PROVE  ~IsSpent(account'[f]) /\ \A g \in Kinds \ {f} : account'[g] # account'[f]
        BY <1>2 DEF StoredLinks
    <2>1. CASE account'[f] = account[f] /\ account[f] # links + 1
        <3>1. ~IsSpent(account'[f]) /\ \A g \in Kinds \ {f} : account[g] # account'[f]
            BY <2>1 DEF LinksInv, StoredLinks
        <3> QED
            BY <2>1, <3>1
    <2>2. CASE account'[f] = links + 1
        <3>1. links + 1 \notin Known
            BY <1>1 DEF Known
        <3> QED
            BY <1>4, <1>5, <2>2, <3>1
    <2> QED
        BY <2>1, <2>2
<1>8. PendingLinks'
    <2> SUFFICES ASSUME NEW q \in Requests, NEW f \in Kinds, NEW l \in Known' \ {NoLink}, Pending(q, f, l)
                 PROVE  /\ ~IsSpent(l)
                        /\ \A g \in Kinds : account'[g] # l
                        /\ \A p \in Requests : acting[p].link # l
                        /\ \A p \in Requests, g \in Kinds : Pending(p, g, l) => p = q /\ g = f
        BY <1>2, <1>3 DEF PendingLinks
    <2>1. l \in Known /\ l # links + 1
        BY <1>5 DEF Pending, LinksInv, AccountsTypes
    <2> QED
        BY <2>1 DEF LinksInv, PendingLinks
<1>9. CarriedLinks'
    <2> SUFFICES ASSUME NEW q \in Requests, acting[q].link # NoLink
                 PROVE  /\ \E f \in Kinds : /\ Pending(q, f, NoLink)
                                            /\ \A g \in Kinds \ {f} : account'[g] # acting[q].link
                        /\ ~acting[q].late => ~IsSpent(acting[q].link)
        BY <1>2, <1>3 DEF CarriedLinks
    <2>1. PICK f \in Kinds : Pending(q, f, NoLink) /\ \A g \in Kinds \ {f} : account[g] # acting[q].link
        BY DEF LinksInv, CarriedLinks
    <2>2. \A g \in Kinds \ {f} : account'[g] # acting[q].link
        BY <1>5, <2>1
    <2> QED
        BY <2>1, <2>2 DEF LinksInv, CarriedLinks
<1> QED
    BY <1>6, <1>7, <1>8, <1>9 DEF LinksInv, LinksAreSpentOnce

\* A save writes the links the request changed; a spent link goes, and its bearers are late.
LEMMA SaveStep ==
    ASSUME LinksInv, NEW q \in Requests, SaveAccount(q)
    PROVE  LinksInv'
<1> DEFINE l == acting[q].link
<1>1. /\ account' = Merged(account, acting[q].changes)
      /\ spent' = IF l = NoLink THEN spent ELSE Append(spent, [link |-> l, late |-> acting[q].late])
      /\ UNCHANGED links
    BY DEF SaveAccount
<1>2. /\ links \in Nat /\ spent \in Seq(Spending) /\ l \in Known /\ acting[q].late \in BOOLEAN
      /\ \A i \in DOMAIN spent : spent[i].link \in Known \ {NoLink}
      /\ \A f \in Kinds : account[f] \in Known
      /\ \A f \in Kinds : f \in DOMAIN acting[q].changes => acting[q].changes[f] \in Known
    BY DEF LinksInv, AccountsTypes
\* The requests after the save.
<1>3. ASSUME NEW p \in Requests
      PROVE  /\ IsAct(acting'[p]) /\ acting'[p].link \in Known /\ acting'[p].late \in BOOLEAN
             /\ p = q => acting'[p].link = NoLink /\ DOMAIN acting'[p].changes = {}
             /\ p # q => /\ acting'[p].link = acting[p].link /\ acting'[p].changes = acting[p].changes
                         /\ acting[p].late => acting'[p].late
                         /\ l # NoLink /\ acting[p].link = l => acting'[p].late
    <2>1. CASE p = q
        <3>1. acting'[p] = NoAct
            BY <2>1 DEF SaveAccount
        <3>2. NoLink \in Known
            BY <1>2 DEF Known, NoLink
        <3> QED
            BY <2>1, <3>1, <3>2, IdleAct
    <2>2. CASE p # q
        <3> DEFINE isLate == acting[p].late \/ (l # NoLink /\ acting[p].link = l)
        <3>1. PICK tardy \in BOOLEAN : tardy = isLate
            <4>1. CASE isLate
                <5>1. TRUE = isLate
                    BY <4>1
                <5> QED
                    BY <5>1
            <4>2. CASE ~isLate
                <5>1. FALSE = isLate
                    BY <4>2
                <5> QED
                    BY <5>1
            <4> QED
                BY <4>1, <4>2
        <3>2. acting'[p] = [acting[p] EXCEPT !.late = tardy]
            BY <2>2, <3>1 DEF SaveAccount
        <3>3. IsAct(acting[p]) /\ acting[p].link \in Known
            BY DEF LinksInv, AccountsTypes
        <3>4. /\ acting'[p].link = acting[p].link /\ acting'[p].changes = acting[p].changes
              /\ acting'[p].late = tardy /\ IsAct(acting'[p])
            BY <3>2, <3>3 DEF IsAct
        <3>5. isLate => tardy
            BY <3>1
        <3> QED
            BY <2>2, <3>3, <3>4, <3>5
    <2> QED
        BY <2>1, <2>2
<1>4. acting' = [p \in Requests |-> acting'[p]]
    BY DEF SaveAccount
\* The account after the save.
<1>5. /\ DOMAIN account' = AccountFields
      /\ \A f \in Kinds : /\ f \in DOMAIN acting[q].changes => account'[f] = acting[q].changes[f]
                          /\ f \notin DOMAIN acting[q].changes => account'[f] = account[f]
    BY <1>1 DEF Merged, LinksInv, AccountsTypes, AccountFields
\* What has been spent after the save.
<1>6. /\ spent' \in Seq(Spending)
      /\ \A i \in DOMAIN spent' : spent'[i].link \in Known \ {NoLink}
      /\ \A k : IsSpent(k)' <=> IsSpent(k) \/ (l # NoLink /\ k = l)
      /\ LinksAreSpentOnce'
    <2>1. CASE l = NoLink
        BY <1>1, <1>2, <2>1 DEF IsSpent, LinksInv, LinksAreSpentOnce
    <2>2. CASE l # NoLink
        <3> DEFINE last == [link |-> l, late |-> acting[q].late]
        <3>1. last \in Spending /\ last.link = l /\ last.late = acting[q].late
            BY <1>2 DEF Spending, Known
        <3>2. spent' = Append(spent, last)
            BY <1>1, <2>2
        <3> HIDE DEF last
        <3>3. /\ spent' \in Seq(Spending) /\ Len(spent) \in Nat
              /\ DOMAIN spent = 1 .. Len(spent) /\ DOMAIN spent' = 1 .. Len(spent) + 1
              /\ \A i \in DOMAIN spent : spent'[i] = spent[i]
              /\ spent'[Len(spent) + 1] = last
            BY <1>2, <3>1, <3>2, AppendProperties
        <3>4. \A k : IsSpent(k)' <=> IsSpent(k) \/ k = l
            BY <3>1, <3>3 DEF IsSpent
        <3>5. \A i \in DOMAIN spent' : spent'[i].link \in Known \ {NoLink}
            BY <1>2, <2>2, <3>1, <3>3
        <3>6. LinksAreSpentOnce'
            <4> SUFFICES ASSUME NEW i \in DOMAIN spent', NEW j \in DOMAIN spent',
                                i < j, spent'[i].link = spent'[j].link
                         PROVE  spent'[j].late
                BY DEF LinksAreSpentOnce
            <4>1. CASE j = Len(spent) + 1
                <5>1. i \in DOMAIN spent /\ spent[i].link = l
                    BY <3>1, <3>3, <4>1
                <5>2. IsSpent(l)
                    BY <5>1 DEF IsSpent
                <5> QED
                    BY <2>2, <3>1, <3>3, <4>1, <5>2 DEF LinksInv, CarriedLinks
            <4>2. CASE j # Len(spent) + 1
                <5>1. i \in DOMAIN spent /\ j \in DOMAIN spent
                    BY <3>3, <4>2
                <5> QED
                    BY <3>3, <5>1 DEF LinksInv, LinksAreSpentOnce
            <4> QED
                BY <4>1, <4>2
        <3> QED
            BY <2>2, <3>3, <3>4, <3>5, <3>6
    <2> QED
        BY <2>1, <2>2
<1>7. Known' = Known
    BY <1>1 DEF Known
<1>8. AccountsTypes'
    <2>1. \A f \in Kinds : account'[f] \in Known
        BY <1>2, <1>5
    <2>2. \A p \in Requests, f \in Kinds : f \in DOMAIN acting'[p].changes => acting'[p].changes[f] \in Known
        BY <1>3 DEF LinksInv, AccountsTypes
    <2> QED
        BY <1>1, <1>2, <1>3, <1>4, <1>5, <1>6, <1>7, <2>1, <2>2 DEF AccountsTypes, IsAct
\* The field of a spent link is empty, and no other holds it.
<1>9. l # NoLink => \A f \in Kinds : account'[f] # l
    <2> SUFFICES ASSUME l # NoLink, NEW f \in Kinds PROVE account'[f] # l
        OBVIOUS
    <2>1. PICK g \in Kinds : Pending(q, g, NoLink) /\ \A h \in Kinds \ {g} : account[h] # l
        BY DEF LinksInv, CarriedLinks
    <2>2. ~Pending(q, f, l)
        BY <1>2 DEF LinksInv, PendingLinks
    <2> QED
        BY <1>5, <2>1, <2>2 DEF Pending
<1>10. ASSUME NEW f \in Kinds, account'[f] # NoLink
       PROVE  Pending(q, f, account'[f]) \/ account'[f] = account[f]
    BY <1>5 DEF Pending
<1>11. StoredLinks'
    <2> SUFFICES ASSUME NEW f \in Kinds, NEW k \in Known \ {NoLink}, account'[f] = k
                 PROVE  ~IsSpent(k)' /\ \A g \in Kinds \ {f} : account'[g] # k
        <3>1. \A f \in Kinds : account'[f] \in Known
            BY <1>2, <1>5
        <3> QED
            BY <3>1 DEF StoredLinks, IsSpent
    <2>1. CASE Pending(q, f, k)
        <3>1. /\ ~IsSpent(k) /\ \A g \in Kinds : account[g] # k
              /\ l # k /\ \A g \in Kinds : Pending(q, g, k) => g = f
            BY <2>1 DEF LinksInv, PendingLinks
        <3> QED
            BY <1>5, <1>6, <3>1 DEF Pending
    <2>2. CASE account[f] = k
        <3>1. ~IsSpent(k) /\ \A g \in Kinds \ {f} : account[g] # k
            BY <2>2 DEF LinksInv, StoredLinks
        <3>2. \A g \in Kinds : ~Pending(q, g, k)
            BY <2>2 DEF LinksInv, PendingLinks
        <3> QED
            BY <1>5, <1>6, <1>9, <3>1, <3>2 DEF Pending
    <2> QED
        BY <1>10, <2>1, <2>2
<1>12. PendingLinks'
    <2> SUFFICES ASSUME NEW p \in Requests, NEW f \in Kinds, NEW k \in Known \ {NoLink}, Pending(p, f, k)'
                 PROVE  /\ ~IsSpent(k)'
                        /\ \A g \in Kinds : account'[g] # k
                        /\ \A r \in Requests : acting'[r].link # k
                        /\ \A r \in Requests, g \in Kinds : Pending(r, g, k)' => r = p /\ g = f
        BY <1>7 DEF PendingLinks
    <2>1. p # q /\ Pending(p, f, k)
        BY <1>3 DEF Pending
    <2>2. /\ ~IsSpent(k) /\ \A g \in Kinds : account[g] # k
          /\ \A r \in Requests : acting[r].link # k
          /\ \A r \in Requests, g \in Kinds : Pending(r, g, k) => r = p /\ g = f
        BY <2>1 DEF LinksInv, PendingLinks
    <2>3. ~IsSpent(k)'
        BY <1>6, <2>2
    <2>4. \A g \in Kinds : account'[g] # k
        BY <1>5, <2>1, <2>2 DEF Pending
    <2>5. \A r \in Requests : acting'[r].link # k
        BY <1>3, <2>2
    <2>6. \A r \in Requests, g \in Kinds : Pending(r, g, k)' => Pending(r, g, k)
        BY <1>3 DEF Pending
    <2> QED
        BY <2>2, <2>3, <2>4, <2>5, <2>6
<1>13. CarriedLinks'
    <2> SUFFICES ASSUME NEW p \in Requests, NEW k, acting'[p].link = k, k # NoLink
                 PROVE  /\ \E f \in Kinds : /\ Pending(p, f, NoLink)'
                                            /\ \A g \in Kinds \ {f} : account'[g] # k
                        /\ ~acting'[p].late => ~IsSpent(k)'
        BY DEF CarriedLinks, IsSpent
    <2>1. p # q /\ acting[p].link = k /\ k \in Known
        BY <1>3
    <2>2. PICK f \in Kinds : Pending(p, f, NoLink) /\ \A g \in Kinds \ {f} : account[g] # k
        BY <2>1 DEF LinksInv, CarriedLinks
    <2>3. \A g \in Kinds : ~Pending(q, g, k)
        BY <2>1 DEF LinksInv, PendingLinks
    <2>4. Pending(p, f, NoLink)'
        BY <1>3, <2>1, <2>2 DEF Pending
    <2>5. \A g \in Kinds \ {f} : account'[g] # k
        BY <1>5, <2>2, <2>3 DEF Pending
    <2>6. ASSUME ~acting'[p].late PROVE ~IsSpent(k)'
        <3>1. ~acting[p].late /\ ~(l # NoLink /\ k = l)
            BY <1>3, <2>1, <2>6
        <3>2. ~IsSpent(k)
            BY <2>1, <3>1 DEF LinksInv, CarriedLinks
        <3> QED
            BY <1>6, <3>1, <3>2
    <2> QED
        BY <2>4, <2>5, <2>6
<1> QED
    BY <1>6, <1>8, <1>11, <1>12, <1>13 DEF LinksInv

\* A request reads the account and works on a copy, of which it will send what it changed.
LEMMA ReadsStep ==
    ASSUME LinksInv, NEW q \in Requests, NEW link \in Known, NEW copy, Reads(q, link, copy),
           links' \in {links, links + 1},
           link # NoLink => \E f \in Kinds : copy[f] = NoLink /\ account[f] = link,
           \A f \in Kinds : \/ copy[f] \in {account[f], NoLink}
                            \/ copy[f] = links + 1 /\ links' = links + 1,
           \A f, g \in Kinds : copy[f] = links + 1 /\ copy[g] = links + 1 => f = g
    PROVE  LinksInv'
<1> DEFINE c == Changes(account, copy)
           a == [busy |-> TRUE, id |-> account.id, link |-> link, late |-> FALSE, changes |-> c]
<1>1. UNCHANGED <<account, spent>> /\ acting' = [acting EXCEPT ![q] = a]
    BY DEF Reads
<1>2. \A f \in Kinds : /\ f \in DOMAIN c <=> copy[f] # account[f]
                       /\ f \in DOMAIN c => c[f] = copy[f]
    BY DEF Changes, LinksInv, AccountsTypes, AccountFields
<1> HIDE DEF c
<1>3. IsAct(a) /\ a.link = link /\ a.late = FALSE /\ a.changes = c
    BY DEF IsAct
<1> HIDE DEF a
<1>4. a.link # NoLink => \E f \in Kinds : /\ f \in DOMAIN a.changes /\ a.changes[f] = NoLink
                                          /\ account[f] = a.link
    BY <1>2, <1>3
<1>5. \A f \in Kinds : f \in DOMAIN a.changes =>
         a.changes[f] = NoLink \/ (a.changes[f] = links + 1 /\ links' = links + 1)
    BY <1>2, <1>3
<1>6. \A f, g \in Kinds :
         f \in DOMAIN a.changes /\ a.changes[f] = links + 1
            /\ g \in DOMAIN a.changes /\ a.changes[g] = links + 1 => f = g
    BY <1>2, <1>3
<1>7. a.link \in Known
    BY <1>3
<1> QED
    BY <1>1, <1>3, <1>4, <1>5, <1>6, <1>7, ActStep

LEMMA AccountKept ==
    ASSUME LinksInv
    PROVE  /\ links \in Nat /\ NoLink \in Known /\ links + 1 \notin Known
           /\ DOMAIN account = AccountFields /\ \A f \in Kinds : account[f] \in Known
           /\ account.verify \in Known /\ account.reset \in Known /\ account.invite \in Known
    BY DEF LinksInv, AccountsTypes, Known, NoLink, Kinds

LEMMA LinksInduction ==
    ASSUME LinksInv, [AccountsNext]_accounts
    PROVE  LinksInv'
<1>1. ASSUME NEW q \in Requests, CreateAccount(q)
      PROVE  LinksInv'
    <2>1. /\ DOMAIN account' = AccountFields /\ links' \in {links, links + 1}
          /\ \E f \in Kinds : /\ account'[f] = account[f] \/ (account'[f] = links + 1 /\ links' = links + 1)
                              /\ \A g \in Kinds \ {f} : account'[g] = account[g]
        <3>1. CASE Makes /\ account' = [account EXCEPT !.status = "PENDING_VERIFY", !.verify = Made]
            BY <3>1, AccountKept DEF Makes, Made, Kinds, AccountFields
        <3>2. CASE Keeps /\ account' = [account EXCEPT !.status = "ACTIVE"]
            BY <3>2, AccountKept DEF Keeps, Kinds, AccountFields
        <3>3. CASE Makes /\ account' = [account EXCEPT !.status = "PENDING_INVITE", !.invite = Made]
            BY <3>3, AccountKept DEF Makes, Made, Kinds, AccountFields
        <3> QED
            BY <1>1, <3>1, <3>2, <3>3 DEF CreateAccount
    <2>2. UNCHANGED <<acting, spent>>
        BY <1>1 DEF CreateAccount
    <2> QED
        BY <2>1, <2>2, AccountKept, AccountStep
<1>2. ASSUME NEW q \in Requests, VerifyEmail(q)
      PROVE  LinksInv'
    <2> DEFINE copy == [account EXCEPT !.status = "ACTIVE", !.verify = NoLink]
    <2>1. copy.verify = NoLink /\ \A f \in Kinds \ {"verify"} : copy[f] = account[f]
        BY AccountKept DEF Kinds, AccountFields
    <2>2. Reads(q, account.verify, copy) /\ links' = links
        BY <1>2 DEF VerifyEmail, Keeps
    <2> HIDE DEF copy
    <2> QED
        BY <2>1, <2>2, AccountKept, ReadsStep DEF Kinds
<1>3. ASSUME NEW q \in Requests, ResendVerification(q)
      PROVE  LinksInv'
    <2> DEFINE copy == [account EXCEPT !.verify = Made]
    <2>1. copy.verify = links + 1 /\ \A f \in Kinds \ {"verify"} : copy[f] = account[f]
        BY AccountKept DEF Kinds, AccountFields, Made
    <2>2. Reads(q, NoLink, copy) /\ links' = links + 1
        BY <1>3 DEF ResendVerification, Makes, Made
    <2> HIDE DEF copy
    <2> QED
        BY <2>1, <2>2, AccountKept, ReadsStep DEF Kinds
<1>4. ASSUME NEW q \in Requests, ForgotPassword(q)
      PROVE  LinksInv'
    <2> DEFINE copy == [account EXCEPT !.reset = Made]
    <2>1. copy.reset = links + 1 /\ \A f \in Kinds \ {"reset"} : copy[f] = account[f]
        BY AccountKept DEF Kinds, AccountFields, Made
    <2>2. Reads(q, NoLink, copy) /\ links' = links + 1
        BY <1>4 DEF ForgotPassword, Makes, Made
    <2> HIDE DEF copy
    <2> QED
        BY <2>1, <2>2, AccountKept, ReadsStep DEF Kinds
<1>5. ASSUME NEW q \in Requests, ResetPassword(q)
      PROVE  LinksInv'
    <2> DEFINE copy == [account EXCEPT !.reset = NoLink]
    <2>1. copy.reset = NoLink /\ \A f \in Kinds \ {"reset"} : copy[f] = account[f]
        BY AccountKept DEF Kinds, AccountFields
    <2>2. Reads(q, account.reset, copy) /\ links' = links
        BY <1>5 DEF ResetPassword, Keeps
    <2> HIDE DEF copy
    <2> QED
        BY <2>1, <2>2, AccountKept, ReadsStep DEF Kinds
<1>6. ASSUME NEW q \in Requests, ResendInvitation(q)
      PROVE  LinksInv'
    <2> DEFINE copy == [account EXCEPT !.invite = Made]
    <2>1. copy.invite = links + 1 /\ \A f \in Kinds \ {"invite"} : copy[f] = account[f]
        BY AccountKept DEF Kinds, AccountFields, Made
    <2>2. Reads(q, NoLink, copy) /\ links' = links + 1
        BY <1>6 DEF ResendInvitation, Makes, Made
    <2> HIDE DEF copy
    <2> QED
        BY <2>1, <2>2, AccountKept, ReadsStep DEF Kinds
<1>7. ASSUME NEW q \in Requests, AcceptInvitation(q)
      PROVE  LinksInv'
    <2> DEFINE copy == [account EXCEPT !.status = "ACTIVE", !.invite = NoLink]
    <2>1. copy.invite = NoLink /\ \A f \in Kinds \ {"invite"} : copy[f] = account[f]
        BY AccountKept DEF Kinds, AccountFields
    <2>2. Reads(q, account.invite, copy) /\ links' = links
        BY <1>7 DEF AcceptInvitation, Keeps
    <2> HIDE DEF copy
    <2> QED
        BY <2>1, <2>2, AccountKept, ReadsStep DEF Kinds
<1>8. ASSUME NEW q \in Requests, UpdateUser(q)
      PROVE  LinksInv'
    <2>1. PICK status \in UserStatus \cup {account.status}, invite \in {account.invite, NoLink} :
             Reads(q, NoLink, [account EXCEPT !.status = status, !.invite = invite])
        BY <1>8 DEF UpdateUser, UserStatus
    <2> DEFINE copy == [account EXCEPT !.status = status, !.invite = invite]
    <2>2. \A f \in Kinds : copy[f] \in {account[f], NoLink}
        BY AccountKept DEF Kinds, AccountFields
    <2>3. Reads(q, NoLink, copy) /\ links' = links
        BY <1>8, <2>1 DEF UpdateUser, Keeps
    <2> HIDE DEF copy
    <2>4. \A f \in Kinds : copy[f] # links + 1
        BY <2>2, AccountKept
    <2> QED
        BY <2>2, <2>3, <2>4, AccountKept, ReadsStep
<1>9. ASSUME NEW q \in Requests, AccountRequestFails(q)
      PROVE  LinksInv'
    <2>1. /\ acting' = [acting EXCEPT ![q] = NoAct] /\ UNCHANGED <<account, spent>> /\ links' = links
        BY <1>9 DEF AccountRequestFails
    <2>2. PICK a : a = NoAct
        OBVIOUS
    <2>3. /\ IsAct(a) /\ a.link \in Known /\ a.late = FALSE /\ a.link = NoLink
          /\ \A f \in Kinds : f \notin DOMAIN a.changes
        BY <2>2, AccountKept, IdleAct
    <2> QED
        BY <2>1, <2>2, <2>3, ActStep
<1>10. ASSUME DeleteUser
       PROVE  LinksInv'
    <2>1. DOMAIN account' = AccountFields /\ \A f \in Kinds : account'[f] = NoLink
        BY <1>10 DEF DeleteUser, NoAccount, Kinds, AccountFields
    <2> QED
        BY <1>10, <2>1, AccountKept, AccountStep DEF DeleteUser
<1>11. ASSUME NEW l, LinkExpires(l)
       PROVE  LinksInv'
    BY <1>11, AccountKept, AccountStep DEF LinkExpires
<1>12. CASE UNCHANGED accounts
    BY <1>12, AccountKept, AccountStep DEF accounts
<1>13. ASSUME NEW q \in Requests, ImportUsers(q)
       PROVE  LinksInv'
    <2>1. /\ DOMAIN account' = AccountFields /\ \A f \in Kinds : account'[f] = account[f]
          /\ links' = links /\ UNCHANGED <<acting, spent>>
        BY <1>13, AccountKept DEF ImportUsers, Keeps, Kinds, AccountFields
    <2> QED
        BY <2>1, AccountKept, AccountStep
<1> QED
    BY <1>1, <1>2, <1>3, <1>4, <1>5, <1>6, <1>7, <1>8, <1>9, <1>10, <1>11, <1>12, <1>13, SaveStep DEF AccountsNext

\* "xài one-time" (User.js 13-14): in whatever order requests read the account and save
\* what they changed, a mailed link is spent once, but by one that carried it meanwhile.
THEOREM OneTimeLinks == AccountsSpec => []LinksAreSpentOnce
<1>1. AccountsInit => LinksInv
    <2> SUFFICES ASSUME AccountsInit PROVE LinksInv
        OBVIOUS
    <2>1. /\ DOMAIN account = AccountFields /\ \A f \in Kinds : account[f] = NoLink
          /\ links = 0 /\ Known = {NoLink} /\ spent = <<>> /\ spent \in Seq(Spending) /\ DOMAIN spent = {}
        BY EmptySeq DEF AccountsInit, NoAccount, Kinds, AccountFields, Known, NoLink
    <2>2. acting = [q \in Requests |-> acting[q]] /\ \A q \in Requests : acting[q] = NoAct
        BY DEF AccountsInit
    <2> QED
        BY <2>1, <2>2, IdleAct
           DEF LinksInv, AccountsTypes, StoredLinks, PendingLinks, CarriedLinks, LinksAreSpentOnce, Pending
<1>2. LinksInv /\ [AccountsNext]_accounts => LinksInv'
    BY LinksInduction
<1>3. LinksInv => LinksAreSpentOnce
    BY DEF LinksInv
<1> QED
    BY <1>1, <1>2, <1>3, PTL DEF AccountsSpec

-----------------------------------------------------------------------------
(* VehicleMaintenance: who may open a record again.                        *)

\* A driver's request that was not overtaken works on a record that is open still.
OpenSinceRead ==
    \A q \in Requests :
       \/ work[q] = NoWork
       \/ work[q].who = "office"
       \/ /\ work[q].who \in Drivers
          /\ q \in overtaken \/ (record.exists /\ record.status \notin Ended)

WorkInv == OpenSinceRead /\ work = [q \in Requests |-> work[q]]

LEMMA NobodyWorks == NoWork.who = "nobody"
    BY DEF NoWork

\* A request reads the record for someone.
LEMMA WorkReadStep ==
    ASSUME WorkInv, NEW q \in Requests, NEW w, work' = [work EXCEPT ![q] = w], UNCHANGED record,
           overtaken' = overtaken \ {q},
           w = NoWork \/ w.who = "office" \/ (w.who \in Drivers /\ record.exists /\ record.status \notin Ended)
    PROVE  WorkInv'
<1>1. work'[q] = w /\ \A p \in Requests \ {q} : work'[p] = work[p]
    BY DEF WorkInv
<1>2. work' = [p \in Requests |-> work'[p]]
    BY DEF WorkInv
<1>3. OpenSinceRead'
    BY <1>1 DEF WorkInv, OpenSinceRead
<1> QED
    BY <1>2, <1>3 DEF WorkInv

\* A request that changes the record overtakes the others when it closes it.
LEMMA NotedStep ==
    ASSUME WorkInv, NEW q \in Requests, record.exists, NEW after, record' = after, Noted(q, after),
           work'[q] = NoWork, \A p \in Requests \ {q} : work'[p] = work[p],
           work' = [p \in Requests |-> work'[p]]
    PROVE  WorkInv'
<1>1. ASSUME NEW p \in Requests, p # q, work[p] # NoWork, work[p].who # "office", p \notin overtaken'
      PROVE  work[p].who \in Drivers /\ record'.exists /\ record'.status \notin Ended
    <2>1. work[p].who \in Drivers /\ work[p].who # "nobody"
        BY <1>1, DriversAssumption DEF WorkInv, OpenSinceRead
    <2>2. p \notin overtaken
        BY <1>1 DEF Noted
    <2>3. record.exists /\ record.status \notin Ended
        BY <1>1, <2>2 DEF WorkInv, OpenSinceRead
    <2>4. record'.exists /\ record'.status \notin Ended
        BY <1>1, <2>1, <2>3 DEF Noted
    <2> QED
        BY <2>1, <2>4
<1>2. OpenSinceRead'
    BY <1>1 DEF WorkInv, OpenSinceRead
<1> QED
    BY <1>2 DEF WorkInv

LEMMA WorkInduction ==
    ASSUME WorkInv, [MaintenanceNext]_maintenance
    PROVE  WorkInv'
<1>1. ASSUME NEW q \in Requests, CreateMaintenance(q)
      PROVE  WorkInv'
    BY <1>1 DEF CreateMaintenance, WorkInv, OpenSinceRead
<1>2. ASSUME NEW q \in Requests, UpdateReads(q)
      PROVE  WorkInv'
    <2>1. PICK s \in MaintenanceStatus, d \in Drivers \cup {NoDriver} :
             work' = [work EXCEPT ![q] = Work("office", [record EXCEPT !.status = s, !.driver = d])]
        BY <1>2 DEF UpdateReads
    <2> DEFINE w == Work("office", [record EXCEPT !.status = s, !.driver = d])
    <2>2. w.who = "office"
        BY DEF Work
    <2> HIDE DEF w
    <2> QED
        BY <1>2, <2>1, <2>2, WorkReadStep DEF w, UpdateReads
<1>3. ASSUME NEW q \in Requests, NEW d \in Drivers, AcknowledgeReads(q, d)
      PROVE  WorkInv'
    <2> DEFINE w == Work(d, [record EXCEPT !.status = IF @ = "SCHEDULED" THEN "ACKNOWLEDGED" ELSE @])
    <2>1. work' = [work EXCEPT ![q] = w] /\ record.exists /\ record.status \notin Ended
        BY <1>3 DEF AcknowledgeReads, StillOpen
    <2>2. w.who = d
        BY DEF Work
    <2> HIDE DEF w
    <2> QED
        BY <1>3, <2>1, <2>2, WorkReadStep DEF AcknowledgeReads
<1>4. ASSUME NEW q \in Requests, NEW d \in Drivers, CompleteReads(q, d)
      PROVE  WorkInv'
    <2>1. PICK p \in Photos :
             work' = [work EXCEPT ![q] =
                Work(d, [record EXCEPT !.status = "AWAITING_REVIEW", !.photos = p,
                            !.version = IF p = record.photos THEN @ ELSE @ + 1])]
        BY <1>4 DEF CompleteReads
    <2> DEFINE w == Work(d, [record EXCEPT !.status = "AWAITING_REVIEW", !.photos = p,
                                !.version = IF p = record.photos THEN @ ELSE @ + 1])
    <2>2. work' = [work EXCEPT ![q] = w] /\ record.exists /\ record.status \notin Ended
        BY <1>4, <2>1 DEF CompleteReads, StillOpen
    <2>3. w.who = d
        BY DEF Work
    <2> HIDE DEF w
    <2> QED
        BY <1>4, <2>2, <2>3, WorkReadStep DEF CompleteReads
<1>5. ASSUME NEW q \in Requests, SaveWork(q)
      PROVE  WorkInv'
    <2> DEFINE after == Merged(record, work[q].changes)
    <2>1. /\ record.exists /\ record' = after /\ Noted(q, after)
          /\ work' = [work EXCEPT ![q] = NoWork]
        BY <1>5 DEF SaveWork
    <2>2. work'[q] = NoWork /\ \A p \in Requests \ {q} : work'[p] = work[p]
        BY <2>1 DEF WorkInv
    <2>3. work' = [p \in Requests |-> work'[p]]
        BY <2>1 DEF WorkInv
    <2> HIDE DEF after
    <2> QED
        BY <2>1, <2>2, <2>3, NotedStep
<1>6. ASSUME NEW q \in Requests, SaveFails(q)
      PROVE  WorkInv'
    BY <1>6, WorkReadStep DEF SaveFails
<1>7. ASSUME NEW q \in Requests, DeleteMaintenance(q)
      PROVE  WorkInv'
    <2>1. record.exists /\ record' = Blank /\ Noted(q, Blank) /\ work' = work /\ work[q] = NoWork
        BY <1>7 DEF DeleteMaintenance
    <2> QED
        BY <2>1, NotedStep DEF WorkInv
<1>8. CASE UNCHANGED maintenance
    BY <1>8 DEF maintenance, WorkInv, OpenSinceRead
<1> QED
    BY <1>1, <1>2, <1>3, <1>4, <1>5, <1>6, <1>7, <1>8 DEF MaintenanceNext

\* Only a save turns a closed record into an open one, and its request is no driver's
\* that read the record open and was not overtaken.
LEMMA ReopeningStep ==
    ASSUME WorkInv, MaintenanceNext,
           record.exists, record.status \in Ended, record'.exists, record'.status \notin Ended
    PROVE  \E q \in Requests : /\ work[q] # NoWork /\ work'[q] = NoWork
                               /\ work[q].who = "office" \/ q \in overtaken
<1>1. record' # record
    OBVIOUS
<1>2. \A q \in Requests : ~CreateMaintenance(q)
    BY DEF CreateMaintenance
<1>3. \A q \in Requests : ~DeleteMaintenance(q)
    <2>1. ~Blank.exists
        BY DEF Blank
    <2> QED
        BY <2>1 DEF DeleteMaintenance
<1>4. \A q \in Requests : ~UpdateReads(q) /\ ~SaveFails(q)
    BY <1>1 DEF UpdateReads, SaveFails
<1>5. \A q \in Requests, d \in Drivers : ~AcknowledgeReads(q, d) /\ ~CompleteReads(q, d)
    BY <1>1 DEF AcknowledgeReads, CompleteReads
<1>6. PICK q \in Requests : SaveWork(q)
    BY <1>2, <1>3, <1>4, <1>5 DEF MaintenanceNext
<1>7. work[q] # NoWork /\ work'[q] = NoWork
    BY <1>6 DEF SaveWork, WorkInv
<1> QED
    BY <1>7 DEF WorkInv, OpenSinceRead

\* "Lịch bảo dưỡng đã kết thúc" (driverMaintenanceController 51, 74): whatever the order
\* of reads, saves and deletions, a driver's request opens a closed record only if it had
\* read the record before it was closed.
THEOREM NoReopening == MaintenanceSpec => DriversNeverReopen
<1>1. MaintenanceInit => WorkInv
    BY DEF MaintenanceInit, WorkInv, OpenSinceRead
<1>2. WorkInv /\ [MaintenanceNext]_maintenance => WorkInv'
    BY WorkInduction
<1>3. WorkInv /\ [MaintenanceNext]_maintenance
      => [record.exists /\ record.status \in Ended /\ record'.exists /\ record'.status \notin Ended
          => \E q \in Requests : /\ work[q] # NoWork /\ work'[q] = NoWork
                                 /\ work[q].who = "office" \/ q \in overtaken]_maintenance
    BY ReopeningStep
<1> QED
    BY <1>1, <1>2, <1>3, PTL DEF MaintenanceSpec, DriversNeverReopen

-----------------------------------------------------------------------------
(* MasterData: employment and carrier.                                     *)

Doc == [employment : {"none", "gone", "IN_HOUSE", "OUTSOURCED"},
        carrier : Carriers \cup {NoCarrier}, name : Names]
SubmitStates == {"none", "create", "update", "loaded"}
Submission == [at : SubmitStates, of : Records \cup {"new"}, body : Doc, loaded : Doc]

\* Only what a tab employs can have a carrier.
Fitting(doc) == doc \in Doc /\ (dataTab \notin Employing => doc.carrier = NoCarrier)
WellEmployed(doc) == doc.carrier # NoCarrier <=> doc.employment = "OUTSOURCED"

SubmitsFit ==
    \A d \in Offices :
       /\ sent[d] \in Submission
       /\ sent[d].at # "none" => sent[d].of \in Records /\ sent[d].body \in Bodies
       /\ Fitting(sent[d].loaded)

RecordsInv ==
    /\ filed \in [Records -> Doc] /\ \A r \in Records : Fitting(filed[r])
    /\ sent \in [Offices -> Submission]
    /\ SubmitsFit /\ CarrierIffOutsourced

LEMMA BodiesFit ==
    ASSUME NEW body \in Bodies
    PROVE  /\ Fitting(body) /\ WellEmployed(body) /\ body.employment \in {"IN_HOUSE", "OUTSOURCED"}
           /\ dataTab \notin Employing => body.employment = "IN_HOUSE"
           /\ body.employment = "OUTSOURCED" => body.carrier \in Carriers
    BY RecordsAssumption DEF Bodies, Fitting, WellEmployed, Doc

LEMMA NoRecordFits == Fitting(NoRecord) /\ Fitting(Deleted) /\ ~There(NoRecord) /\ ~There(Deleted)
    BY DEF Fitting, NoRecord, Deleted, There, Doc, Names

\* A submit of one desk that leaves the records.
LEMMA SubmitStep ==
    ASSUME RecordsInv, UNCHANGED <<dataTab, filed, overlapped>>, NEW d \in Offices,
           NEW s, sent' = [sent EXCEPT ![d] = s],
           s \in Submission, s.at # "none" => s.of \in Records /\ s.body \in Bodies, Fitting(s.loaded)
    PROVE  RecordsInv'
<1>1. sent'[d] = s /\ \A e \in Offices \ {d} : sent'[e] = sent[e]
    BY DEF RecordsInv
<1>2. \A e \in Offices : sent'[e] = s \/ sent'[e] = sent[e]
    BY <1>1
<1>3. Bodies' = Bodies /\ \A doc : Fitting(doc)' <=> Fitting(doc)
    BY DEF Bodies, Fitting
<1>4. SubmitsFit'
    <2> SUFFICES ASSUME NEW e \in Offices
                 PROVE  /\ sent'[e] \in Submission
                        /\ sent'[e].at # "none" => sent'[e].of \in Records /\ sent'[e].body \in Bodies
                        /\ Fitting(sent'[e].loaded)
        BY <1>3 DEF SubmitsFit, Fitting
    <2> QED
        BY <1>2 DEF RecordsInv, SubmitsFit
<1>5. CarrierIffOutsourced' /\ \A r \in Records : Fitting(filed[r])'
    BY DEF RecordsInv, CarrierIffOutsourced, Fitting
<1> QED
    BY <1>4, <1>5 DEF RecordsInv

\* A record is written.
LEMMA KeepStep ==
    ASSUME RecordsInv, dataTab' = dataTab, NEW r \in Records, NEW new, Keep(r, new), Fitting(new),
           r \in overlapped' \/ (There(new) => WellEmployed(new)), overlapped \ {r} \subseteq overlapped'
    PROVE  /\ filed' \in [Records -> Doc] /\ \A s \in Records : Fitting(filed[s])'
           /\ CarrierIffOutsourced'
<1>1. filed'[r] = new /\ \A s \in Records \ {r} : filed'[s] = filed[s]
    BY DEF Keep, RecordsInv
<1>2. filed' \in [Records -> Doc]
    BY DEF Keep, RecordsInv, Fitting
<1>3. \A s \in Records : Fitting(filed[s])'
    BY <1>1 DEF RecordsInv, Fitting
<1>4. CarrierIffOutsourced'
    <2> SUFFICES ASSUME NEW s \in Records \ overlapped', There(filed'[s])
                 PROVE  WellEmployed(filed'[s])
        BY DEF CarrierIffOutsourced, WellEmployed, There, NoRecord, Deleted
    <2> QED
        BY <1>1 DEF RecordsInv, CarrierIffOutsourced, WellEmployed
<1> QED
    BY <1>2, <1>3, <1>4

\* A desk's submit is over; the records are as a step has left them.
LEMMA OverStep ==
    ASSUME RecordsInv, dataTab' = dataTab, NEW d \in Offices, sent' = [sent EXCEPT ![d] = NoSubmit],
           filed' \in [Records -> Doc], \A r \in Records : Fitting(filed[r])', CarrierIffOutsourced'
    PROVE  RecordsInv'
<1>1. sent'[d] = NoSubmit /\ \A e \in Offices \ {d} : sent'[e] = sent[e]
    BY DEF RecordsInv
<1>2. NoSubmit \in Submission /\ NoSubmit.at = "none" /\ NoSubmit.loaded = NoRecord
    BY NoRecordFits DEF NoSubmit, Submission, SubmitStates, Fitting
<1>3. SubmitsFit'
    <2>1. Bodies' = Bodies /\ \A doc : Fitting(doc) <=> doc \in Doc /\ (dataTab' \notin Employing => doc.carrier = NoCarrier)
        BY DEF Bodies, Fitting
    <2> SUFFICES ASSUME NEW e \in Offices
                 PROVE  /\ sent'[e] \in Submission
                        /\ sent'[e].at # "none" => sent'[e].of \in Records /\ sent'[e].body \in Bodies
                        /\ Fitting(sent'[e].loaded)
        BY <2>1 DEF SubmitsFit, Fitting
    <2>2. CASE e = d
        BY <1>1, <1>2, <2>2, NoRecordFits DEF SubmitStates
    <2>3. CASE e # d
        BY <1>1, <2>3 DEF RecordsInv, SubmitsFit
    <2> QED
        BY <2>2, <2>3
<1>4. sent' \in [Offices -> Submission]
    BY <1>2 DEF RecordsInv
<1> QED
    BY <1>3, <1>4 DEF RecordsInv

LEMMA Sending ==
    ASSUME RecordsInv, NEW d \in Offices
    PROVE  /\ sent[d] \in Submission /\ Fitting(sent[d].loaded)
           /\ sent[d].at # "none" => sent[d].of \in Records /\ sent[d].body \in Bodies
    BY DEF RecordsInv, SubmitsFit

LEMMA CreateStep ==
    ASSUME RecordsInv, NEW d \in Offices, CreateCoded(d)
    PROVE  RecordsInv'
<1> DEFINE r == sent[d].of
<1>1. r \in Records /\ sent[d].body \in Bodies
    BY Sending DEF CreateCoded
<1>2. dataTab' = dataTab /\ sent' = [sent EXCEPT ![d] = NoSubmit]
    BY DEF CreateCoded, FormDone, Refused
<1>3. CASE filed[r] = NoRecord
    <2>1. Keep(r, sent[d].body) /\ overlapped' = overlapped \ {r}
        BY <1>3 DEF CreateCoded
    <2>2. Fitting(sent[d].body) /\ WellEmployed(sent[d].body)
        BY <1>1, BodiesFit
    <2> HIDE DEF r
    <2>3. /\ filed' \in [Records -> Doc] /\ CarrierIffOutsourced' /\ \A s \in Records : Fitting(filed[s])'
        BY <1>1, <1>2, <2>1, <2>2, KeepStep
    <2> QED
        BY <1>2, <2>3, OverStep
<1>4. CASE filed[r] # NoRecord
    <2>1. UNCHANGED <<filed, overlapped>>
        BY <1>4 DEF CreateCoded
    <2>2. /\ filed' \in [Records -> Doc] /\ CarrierIffOutsourced' /\ \A s \in Records : Fitting(filed[s])'
        BY <1>2, <2>1 DEF RecordsInv, Fitting, CarrierIffOutsourced
    <2> QED
        BY <1>2, <2>2, OverStep
<1> QED
    BY <1>3, <1>4

LEMMA LoadStep ==
    ASSUME RecordsInv, NEW d \in Offices, LoadRecord(d)
    PROVE  RecordsInv'
<1> DEFINE r == sent[d].of
<1>1. r \in Records /\ sent[d].body \in Bodies /\ UNCHANGED <<dataTab, filed, overlapped>>
    BY Sending DEF LoadRecord
<1>2. CASE filed[r] = Deleted
    <2>1. sent' = [sent EXCEPT ![d] = NoSubmit]
        BY <1>2 DEF LoadRecord, Refused
    <2>2. /\ filed' \in [Records -> Doc] /\ CarrierIffOutsourced' /\ \A s \in Records : Fitting(filed[s])'
        BY <1>1 DEF RecordsInv, Fitting, CarrierIffOutsourced
    <2> QED
        BY <1>1, <2>1, <2>2, OverStep
<1>3. CASE filed[r] # Deleted
    <2> DEFINE s == [sent[d] EXCEPT !.at = "loaded", !.loaded = filed[r]]
    <2>1. sent' = [sent EXCEPT ![d] = s]
        BY <1>3 DEF LoadRecord
    <2>2. /\ s \in Submission
          /\ s.at = "loaded" /\ s.of = r /\ s.body = sent[d].body /\ s.loaded = filed[r]
        BY <1>1, Sending DEF Submission, SubmitStates, RecordsInv
    <2>3. Fitting(filed[r])
        BY <1>1 DEF RecordsInv
    <2> HIDE DEF s, r
    <2> QED
        BY <1>1, <2>1, <2>2, <2>3, SubmitStep
<1> QED
    BY <1>2, <1>3

\* A document that was loaded as it is stored is stored as it was filled in.
LEMMA SavedAsFilled ==
    ASSUME NEW kept \in Doc, NEW loaded \in Doc, NEW doc \in Doc
    PROVE  /\ Saved(kept, loaded, doc) \in Doc
           /\ kept = loaded => Saved(kept, loaded, doc) = doc
           /\ doc.carrier = NoCarrier /\ kept.carrier = NoCarrier => Saved(kept, loaded, doc).carrier = NoCarrier
<1> DEFINE s == [employment |-> IF doc.employment # loaded.employment THEN doc.employment ELSE kept.employment,
                 carrier |-> IF doc.carrier # loaded.carrier THEN doc.carrier ELSE kept.carrier,
                 name |-> IF doc.name # loaded.name THEN doc.name ELSE kept.name]
<1>1. DOMAIN doc = {"employment", "carrier", "name"}
    BY DEF Doc
<1>2. Saved(kept, loaded, doc) = s
    BY <1>1 DEF Saved
<1>3. s \in Doc
    BY DEF Doc
<1>4. kept = loaded => s = doc
    BY DEF Doc
<1>5. doc.carrier = NoCarrier /\ kept.carrier = NoCarrier => s.carrier = NoCarrier
    OBVIOUS
<1> QED
    BY <1>2, <1>3, <1>4, <1>5

LEMMA SaveRecordStep ==
    ASSUME RecordsInv, NEW d \in Offices, NEW doc, SaveRecord(d, doc),
           sent[d].body \in Bodies => Fitting(doc) /\ WellEmployed(doc)
    PROVE  RecordsInv'
<1> DEFINE r == sent[d].of
           loaded == sent[d].loaded
           new == Saved(filed[r], loaded, doc)
<1>1. r \in Records /\ sent[d].body \in Bodies /\ Fitting(loaded) /\ Fitting(filed[r])
    BY Sending DEF SaveRecord, RecordsInv
<1>2. dataTab' = dataTab /\ sent' = [sent EXCEPT ![d] = NoSubmit]
    BY DEF SaveRecord, FormDone, Refused
<1>3. CASE filed[r] = Deleted
    <2>1. UNCHANGED <<filed, overlapped>>
        BY <1>3 DEF SaveRecord
    <2>2. /\ filed' \in [Records -> Doc] /\ CarrierIffOutsourced' /\ \A s \in Records : Fitting(filed[s])'
        BY <1>2, <2>1 DEF RecordsInv, Fitting, CarrierIffOutsourced
    <2> QED
        BY <1>2, <2>2, OverStep
<1>4. CASE filed[r] # Deleted
    <2>1. /\ Keep(r, new)
          /\ overlapped' = IF filed[r] = loaded THEN overlapped \ {r} ELSE overlapped \cup {r}
        BY <1>4 DEF SaveRecord
    <2>2. Fitting(new) /\ (filed[r] = loaded => new = doc)
        BY <1>1, SavedAsFilled DEF Fitting
    <2>3. r \in overlapped' \/ WellEmployed(new)
        BY <1>1, <2>1, <2>2
    <2>4. overlapped \ {r} \subseteq overlapped'
        BY <2>1
    <2> HIDE DEF r, new
    <2>5. /\ filed' \in [Records -> Doc] /\ CarrierIffOutsourced' /\ \A s \in Records : Fitting(filed[s])'
        BY <1>1, <1>2, <2>1, <2>2, <2>3, <2>4, KeepStep
    <2> QED
        BY <1>2, <2>5, OverStep
<1> QED
    BY <1>3, <1>4

\* What a form and its document make of each other.
LEMMA FilledFits ==
    ASSUME NEW d \in Offices, Fitting(sent[d].loaded), sent[d].body \in Bodies
    PROVE  /\ dataTab \notin Employing => Fitting(Filled(d)) /\ WellEmployed(Filled(d))
           /\ Fitting(Employed(Filled(d))) /\ WellEmployed(Employed(Filled(d)))
<1> DEFINE body == sent[d].body
           loaded == sent[d].loaded
           doc == Filled(d)
           employed == Employed(doc)
<1>1. /\ Fitting(body) /\ body.employment \in {"IN_HOUSE", "OUTSOURCED"}
      /\ dataTab \notin Employing => body.employment = "IN_HOUSE" /\ loaded.carrier = NoCarrier
      /\ body.employment = "OUTSOURCED" => body.carrier \in Carriers
      /\ body \in Doc /\ loaded \in Doc
    BY BodiesFit DEF Fitting
<1>2. /\ doc = [employment |-> body.employment, name |-> body.name,
                carrier |-> IF body.employment = "OUTSOURCED" THEN body.carrier ELSE loaded.carrier]
    BY DEF Filled, Assigned
<1>3. /\ doc \in Doc /\ doc.employment = body.employment
      /\ body.employment = "OUTSOURCED" => doc.carrier = body.carrier
      /\ body.employment = "IN_HOUSE" => doc.carrier = loaded.carrier
    BY <1>1, <1>2 DEF Doc
<1> HIDE DEF doc
<1>4. employed = [doc EXCEPT !.carrier = IF doc.employment = "IN_HOUSE" THEN NoCarrier ELSE doc.carrier]
    BY DEF Employed
<1>5. /\ employed \in Doc /\ employed.employment = body.employment
      /\ body.employment = "OUTSOURCED" => employed.carrier = body.carrier
      /\ body.employment = "IN_HOUSE" => employed.carrier = NoCarrier
    BY <1>1, <1>3, <1>4 DEF Doc
<1>6. Fitting(employed) /\ WellEmployed(employed)
    BY <1>1, <1>5, RecordsAssumption DEF Fitting, WellEmployed
<1>7. dataTab \notin Employing => Fitting(doc) /\ WellEmployed(doc)
    BY <1>1, <1>3 DEF Fitting, WellEmployed
<1> QED
    BY <1>6, <1>7 DEF doc

\* A step of the page, of the dialog or of the file leaves the records and what was sent.
LEMMA PageStep ==
    ASSUME RecordsInv, UNCHANGED <<dataTab, filed, sent, overlapped>>
    PROVE  RecordsInv'
    BY DEF RecordsInv, SubmitsFit, Fitting, CarrierIffOutsourced, Bodies

LEMMA RecordsInduction ==
    ASSUME RecordsInv, [RecordsNext]_records
    PROVE  RecordsInv'
<1>1. ASSUME NEW d \in Offices, \/ ListCustomers(d) \/ ListProducts(d) \/ ListServices(d) \/ ListCustomerGroups(d)
             \/ ListProductCategories(d) \/ ListVehicles(d) \/ ListDrivers(d)
             \/ OpenCreate(d) \/ CloseForm(d)
      PROVE  RecordsInv'
    <2>1. ListRows(d) \/ OpenCreate(d) \/ CloseForm(d)
        BY <1>1 DEF ListCustomers, ListProducts, ListServices, ListCustomerGroups, ListProductCategories,
                    ListVehicles, ListDrivers
    <2> QED
        BY <2>1, PageStep DEF ListRows, OpenCreate, CloseForm
<1>2. ASSUME NEW d \in Offices,
             \/ CreateCustomer(d) \/ CreateProduct(d) \/ CreateService(d) \/ CreateCustomerGroup(d)
             \/ CreateProductCategory(d) \/ CreateVehicle(d) \/ CreateDriver(d)
      PROVE  RecordsInv'
    BY <1>2, CreateStep
       DEF CreateCustomer, CreateProduct, CreateService, CreateCustomerGroup, CreateProductCategory,
           CreateVehicle, CreateDriver
<1>3. ASSUME NEW d \in Offices,
             \/ UpdateCustomer(d) \/ UpdateProduct(d) \/ UpdateService(d) \/ UpdateCustomerGroup(d)
             \/ UpdateProductCategory(d)
      PROVE  RecordsInv'
    <2>1. dataTab \notin Employing /\ SaveRecord(d, Filled(d))
        BY <1>3 DEF UpdateCustomer, UpdateProduct, UpdateService, UpdateCustomerGroup,
                    UpdateProductCategory, Employing
    <2>2. sent[d].body \in Bodies => Fitting(Filled(d)) /\ WellEmployed(Filled(d))
        BY <2>1, Sending, FilledFits
    <2> QED
        BY <2>1, <2>2, SaveRecordStep
<1>4. ASSUME NEW d \in Offices, UpdateVehicle(d) \/ UpdateDriver(d)
      PROVE  RecordsInv'
    <2>1. SaveRecord(d, Employed(Filled(d)))
        BY <1>4 DEF UpdateVehicle, UpdateDriver
    <2>2. sent[d].body \in Bodies => Fitting(Employed(Filled(d))) /\ WellEmployed(Employed(Filled(d)))
        BY Sending, FilledFits
    <2> QED
        BY <2>1, <2>2, SaveRecordStep
<1>5. ASSUME NEW d \in Offices, NEW r \in Records, OpenEdit(d, r)
      PROVE  RecordsInv'
    BY <1>5, PageStep DEF OpenEdit
<1>6. ASSUME NEW d \in Offices, NEW r \in Records,
             \/ DeleteCustomer(d, r) \/ DeleteProduct(d, r) \/ DeleteService(d, r)
             \/ DeleteCustomerGroup(d, r) \/ DeleteProductCategory(d, r)
             \/ DeleteVehicle(d, r) \/ DeleteDriver(d, r)
      PROVE  RecordsInv'
    <2>1. Keep(r, Deleted) /\ dataTab' = dataTab /\ UNCHANGED <<sent, overlapped>>
        BY <1>6 DEF DeleteRecord, DeleteCustomer, DeleteProduct, DeleteService, DeleteCustomerGroup,
                    DeleteProductCategory, DeleteVehicle, DeleteDriver
    <2>2. /\ filed' \in [Records -> Doc] /\ CarrierIffOutsourced' /\ \A s \in Records : Fitting(filed[s])'
        BY <2>1, NoRecordFits, KeepStep
    <2> QED
        BY <2>1, <2>2 DEF RecordsInv, SubmitsFit, Fitting, Bodies
<1>7. ASSUME NEW d \in Offices, NEW r \in Records, NEW body \in Bodies, Submit(d, r, body)
      PROVE  RecordsInv'
    <2> DEFINE s == [at |-> IF form[d] = "new" THEN "create" ELSE "update",
                     of |-> r, body |-> body, loaded |-> NoRecord]
    <2>1. /\ s \in Submission /\ s.at # "none" /\ s.of = r /\ s.body = body /\ s.loaded = NoRecord
        BY BodiesFit, NoRecordFits DEF Submission, SubmitStates, Fitting
    <2>2. sent' = [sent EXCEPT ![d] = s] /\ UNCHANGED <<dataTab, filed, overlapped>>
        BY <1>7 DEF Submit
    <2> HIDE DEF s
    <2> QED
        BY <2>1, <2>2, NoRecordFits, SubmitStep
<1>8. ASSUME NEW S, FileRead(S)
      PROVE  RecordsInv'
    BY <1>8, PageStep DEF FileRead
<1>9. CASE OpenImport \/ SubmitImport
    BY <1>9, PageStep DEF OpenImport, SubmitImport
<1>10. ASSUME NEW r \in Records, ImportRow(r)
       PROVE  RecordsInv'
    <2> DEFINE new == [employment |-> "IN_HOUSE", carrier |-> NoCarrier, name |-> 1]
    <2>1. dataTab' = dataTab /\ sent' = sent
        BY <1>10 DEF ImportRow
    <2>2. CASE filed[r] = NoRecord
        <3>1. Keep(r, new) /\ overlapped' = overlapped \ {r}
            BY <1>10, <2>2 DEF ImportRow
        <3>2. Fitting(new) /\ WellEmployed(new)
            BY DEF Fitting, WellEmployed, Doc, Names
        <3> HIDE DEF new
        <3>3. /\ filed' \in [Records -> Doc] /\ CarrierIffOutsourced' /\ \A s \in Records : Fitting(filed[s])'
            BY <2>1, <3>1, <3>2, KeepStep
        <3> QED
            BY <2>1, <3>3 DEF RecordsInv, SubmitsFit, Fitting, Bodies
    <2>3. CASE filed[r] # NoRecord
        BY <1>10, <2>3, PageStep DEF ImportRow
    <2> QED
        BY <2>2, <2>3
<1>11. CASE UNCHANGED records
    BY <1>11, PageStep DEF records
<1> QED
    BY <1>1, <1>2, <1>3, <1>4, <1>5, <1>6, <1>7, <1>8, <1>9, <1>10, <1>11, LoadStep DEF RecordsNext

\* "Bảo toàn invariant: OUTSOURCED phải có ServiceID" (masterDataController.js:196): under
\* every tab, for any desks and carriers, only an update that wrote over one it had not
\* read can leave a vehicle outsourced to nobody, or in house with a carrier.
THEOREM CarriersMatch == RecordsSpec => []CarrierIffOutsourced
<1>1. RecordsInit => RecordsInv
    <2> SUFFICES ASSUME RecordsInit PROVE RecordsInv
        OBVIOUS
    <2>1. filed = [r \in Records |-> NoRecord] /\ sent = [d \in Offices |-> NoSubmit]
        BY DEF RecordsInit, Nothing
    <2>2. NoRecord \in Doc /\ NoSubmit \in Submission /\ NoSubmit.at = "none" /\ NoSubmit.loaded = NoRecord
        BY NoRecordFits DEF Fitting, NoSubmit, Submission, SubmitStates
    <2>3. CarrierIffOutsourced
        BY <2>1, NoRecordFits DEF CarrierIffOutsourced
    <2>4. SubmitsFit
        BY <2>1, <2>2, NoRecordFits DEF SubmitsFit
    <2> QED
        BY <2>1, <2>2, <2>3, <2>4, NoRecordFits DEF RecordsInv
<1>2. RecordsInv /\ [RecordsNext]_records => RecordsInv'
    BY RecordsInduction
<1>3. RecordsInv => CarrierIffOutsourced
    BY DEF RecordsInv
<1> QED
    BY <1>1, <1>2, <1>3, PTL DEF RecordsSpec

-----------------------------------------------------------------------------
(* OrdersScreen: the pages of the list.                                    *)

\* A set of numbers has a least one: the intervals up to its members are well founded.
LEMMA LeastMember ==
    ASSUME NEW N \in Nat, NEW T, T \subseteq 1 .. N, T # {}
    PROVE  \E k \in T : \A j \in T : k <= j
<1> DEFINE Upto == {1 .. k : k \in T}
           R == StrictSubsetOrdering(1 .. N)
<1>1. IsFiniteSet(1 .. N)
    BY FS_Interval
<1>2. IsWellFoundedOn(R, SUBSET (1 .. N))
    BY <1>1, FS_FiniteSubsetsOfFinite, FS_StrictSubsetOrderingWellFounded
<1>3. Upto \subseteq SUBSET (1 .. N) /\ Upto # {}
    <2>1. \A k \in T : 1 .. k \subseteq 1 .. N
        OBVIOUS
    <2> QED
        BY <2>1
<1>4. PICK u \in Upto : \A v \in Upto : <<v, u>> \notin R
    <2> HIDE DEF R, Upto
    <2> QED
        BY <1>2, <1>3, WFMin
<1>5. PICK k \in T : u = 1 .. k
    BY <1>4
<1>6. ASSUME NEW j \in T, j < k PROVE FALSE
    <2>1. 1 .. j \in Upto /\ 1 .. j \subseteq 1 .. k /\ 1 .. j # 1 .. k
        <3>1. k \in 1 .. k /\ k \notin 1 .. j
            BY <1>6
        <3> QED
            BY <1>6, <3>1
    <2>2. <<1 .. j, u>> \in R
        BY <1>3, <1>5, <2>1 DEF StrictSubsetOrdering
    <2> QED
        BY <1>4, <2>1, <2>2
<1> QED
    BY <1>6

Place(S, o) == Cardinality({q \in S : q <= o})

\* A set of orders has one at every place up to its size.
LEMMA PlaceTaken ==
    ASSUME NEW N \in Nat, NEW S, S \subseteq 1 .. N, NEW m \in Nat, m < Cardinality(S)
    PROVE  \E o \in S : Place(S, o) = m + 1
<1> DEFINE Below(o) == {q \in S : q <= o}
           T == {o \in 1 .. N : Cardinality(Below(o)) > m}
<1>1. IsFiniteSet(S) /\ Cardinality(S) \in Nat
    <2>1. IsFiniteSet(1 .. N)
        BY FS_Interval
    <2> QED
        BY <2>1, FS_Subset, FS_CardinalityType
<1>11. \A q \in S : q \in Int /\ 1 <= q /\ q <= N
    OBVIOUS
<1>2. \A o : Below(o) \subseteq S /\ IsFiniteSet(Below(o)) /\ Cardinality(Below(o)) \in Nat
    BY <1>1, FS_Subset, FS_CardinalityType
<1>3. N \in T
    <2>1. Below(N) = S
        BY <1>11
    <2>2. S # {}
        BY FS_EmptySet
    <2>3. N \in 1 .. N
        <3>1. PICK q \in S : TRUE
            BY <2>2
        <3>2. q \in Int /\ 1 <= q /\ q <= N
            BY <1>11
        <3> QED
            BY <3>2
    <2> HIDE DEF Below
    <2> QED
        BY <1>1, <2>1, <2>3
<1> HIDE DEF T
<1>4. PICK k \in T : \A j \in T : k <= j
    BY <1>3, LeastMember DEF T
<1>5. k \in 1 .. N /\ Cardinality(Below(k)) > m
    BY DEF T
<1>6. Cardinality(Below(k - 1)) <= m
    <2>1. CASE k = 1
        <3>1. \A q \in S : ~(q <= k - 1)
            BY <1>11, <2>1
        <3>2. Below(k - 1) = {}
            BY <3>1
        <3> QED
            BY <3>2, FS_EmptySet
    <2>2. CASE k # 1
        <3>1. k - 1 \in 1 .. N /\ k - 1 \notin T
            BY <1>4, <1>5, <2>2
        <3>2. Cardinality(Below(k - 1)) \in Nat /\ ~(Cardinality(Below(k - 1)) > m)
            <4> HIDE DEF Below
            <4> QED
                BY <1>2, <3>1 DEF T
        <3> QED
            BY <3>2
    <2> QED
        BY <2>1, <2>2
<1>7. k \in S
    <2> SUFFICES ASSUME k \notin S PROVE FALSE
        OBVIOUS
    <2>1. \A q \in S : q <= k <=> q <= k - 1
        <3> SUFFICES ASSUME NEW q \in S PROVE q <= k <=> q <= k - 1
            OBVIOUS
        <3>1. q \in Int /\ k \in Int /\ q # k
            BY <1>5, <1>11
        <3> QED
            BY <3>1
    <2>2. Below(k) = Below(k - 1)
        BY <2>1
    <2> HIDE DEF Below
    <2> QED
        BY <1>2, <1>5, <1>6, <2>2
<1>8. Below(k) = Below(k - 1) \cup {k} /\ k \notin Below(k - 1)
    <2>1. \A q \in S : q <= k <=> q <= k - 1 \/ q = k
        <3> SUFFICES ASSUME NEW q \in S PROVE q <= k <=> q <= k - 1 \/ q = k
            OBVIOUS
        <3>1. q \in Int /\ k \in Int
            BY <1>5, <1>11
        <3> QED
            BY <3>1
    <2>2. ~(k <= k - 1)
        BY <1>5
    <2> QED
        BY <1>7, <2>1, <2>2
<1>9. Cardinality(Below(k)) = Cardinality(Below(k - 1)) + 1
    <2> HIDE DEF Below
    <2> QED
        BY <1>2, <1>8, FS_AddElement
<1>10. Cardinality(Below(k)) = m + 1
    <2> HIDE DEF Below
    <2> QED
        BY <1>2, <1>5, <1>6, <1>9
<1> QED
    BY <1>7, <1>10 DEF Place

ListAnswer == [of : SUBSET ListOrders, pending : SUBSET ListOrders, total : Nat,
               is : {"none", "not loading", "asked", "read"}]
Before(p) == (p - 1) * PageSize     \* orders on the pages before p
Total(f) == Cardinality(Matches(f))

ListTypes ==
    /\ filter \in Filters /\ (page = 1 \/ page \in Pages)
    /\ lists \in [ListKeys -> ListAnswer] /\ listLoading \in [ListKeys -> ListAnswer]

\* Of a filter that no order has left, the page at work and every page that is asked for or
\* listed has orders, and every list knows of orders that are still there.
PagesHaveOrders ==
    /\ page > 1 /\ filter \notin leftFrom => Before(page) < Total(filter)
    /\ \A k \in ListKeys : k[1] \notin leftFrom =>
          /\ lists[k].total <= Total(k[1]) /\ listLoading[k].total <= Total(k[1])
          /\ k[2] > 1 =>
                /\ lists[k] # NoList \/ listLoading[k] # NotLoading => Before(k[2]) < Total(k[1])
                /\ lists[k] # NoList => lists[k].of # {}
                /\ listLoading[k].is = "read" => listLoading[k].of # {}

ListInv == ListTypes /\ PagesHaveOrders

LEMMA MatchesFinite == \A f : Matches(f) \subseteq ListOrders /\ IsFiniteSet(Matches(f)) /\ Total(f) \in Nat
<1>1. IsFiniteSet(ListOrders)
    BY ListAssumption, FS_Interval DEF ListOrders
<1>2. \A f : Matches(f) \subseteq ListOrders
    BY DEF Matches
<1> QED
    BY <1>1, <1>2, FS_Subset, FS_CardinalityType DEF Total

LEMMA PageNumbers ==
    ASSUME NEW p \in Nat \ {0}
    PROVE  Before(p) \in Nat /\ p * PageSize = Before(p) + PageSize /\ PageSize \in Nat \ {0}
<1>1. PageSize \in Nat \ {0}
    BY ListAssumption
<1> QED
    BY <1>1 DEF Before

LEMMA AnswerTypes ==
    /\ NoList \in ListAnswer /\ NotLoading \in ListAnswer /\ AskedFor \in ListAnswer
    /\ NoList.total = 0 /\ NotLoading.total = 0 /\ AskedFor.total = 0
    /\ NotLoading.is = "not loading" /\ AskedFor.is = "asked" /\ NoList.is = "none"
    BY DEF NoList, NotLoading, AskedFor, ListAnswer

\* A page with orders before its end is not empty.
LEMMA PageRead ==
    ASSUME NEW f, NEW p \in Nat \ {0}
    PROVE  /\ ListPage(f, p) \in ListAnswer /\ ListPage(f, p).is = "read"
           /\ ListPage(f, p).total = Total(f)
           /\ Before(p) < Total(f) => ListPage(f, p).of # {}
<1> DEFINE S == Matches(f)
           place(o) == Cardinality({q \in S : q <= o})
           onPage == {o \in S : place(o) > (p - 1) * PageSize /\ place(o) <= p * PageSize}
<1>1. ListPage(f, p) = [of |-> onPage, pending |-> {o \in onPage : approval[o] = "PENDING"},
                        total |-> Cardinality(S), is |-> "read"]
    BY DEF ListPage
<1>2. S \subseteq ListOrders /\ Cardinality(S) \in Nat
    BY MatchesFinite DEF Total
<1>3. Before(p) < Total(f) => onPage # {}
    <2> SUFFICES ASSUME Before(p) < Total(f) PROVE onPage # {}
        OBVIOUS
    <2>1. Before(p) \in Nat /\ p * PageSize = Before(p) + PageSize /\ PageSize \in Nat \ {0}
        BY PageNumbers
    <2>2. S \subseteq 1 .. OrderCount /\ OrderCount \in Nat /\ Before(p) < Cardinality(S)
        BY <1>2, ListAssumption DEF ListOrders, Total
    <2>3. PICK o \in S : place(o) = Before(p) + 1
        <3>1. PICK m \in Nat : m = Before(p)
            BY <2>1
        <3> HIDE DEF S
        <3>2. S \subseteq 1 .. OrderCount /\ OrderCount \in Nat /\ m < Cardinality(S)
            BY <2>2, <3>1
        <3>3. \E o \in S : Place(S, o) = m + 1
            BY <3>2, PlaceTaken
        <3> QED
            BY <3>1, <3>3 DEF Place
    <2>4. place(o) > Before(p) /\ place(o) <= p * PageSize
        BY <2>1, <2>3
    <2> QED
        BY <2>4 DEF Before
<1>4. onPage \subseteq ListOrders
    BY <1>2
<1> HIDE DEF onPage, S
<1> QED
    BY <1>1, <1>2, <1>3, <1>4 DEF ListAnswer, Total, S

\* What the server does to the orders takes none from a filter it does not note.
LEMMA OrdersGrow ==
    ASSUME NEW S, NEW to, Become(S, to)
    PROVE  \A f : f \notin leftFrom' => f \notin leftFrom /\ Total(f) <= Total(f)'
<1> SUFFICES ASSUME NEW f, f \notin leftFrom'
             PROVE  f \notin leftFrom /\ Total(f) <= Total(f)'
    OBVIOUS
<1>1. f \notin leftFrom /\ f \notin {approval[o] : o \in S} \ {to} /\ (to = "absent" => f # All)
    BY DEF Become
<1>2. ASSUME NEW o \in Matches(f) PROVE o \in Matches(f)'
    <2>1. o \in ListOrders /\ approval[o] # "absent" /\ f \in {All, approval[o]}
        BY <1>2 DEF Matches
    <2>2. approval'[o] = IF o \in S THEN to ELSE approval[o]
        BY <2>1 DEF Become
    <2>3. CASE o \in S
        <3>1. f = All \/ f = to
            BY <1>1, <2>1, <2>3
        <3>2. to # "absent"
            BY <1>1, <2>1, <2>3, <3>1
        <3> QED
            BY <2>1, <2>2, <2>3, <3>1, <3>2 DEF Matches
    <2>4. CASE o \notin S
        BY <2>1, <2>2, <2>4 DEF Matches
    <2> QED
        BY <2>3, <2>4
<1>3. IsFiniteSet(Matches(f)')
    <2>1. IsFiniteSet(ListOrders)
        BY ListAssumption, FS_Interval DEF ListOrders
    <2>2. Matches(f)' \subseteq ListOrders
        BY DEF Matches
    <2> QED
        BY <2>1, <2>2, FS_Subset
<1>4. Matches(f) \subseteq Matches(f)'
    BY <1>2
<1>5. Cardinality(Matches(f)) <= Cardinality(Matches(f)')
    BY <1>3, <1>4, FS_Subset
<1> QED
    BY <1>1, <1>5 DEF Total

\* A look at the list, or a turn of its page: what is asked for has orders.
LEMMA ListLookStep ==
    ASSUME ListInv, UNCHANGED <<approval, lists, leftFrom>>,
           filter' \in Filters, page' = 1 \/ page' \in Pages,
           page' > 1 /\ filter' \notin leftFrom => Before(page') < Total(filter'),
           \/ UNCHANGED listLoading
           \/ listLoading' = [listLoading EXCEPT ![<<filter', page'>>] = AskedFor]
    PROVE  ListInv'
<1>1. \A f : Total(f)' = Total(f)
    BY DEF Total, Matches
<1>2. ListTypes'
    BY AnswerTypes DEF ListInv, ListTypes
<1>3. \A k \in ListKeys : \/ listLoading'[k] = listLoading[k]
                          \/ listLoading'[k] = AskedFor /\ k = <<filter', page'>>
    BY DEF ListInv, ListTypes
<1>4. ASSUME NEW k \in ListKeys, k[1] \notin leftFrom
      PROVE  /\ lists[k].total <= Total(k[1]) /\ listLoading'[k].total <= Total(k[1])
             /\ k[2] > 1 =>
                   /\ lists[k] # NoList \/ listLoading'[k] # NotLoading => Before(k[2]) < Total(k[1])
                   /\ lists[k] # NoList => lists[k].of # {}
                   /\ listLoading'[k].is = "read" => listLoading'[k].of # {}
    <2>1. CASE listLoading'[k] = listLoading[k]
        BY <1>4, <2>1 DEF ListInv, PagesHaveOrders
    <2>2. CASE listLoading'[k] = AskedFor /\ k = <<filter', page'>>
        <3>1. k[1] = filter' /\ k[2] = page'
            BY <2>2
        <3>2. Total(k[1]) \in Nat
            BY MatchesFinite
        <3>3. 0 <= Total(k[1])
            BY <3>2
        <3> QED
            BY <1>4, <2>2, <3>1, <3>3, AnswerTypes DEF ListInv, PagesHaveOrders
    <2> QED
        BY <1>3, <2>1, <2>2
<1>5. PagesHaveOrders'
    BY <1>1, <1>4 DEF PagesHaveOrders, Before
<1> QED
    BY <1>2, <1>5 DEF ListInv

\* The server answers with a page as it is now.
LEMMA ListReadStep ==
    ASSUME ListInv, NEW k \in ListKeys, ListIsRead(k)
    PROVE  ListInv'
<1>1. \A f : Total(f)' = Total(f)
    BY DEF ListIsRead, Total, Matches
<1>2. k[2] \in Nat \ {0}
    BY DEF ListKeys, Pages
<1>3. PICK a : a = ListPage(k[1], k[2])
    OBVIOUS
<1>4. /\ a \in ListAnswer /\ a.is = "read" /\ a.total = Total(k[1]) /\ Total(k[1]) \in Nat
      /\ Before(k[2]) < Total(k[1]) => a.of # {}
    BY <1>2, <1>3, PageRead, MatchesFinite
<1>5. /\ listLoading[k] = AskedFor /\ listLoading' = [listLoading EXCEPT ![k] = a]
      /\ UNCHANGED <<approval, filter, page, lists, leftFrom>>
    BY <1>3 DEF ListIsRead
<1>6. ListTypes'
    BY <1>4, <1>5 DEF ListInv, ListTypes
<1>7. listLoading'[k] = a /\ \A j \in ListKeys \ {k} : listLoading'[j] = listLoading[j]
    BY <1>5 DEF ListInv, ListTypes
<1>8. ASSUME NEW j \in ListKeys, j[1] \notin leftFrom
      PROVE  /\ lists[j].total <= Total(j[1]) /\ listLoading'[j].total <= Total(j[1])
             /\ j[2] > 1 =>
                   /\ lists[j] # NoList \/ listLoading'[j] # NotLoading => Before(j[2]) < Total(j[1])
                   /\ lists[j] # NoList => lists[j].of # {}
                   /\ listLoading'[j].is = "read" => listLoading'[j].of # {}
    <2>1. CASE j = k
        <3>1. Total(k[1]) <= Total(k[1])
            BY <1>4
        <3>2. k[2] > 1 => Before(k[2]) < Total(k[1])
            BY <1>5, <1>8, <2>1, AnswerTypes DEF ListInv, PagesHaveOrders
        <3> QED
            BY <1>4, <1>7, <1>8, <2>1, <3>1, <3>2 DEF ListInv, PagesHaveOrders
    <2>2. CASE j # k
        BY <1>7, <1>8, <2>2 DEF ListInv, PagesHaveOrders
    <2> QED
        BY <2>1, <2>2
<1>9. PagesHaveOrders'
    BY <1>1, <1>5, <1>8 DEF PagesHaveOrders, Before, ListInv
<1> QED
    BY <1>6, <1>9 DEF ListInv

LEMMA ArriveStep ==
    ASSUME ListInv, NEW k \in ListKeys, OrdersArrive(k)
    PROVE  ListInv'
<1>1. \A f : Total(f)' = Total(f)
    BY DEF OrdersArrive, Total, Matches
<1>2. /\ listLoading[k].is = "read" /\ UNCHANGED <<approval, filter, page, leftFrom>>
      /\ lists' = [lists EXCEPT ![k] = listLoading[k]]
      /\ listLoading' = [listLoading EXCEPT ![k] = NotLoading]
    BY DEF OrdersArrive
<1>3. ListTypes'
    BY <1>2, AnswerTypes DEF ListInv, ListTypes
<1>4. /\ lists'[k] = listLoading[k] /\ listLoading'[k] = NotLoading
      /\ \A j \in ListKeys \ {k} : lists'[j] = lists[j] /\ listLoading'[j] = listLoading[j]
    BY <1>2 DEF ListInv, ListTypes
<1>5. ASSUME NEW j \in ListKeys, j[1] \notin leftFrom
      PROVE  /\ lists'[j].total <= Total(j[1]) /\ listLoading'[j].total <= Total(j[1])
             /\ j[2] > 1 =>
                   /\ lists'[j] # NoList \/ listLoading'[j] # NotLoading => Before(j[2]) < Total(j[1])
                   /\ lists'[j] # NoList => lists'[j].of # {}
                   /\ listLoading'[j].is = "read" => listLoading'[j].of # {}
    <2>1. CASE j = k
        <3>1. Total(k[1]) \in Nat
            BY MatchesFinite
        <3>2. 0 <= Total(k[1])
            BY <3>1
        <3>3. /\ listLoading[k].total <= Total(k[1])
              /\ k[2] > 1 => Before(k[2]) < Total(k[1]) /\ listLoading[k].of # {}
            BY <1>2, <1>5, <2>1, AnswerTypes DEF ListInv, PagesHaveOrders
        <3> QED
            BY <1>4, <2>1, <3>2, <3>3, AnswerTypes
    <2>2. CASE j # k
        <3>1. lists'[j] = lists[j] /\ listLoading'[j] = listLoading[j]
            BY <1>4, <1>5, <2>2
        <3>2. PagesHaveOrders
            BY DEF ListInv
        <3> QED
            BY <1>5, <3>1, <3>2 DEF PagesHaveOrders
    <2> QED
        BY <2>1, <2>2
<1>6. PagesHaveOrders'
    BY <1>1, <1>2, <1>5 DEF PagesHaveOrders, Before, ListInv
<1> QED
    BY <1>3, <1>6 DEF ListInv

\* The server changes orders, and the list on screen may be asked for anew.
LEMMA BecomeStep ==
    ASSUME ListInv, NEW S, NEW to, Become(S, to), UNCHANGED <<filter, page, lists>>,
           UNCHANGED listLoading \/ listLoading' = [listLoading EXCEPT ![Key] = AskedFor]
    PROVE  ListInv'
<1>1. \A f : f \notin leftFrom' => f \notin leftFrom /\ Total(f) <= Total(f)'
    BY OrdersGrow
<1>2. ListTypes'
    BY AnswerTypes DEF ListInv, ListTypes
<1>3. \A k \in ListKeys : listLoading'[k] = listLoading[k] \/ (listLoading'[k] = AskedFor /\ k = Key)
    BY DEF ListInv, ListTypes
<1>4. \A f : Total(f) \in Nat /\ Total(f)' \in Nat
    <2>1. \A f : Total(f)' \in Nat
        <3>1. IsFiniteSet(ListOrders)
            BY ListAssumption, FS_Interval DEF ListOrders
        <3>2. \A f : Matches(f)' \subseteq ListOrders
            BY DEF Matches
        <3> QED
            BY <3>1, <3>2, FS_Subset, FS_CardinalityType DEF Total
    <2> QED
        BY <2>1, MatchesFinite
<1>5. \A k \in ListKeys : k[2] > 1 => Before(k[2]) \in Nat
    <2>1. \A k \in ListKeys : k[2] \in Nat \ {0}
        BY DEF ListKeys, Pages
    <2> QED
        BY <2>1, PageNumbers
<1>6. PICK f \in Filters : f = filter
    BY DEF ListInv, ListTypes
<1>7. page > 1 /\ f \notin leftFrom' => Before(page) < Total(f)'
    <2> SUFFICES ASSUME page > 1, f \notin leftFrom' PROVE Before(page) < Total(f)'
        OBVIOUS
    <2>1. page \in Nat \ {0}
        BY DEF ListInv, ListTypes, Pages
    <2>2. Before(page) < Total(f) /\ Before(page) \in Nat
        BY <1>1, <1>6, <2>1, PageNumbers DEF ListInv, PagesHaveOrders
    <2> QED
        BY <1>1, <1>4, <2>2
<1>8. page' > 1 /\ filter' \notin leftFrom' => Before(page') < Total(filter)'
    BY <1>6, <1>7 DEF Total, Matches
<1>9. ASSUME NEW k \in ListKeys, k[1] \notin leftFrom'
      PROVE  /\ lists'[k].total <= Total(k[1])' /\ listLoading'[k].total <= Total(k[1])'
             /\ k[2] > 1 =>
                   /\ lists'[k] # NoList \/ listLoading'[k] # NotLoading => Before(k[2]) < Total(k[1])'
                   /\ lists'[k] # NoList => lists'[k].of # {}
                   /\ listLoading'[k].is = "read" => listLoading'[k].of # {}
    <2>1. lists[k].total \in Nat /\ listLoading[k].total \in Nat
        BY DEF ListInv, ListTypes, ListAnswer
    <2>2. /\ k[1] \notin leftFrom /\ Total(k[1]) <= Total(k[1])'
          /\ Total(k[1]) \in Nat /\ Total(k[1])' \in Nat
        BY <1>1, <1>4, <1>9
    <2>3. /\ lists[k].total <= Total(k[1])' /\ listLoading[k].total <= Total(k[1])'
          /\ k[2] > 1 /\ (lists[k] # NoList \/ listLoading[k] # NotLoading) => Before(k[2]) < Total(k[1])'
        BY <1>5, <2>1, <2>2 DEF ListInv, PagesHaveOrders
    <2>4. CASE listLoading'[k] = listLoading[k]
        BY <2>2, <2>3, <2>4 DEF ListInv, PagesHaveOrders
    <2>5. CASE listLoading'[k] = AskedFor /\ k = Key
        <3>1. k[1] = f /\ k[2] = page
            BY <1>6, <2>5 DEF Key
        <3>2. k[2] > 1 => Before(k[2]) < Total(k[1])'
            BY <1>7, <1>9, <3>1
        <3>3. 0 <= Total(k[1])'
            BY <2>2
        <3> QED
            BY <2>2, <2>3, <2>5, <3>2, <3>3, AnswerTypes DEF ListInv, PagesHaveOrders
    <2> QED
        BY <1>3, <2>4, <2>5
<1>10. PagesHaveOrders'
    BY <1>8, <1>9 DEF PagesHaveOrders, Before
<1> QED
    BY <1>2, <1>10 DEF ListInv

LEMMA ListInduction ==
    ASSUME ListInv, [ListNext]_orderList
    PROVE  ListInv'
<1>1. page' = page /\ filter' = filter =>
         /\ filter' \in Filters /\ (page' = 1 \/ page' \in Pages)
         /\ page' > 1 /\ filter' \notin leftFrom => Before(page') < Total(filter')
    BY DEF ListInv, ListTypes, PagesHaveOrders
<1>2. ASSUME NEW f \in Filters, SetFilter(f)
      PROVE  ListInv'
    BY <1>2, ListLookStep DEF SetFilter, LookAt, FirstPage
<1>3. ASSUME NEW p \in Pages, TurnPage(p)
      PROVE  ListInv'
    <2>1. /\ OnScreen # NoList /\ Before(p) < OnScreen.total
          /\ page' = p /\ filter' = filter /\ UNCHANGED <<approval, lists, leftFrom>>
          /\ \/ UNCHANGED listLoading
             \/ listLoading' = [listLoading EXCEPT ![<<filter', page'>>] = AskedFor]
        BY <1>3 DEF TurnPage, LookAt, Before
    <2>2. Key \in ListKeys
        <3>1. 1 \in Pages
            BY ListAssumption DEF Pages
        <3> QED
            BY <3>1 DEF ListInv, ListTypes, Key, ListKeys
    <2>3. filter \notin leftFrom => Before(p) < Total(filter)
        <3> SUFFICES ASSUME filter \notin leftFrom PROVE Before(p) < Total(filter)
            OBVIOUS
        <3>1. OnScreen.total <= Total(filter) /\ OnScreen.total \in Nat /\ Total(filter) \in Nat
            BY <2>2, MatchesFinite DEF ListInv, ListTypes, PagesHaveOrders, OnScreen, Key, ListAnswer
        <3>2. Before(p) \in Nat
            BY PageNumbers DEF Pages
        <3> QED
            BY <2>1, <3>1, <3>2
    <2>4. filter' \in Filters
        BY <2>1 DEF ListInv, ListTypes
    <2> QED
        BY <2>1, <2>3, <2>4, ListLookStep
<1>4. ASSUME NEW S, NEW to, NEW d, PressCreate(d) \/ OpenDrawer(d) \/ Upload(S) \/ PressInDrawer(to)
                                   \/ PressApprove(d, to) \/ CloseDrawer \/ RequestFails
      PROVE  ListInv'
    <2>1. UNCHANGED <<approval, filter, page, lists, listLoading, leftFrom>>
        BY <1>4 DEF PressCreate, OpenDrawer, Upload, PressInDrawer, PressApprove, CloseDrawer,
                    RequestFails, Ask
    <2> QED
        BY <1>1, <2>1, ListLookStep
<1>5. ASSUME NEW o \in ListOrders, NEW to, OthersWork(o, to)
      PROVE  ListInv'
    <2>1. Become({o}, to) /\ UNCHANGED <<filter, page, lists, listLoading>>
        BY <1>5 DEF OthersWork
    <2> QED
        BY <2>1, BecomeStep
<1>6. ASSUME RequestServed
      PROVE  ListInv'
    <2>1. /\ Become(Served, request.to) /\ UNCHANGED <<filter, page, lists>>
          /\ listLoading' = [listLoading EXCEPT ![Key] = AskedFor]
        BY <1>6 DEF RequestServed
    <2> QED
        BY <2>1, BecomeStep
<1>7. CASE UNCHANGED orderList
    BY <1>1, <1>7, ListLookStep DEF orderList
<1> QED
    BY <1>2, <1>3, <1>4, <1>5, <1>6, <1>7, ListReadStep, ArriveStep DEF ListNext

\* OrdersPage.jsx:530: whatever answers, filters and pages cross, a page after the first one
\* is empty only when an order has left its filter.
THEOREM PagesShrinkOnly == ListSpec => []EmptyPageHasShrunk
<1>1. ListInit => ListInv
    <2> SUFFICES ASSUME ListInit PROVE ListInv
        OBVIOUS
    <2>1. ListTypes
        BY AnswerTypes DEF ListInit, ListTypes
    <2>2. \A k \in ListKeys : /\ lists[k] = NoList
                              /\ listLoading[k] = NotLoading \/ (listLoading[k] = AskedFor /\ k[2] = 1)
        BY DEF ListInit, Key
    <2>3. \A f : 0 <= Total(f)
        BY MatchesFinite
    <2>4. page = 1
        BY DEF ListInit
    <2>5. PagesHaveOrders
        <3>1. ASSUME NEW k \in ListKeys
              PROVE  /\ lists[k].total <= Total(k[1]) /\ listLoading[k].total <= Total(k[1])
                     /\ lists[k] = NoList /\ listLoading[k].is # "read"
                     /\ k[2] > 1 => listLoading[k] = NotLoading
            <4>1. lists[k].total = 0 /\ listLoading[k].total = 0 /\ lists[k] = NoList
                BY <2>2, AnswerTypes
            <4>2. listLoading[k].is # "read"
                BY <2>2, AnswerTypes
            <4>3. k[2] > 1 => listLoading[k] = NotLoading
                BY <2>2
            <4> QED
                BY <2>3, <4>1, <4>2, <4>3
        <3>2. ~(page > 1)
            BY <2>4
        <3> QED
            BY <3>1, <3>2 DEF PagesHaveOrders
    <2> QED
        BY <2>1, <2>5 DEF ListInv
<1>2. ListInv /\ [ListNext]_orderList => ListInv'
    BY ListInduction
<1>3. ListInv => EmptyPageHasShrunk
    <2> SUFFICES ASSUME ListInv, page > 1, OnScreen # NoList, OnScreen.of = {}, filter \notin leftFrom
                 PROVE  FALSE
        BY DEF EmptyPageHasShrunk
    <2>1. Key \in ListKeys /\ Key[1] = filter /\ Key[2] = page
        BY DEF ListInv, ListTypes, Key, ListKeys
    <2> QED
        BY <2>1 DEF ListInv, PagesHaveOrders, OnScreen
<1> QED
    BY <1>1, <1>2, <1>3, PTL DEF ListSpec

-----------------------------------------------------------------------------
(* RouteMap: stops and roads in their places.                              *)

\* The places of a look-up's answer are those of the customers it names.
PointsInPlace == \A p \in mapPoints : p[3] = p[2]

\* Unless an address was not found or the points were forgotten, a stop without a point is
\* being looked up: a look-up that ends takes the others' places or leaves its own.
StopsLookedUp ==
    lookUps = {} /\ ~failed /\ ~forgotten => \A i \in DOMAIN shown : <<i, shown[i], shown[i]>> \in PointsOf(shown, mapPoints)

\* A road look-up of the view shown goes along the points shown, and unless a look-up ended
\* out of order one is under way or the roads are drawn.
RoadsInPlace ==
    /\ views \in Nat
    /\ \A run \in roadRuns : /\ run.view \in 0 .. views
                             /\ run.view = views => run.along = Places(PointsOf(shown, mapPoints))
    /\ shown # <<>> /\ ~crossed =>
          \/ roadLines = Places(PointsOf(shown, mapPoints))
          \/ \E run \in roadRuns : run.view = views

MapInv == PointsInPlace /\ StopsLookedUp /\ RoadsInPlace

LEMMA ShownPoints ==
    ASSUME PointsInPlace
    PROVE  \A p \in PointsOf(shown, mapPoints) :
              p[1] \in DOMAIN shown /\ p[2] = shown[p[1]] /\ p[3] = shown[p[1]]
    BY DEF PointsInPlace, PointsOf

LEMMA DrawStep ==
    ASSUME RoadsInPlace, views' = views + 1, NEW lines, DrawRoads(shown', mapPoints', lines)
    PROVE  RoadsInPlace'
<1> DEFINE run == [view |-> views + 1, along |-> Places(PointsOf(shown', mapPoints'))]
<1>1. /\ views \in Nat /\ views' \in Nat
      /\ \A r \in roadRuns : r.view \in 0 .. views'  /\ r.view # views'
    BY DEF RoadsInPlace
<1>2. CASE shown' = <<>>
    BY <1>1, <1>2 DEF DrawRoads, RoadsInPlace
<1>3. CASE shown' # <<>>
    <2>1. roadRuns' = roadRuns \cup {run}
        BY <1>3 DEF DrawRoads
    <2>2. run.view = views' /\ run.along = Places(PointsOf(shown, mapPoints))'
        OBVIOUS
    <2> HIDE DEF run
    <2>3. \A r \in roadRuns' : /\ r.view \in 0 .. views'
                               /\ r.view = views' => r.along = Places(PointsOf(shown, mapPoints))'
        BY <1>1, <2>1, <2>2
    <2> QED
        BY <1>1, <2>1, <2>2, <2>3 DEF RoadsInPlace
<1> QED
    BY <1>2, <1>3

LEMMA ShowStopsStep ==
    ASSUME MapInv, NEW stops, ShowStops(stops)
    PROVE  MapInv'
<1>1. PointsInPlace'
    BY DEF ShowStops, MapInv, PointsInPlace
<1>2. StopsLookedUp'
    <2>1. CASE stops = <<>>
        BY <2>1 DEF ShowStops, StopsLookedUp
    <2>2. CASE stops # <<>>
        BY <2>2 DEF ShowStops, StopsLookedUp
    <2> QED
        BY <2>1, <2>2
<1>3. RoadsInPlace'
    BY DrawStep DEF ShowStops, MapInv
<1> QED
    BY <1>1, <1>2, <1>3 DEF MapInv

LEMMA InvalidatedStep == MapInv /\ Invalidated => MapInv'
<1> SUFFICES ASSUME MapInv, Invalidated PROVE MapInv'
    OBVIOUS
<1>1. PointsInPlace'
    BY DEF Invalidated, PointsInPlace
<1>2. StopsLookedUp'
    BY DEF Invalidated, StopsLookedUp
<1>3. DrawRoads(shown', mapPoints', NoLines)
    BY DEF Invalidated
<1>4. RoadsInPlace'
    BY <1>3, DrawStep DEF Invalidated, MapInv
<1> QED
    BY <1>1, <1>2, <1>4 DEF MapInv

LEMMA GeocodeStep ==
    ASSUME MapInv, NEW run \in lookUps, GeocodeDone(run)
    PROVE  MapInv'
<1>1. PICK found \in SUBSET DOMAIN run.stops :
          mapPoints' = Found(run.stops, found) /\ failed' = (found # DOMAIN run.stops)
    BY DEF GeocodeDone
<1>2. PointsInPlace'
    BY <1>1 DEF PointsInPlace, Found
<1>3. StopsLookedUp'
    <2> SUFFICES ASSUME ~failed', ~forgotten', NEW i \in DOMAIN shown'
                 PROVE  <<i, shown'[i], shown'[i]>> \in PointsOf(shown', mapPoints')
        BY DEF StopsLookedUp
    <2>1. shown' = shown /\ run.stops = shown /\ found = DOMAIN shown
        BY <1>1 DEF GeocodeDone
    <2>2. <<i, shown[i], shown[i]>> \in mapPoints'
        BY <1>1, <2>1 DEF Found
    <2> QED
        BY <2>1, <2>2 DEF PointsOf
<1>4. RoadsInPlace'
    <2>1. shown' = shown /\ views' = views + 1 /\ DrawRoads(shown', mapPoints', roadLines)
        BY DEF GeocodeDone
    <2> QED
        BY <2>1, DrawStep DEF MapInv
<1> QED
    BY <1>2, <1>3, <1>4 DEF MapInv

LEMMA RoadsStep ==
    ASSUME MapInv, NEW run \in roadRuns, RoadsFound(run)
    PROVE  MapInv'
<1>1. PointsInPlace' /\ StopsLookedUp'
    BY DEF RoadsFound, MapInv, PointsInPlace, StopsLookedUp, PointsOf
<1>2. UNCHANGED <<shown, mapPoints, views>> /\ PointsOf(shown, mapPoints)' = PointsOf(shown, mapPoints)
    BY DEF RoadsFound, PointsOf
<1>3. RoadsInPlace'
    BY <1>2 DEF RoadsFound, MapInv, RoadsInPlace
<1> QED
    BY <1>1, <1>3 DEF MapInv

\* The map of PlanningPage.jsx, for any customers, located or not, and any number of
\* look-ups under way: a stop is never drawn at another one's place, it has its point
\* and its road once nothing is under way, or the history says why not.
THEOREM DrawnInPlace == MapSpec => []StopsAreDrawnInPlace
<1>1. MapInit => MapInv
    BY DEF MapInit, MapInv, PointsInPlace, StopsLookedUp, RoadsInPlace
<1>2. MapInv /\ [MapNext]_map => MapInv'
    <2> SUFFICES ASSUME MapInv, [MapNext]_map PROVE MapInv'
        OBVIOUS
    <2>1. ASSUME NEW stops, ShowStops(stops) PROVE MapInv'
        BY <2>1, ShowStopsStep
    <2>2. CASE Invalidated
        BY <2>2, InvalidatedStep
    <2>3. ASSUME NEW run \in lookUps, GeocodeDone(run) PROVE MapInv'
        BY <2>3, GeocodeStep
    <2>4. ASSUME NEW run \in roadRuns, RoadsFound(run) PROVE MapInv'
        BY <2>4, RoadsStep
    <2>5. CASE UNCHANGED map
        <3>1. UNCHANGED <<shown, views, mapPoints, lookUps, roadLines, roadRuns, failed, forgotten, crossed>>
            BY <2>5 DEF map
        <3>2. PointsOf(shown, mapPoints)' = PointsOf(shown, mapPoints)
            BY <3>1
        <3>3. PointsInPlace' /\ StopsLookedUp'
            BY <3>1, <3>2 DEF MapInv, PointsInPlace, StopsLookedUp
        <3>4. RoadsInPlace'
            BY <3>1, <3>2 DEF MapInv, RoadsInPlace
        <3> QED
            BY <3>3, <3>4 DEF MapInv
    <2> QED
        BY <2>1, <2>2, <2>3, <2>4, <2>5 DEF MapNext
<1>3. MapInv => StopsAreDrawnInPlace
    <2> SUFFICES ASSUME MapInv PROVE StopsAreDrawnInPlace
        OBVIOUS
    <2> DEFINE points == PointsOf(shown, mapPoints)
    <2>1. \A p \in points : p[1] \in DOMAIN shown /\ p[3] = shown[p[1]]
        BY ShownPoints DEF MapInv
    <2>2. ASSUME lookUps = {}, ~failed, ~forgotten PROVE {p[1] : p \in points} = DOMAIN shown
        <3>1. \A i \in DOMAIN shown : <<i, shown[i], shown[i]>> \in points
            BY <2>2 DEF MapInv, StopsLookedUp
        <3> HIDE DEF points
        <3>2. \A i \in DOMAIN shown : \E p \in points : i = p[1]
            BY <3>1
        <3> QED
            BY <2>1, <3>2
    <2>3. ASSUME roadRuns = {}, shown # <<>>, ~crossed PROVE roadLines = Places(points)
        BY <2>3 DEF MapInv, RoadsInPlace
    <2> QED
        BY <2>1, <2>2, <2>3 DEF StopsAreDrawnInPlace
<1> QED
    BY <1>1, <1>2, <1>3, PTL DEF MapSpec

-----------------------------------------------------------------------------
(* EtaCascade: sums of shifts, modulo the day.                             *)

LEMMA OnceRound ==
    ASSUME NEW D \in Nat \ {0}, NEW x \in Int, NEW y \in 0 .. D - 1, NEW z \in 0 .. D - 1, D * x = y - z
    PROVE  y = z
<1>1. x = 0
    OBVIOUS
<1> QED
    BY <1>1

\* Shifting a time of the day and shifting the sum it stands for is the same.
LEMMA ShiftWraps ==
    ASSUME NEW D \in Nat \ {0}, NEW a \in Int, NEW s \in Int
    PROVE  ((a % D) + s) % D = (a + s) % D
<1> DEFINE r == a % D
           k == a \div D
           u == (r + s) \div D
           v == (a + s) \div D
           y == (r + s) % D
           z == (a + s) % D
<1>1. k \in Int /\ u \in Int /\ v \in Int /\ r \in Int /\ y \in 0 .. D - 1 /\ z \in 0 .. D - 1
    OBVIOUS
<1>2. a = D * k + r /\ r + s = D * u + y /\ a + s = D * v + z
    OBVIOUS
<1> HIDE DEF k, r, u, v, y, z
<1>3. D * (v - u - k) = y - z
    <2>1. D * v \in Int /\ D * u \in Int /\ D * k \in Int
        BY <1>1
    <2>2. D * (v - u - k) = D * v - D * u - D * k
        BY <1>1
    <2> QED
        BY <1>1, <1>2, <2>1, <2>2
<1>4. y = z
    <2> DEFINE x == v - u - k
    <2>1. x \in Int /\ D * x = y - z
        BY <1>1, <1>3
    <2> HIDE DEF x
    <2> QED
        BY <1>1, <2>1, OnceRound
<1> QED
    BY <1>4 DEF r, y, z

\* The recursive sum of ShiftsBefore exists, and grows by the entry that is appended.
SumsOf(x, n, g) == g = [m \in 0 .. n |-> IF m = 0 THEN 0 ELSE g[m - 1] + x[m]]

LEMMA SumExists ==
    ASSUME NEW N \in Nat, NEW x \in [1 .. N -> Int]
    PROVE  \E g : SumsOf(x, N, g)
<1> DEFINE Bad == {n \in 1 .. N : ~ \E g : SumsOf(x, n, g)}
<1> SUFFICES ASSUME N \in Bad PROVE FALSE
    <2>1. CASE N = 0
        <3>1. SumsOf(x, 0, [m \in 0 .. 0 |-> 0])
            BY DEF SumsOf
        <3> QED
            BY <2>1, <3>1
    <2>2. CASE N # 0
        BY <2>2
    <2> QED
        BY <2>1, <2>2
<1>1. PICK n \in Bad : \A m \in Bad : n <= m
    BY LeastMember
<1>2. n \in 1 .. N /\ n - 1 \in Nat /\ n - 1 \notin Bad
    BY <1>1
<1>3. \E g : SumsOf(x, n - 1, g)
    <2>1. CASE n = 1
        <3>1. SumsOf(x, 0, [m \in 0 .. 0 |-> 0])
            BY DEF SumsOf
        <3> QED
            BY <2>1, <3>1
    <2>2. CASE n # 1
        BY <1>2, <2>2
    <2> QED
        BY <2>1, <2>2
<1>4. PICK g : SumsOf(x, n - 1, g)
    BY <1>3
<1> DEFINE h == [m \in 0 .. n |-> IF m = n THEN g[n - 1] + x[n] ELSE g[m]]
<1>5. g = [m \in 0 .. n - 1 |-> IF m = 0 THEN 0 ELSE g[m - 1] + x[m]]
    BY <1>4 DEF SumsOf
<1>6. ASSUME NEW m \in 0 .. n PROVE h[m] = IF m = 0 THEN 0 ELSE h[m - 1] + x[m]
    <2>1. CASE m = n
        <3>1. h[m] = g[n - 1] + x[n] /\ h[n - 1] = g[n - 1]
            BY <1>2, <2>1
        <3> QED
            BY <1>2, <2>1, <3>1
    <2>2. CASE m # n
        <3>1. m \in 0 .. n - 1 /\ h[m] = g[m]
            BY <1>2, <2>2
        <3>2. m # 0 => m - 1 \in 0 .. n /\ h[m - 1] = g[m - 1]
            BY <1>2, <2>2
        <3>3. g[m] = IF m = 0 THEN 0 ELSE g[m - 1] + x[m]
            BY <1>5, <3>1
        <3> QED
            BY <3>1, <3>2, <3>3
    <2> QED
        BY <2>1, <2>2
<1>7. SumsOf(x, n, h)
    BY <1>6 DEF SumsOf
<1> QED
    BY <1>2, <1>7

GrowsBy(x, n, g) == \A m \in 0 .. n : g[m] = IF m = 0 THEN 0 ELSE g[m - 1] + x[m]

LEMMA SumIsOne ==
    ASSUME NEW n \in Nat, NEW x, x \in [1 .. n -> Int], NEW g, NEW h,
           GrowsBy(x, n, g), GrowsBy(x, n, h)
    PROVE  g[n] = h[n] /\ g[n] \in Int
<1> USE DEF GrowsBy
<1> DEFINE Bad == {m \in 1 .. n : g[m] # h[m] \/ g[m] \notin Int}
<1>1. g[0] = 0 /\ h[0] = 0
    OBVIOUS
<1>2. ASSUME Bad # {} PROVE FALSE
    <2>1. PICK k \in Bad : \A m \in Bad : k <= m
        <3>1. n \in Nat /\ Bad \subseteq 1 .. n
            OBVIOUS
        <3> HIDE DEF Bad
        <3> QED
            BY <1>2, <3>1, LeastMember
    <2>2. k \in 1 .. n /\ k - 1 \in 0 .. n /\ g[k] = g[k - 1] + x[k] /\ h[k] = h[k - 1] + x[k]
          /\ x[k] \in Int
        BY <2>1
    <2>3. g[k - 1] = h[k - 1] /\ g[k - 1] \in Int
        <3>1. k - 1 \notin Bad
            BY <2>1, <2>2
        <3> QED
            BY <1>1, <2>2, <3>1
    <2> QED
        BY <2>1, <2>2, <2>3
<1>3. CASE n = 0
    BY <1>1, <1>3
<1>4. CASE n # 0
    <2>1. n \in 1 .. n /\ n \notin Bad
        BY <1>2, <1>4
    <2> QED
        BY <2>1
<1> QED
    BY <1>3, <1>4

\* What a stop is moved by, entry by entry.
MovesOf(j, entries) == [n \in 1 .. Len(entries) |-> IF entries[n].from < j THEN entries[n].shift ELSE 0]

LEMMA SumIsAnyOf ==
    ASSUME NEW j \in Nat, NEW entries \in Seq(Entry), NEW g, SumsOf(MovesOf(j, entries), Len(entries), g)
    PROVE  /\ ShiftsBefore(j, entries) = g[Len(entries)]
           /\ ShiftsBefore(j, entries) \in Int
<1> DEFINE N == Len(entries)
           x == MovesOf(j, entries)
           Sums(f) == f = [n \in 0 .. N |-> IF n = 0 THEN 0
                         ELSE f[n - 1] + (IF entries[n].from < j THEN entries[n].shift ELSE 0)]
           sum == CHOOSE f : Sums(f)
<1>1. N \in Nat /\ x \in [1 .. N -> Int]
    <2>1. \A n \in 1 .. N : entries[n] \in Entry
        OBVIOUS
    <2> QED
        BY <2>1 DEF MovesOf, Entry
<1>2. \A n \in 1 .. N : x[n] = IF entries[n].from < j THEN entries[n].shift ELSE 0
    BY DEF MovesOf
<1>3. ShiftsBefore(j, entries) = sum[N]
    BY DEF ShiftsBefore
<1>4. Sums(g)
    <2>1. g = [n \in 0 .. N |-> IF n = 0 THEN 0 ELSE g[n - 1] + x[n]]
        BY DEF SumsOf
    <2>2. \A n \in 0 .. N : n # 0 => n \in 1 .. N
        BY <1>1
    <2> HIDE DEF N, x
    <2> QED
        BY <1>2, <2>1, <2>2
<1>5. Sums(sum)
    <2> HIDE DEF Sums
    <2> QED
        BY <1>4, Zenon
<1> HIDE DEF sum
<1>6. \A n \in 0 .. N : n # 0 => n \in 1 .. N
    BY <1>1
<1>7. GrowsBy(x, N, sum)
    <2> HIDE DEF N, x
    <2> QED
        BY <1>2, <1>5, <1>6 DEF GrowsBy
<1>8. GrowsBy(x, N, g)
    <2> HIDE DEF N, x
    <2> QED
        BY <1>2, <1>4, <1>6 DEF GrowsBy
<1> HIDE DEF N, x, Sums
<1>9. sum[N] = g[N] /\ sum[N] \in Int
    BY <1>1, <1>7, <1>8, SumIsOne
<1> QED
    BY <1>3, <1>9 DEF N

LEMMA NoShiftYet ==
    ASSUME NEW j \in Nat
    PROVE  ShiftsBefore(j, <<>>) = 0
<1>1. SumsOf(MovesOf(j, <<>>), Len(<<>>), [m \in 0 .. 0 |-> 0])
    BY DEF SumsOf
<1> QED
    BY <1>1, SumIsAnyOf

LEMMA ShiftIsInt ==
    ASSUME NEW j \in Nat, NEW entries \in Seq(Entry)
    PROVE  ShiftsBefore(j, entries) \in Int
<1>1. Len(entries) \in Nat /\ MovesOf(j, entries) \in [1 .. Len(entries) -> Int]
    <2>1. \A n \in 1 .. Len(entries) : entries[n] \in Entry
        OBVIOUS
    <2> QED
        BY <2>1 DEF MovesOf, Entry
<1>2. PICK g : SumsOf(MovesOf(j, entries), Len(entries), g)
    BY <1>1, SumExists
<1> QED
    BY <1>2, SumIsAnyOf

\* An entry that is appended moves the stops behind it.
LEMMA OneShiftMore ==
    ASSUME NEW j \in Nat, NEW entries \in Seq(Entry), NEW e \in Entry
    PROVE  ShiftsBefore(j, Append(entries, e))
             = ShiftsBefore(j, entries) + (IF e.from < j THEN e.shift ELSE 0)
<1> DEFINE longer == Append(entries, e)
           N == Len(entries)
           x == MovesOf(j, entries)
           y == MovesOf(j, longer)
<1>1. longer \in Seq(Entry) /\ N \in Nat /\ Len(longer) = N + 1 /\ N + 1 # 0
      /\ longer[N + 1] = e /\ \A n \in 1 .. N : longer[n] = entries[n]
    OBVIOUS
<1>2. y \in [1 .. N + 1 -> Int]
    <2>1. \A n \in 1 .. N + 1 : longer[n] \in Entry
        BY <1>1
    <2> HIDE DEF longer
    <2> QED
        BY <1>1, <2>1 DEF MovesOf, Entry
<1>3. (\A n \in 1 .. N : y[n] = x[n]) /\ y[N + 1] = IF e.from < j THEN e.shift ELSE 0
    <2> HIDE DEF longer
    <2> QED
        BY <1>1 DEF MovesOf
<1> HIDE DEF longer, x, y
<1>4. PICK g : SumsOf(y, N + 1, g)
    BY <1>1, <1>2, SumExists
<1>5. \A m \in 0 .. N + 1 : g[m] = IF m = 0 THEN 0 ELSE g[m - 1] + y[m]
    BY <1>4 DEF SumsOf
<1>6. ShiftsBefore(j, longer) = g[N + 1]
    BY <1>1, <1>4, SumIsAnyOf DEF y
<1>7. g[N + 1] = g[N] + y[N + 1]
    <2>1. N + 1 \in 0 .. N + 1 /\ (N + 1) - 1 = N
        BY <1>1
    <2> QED
        BY <1>1, <1>5, <2>1
<1> DEFINE h == [m \in 0 .. N |-> g[m]]
<1>8. SumsOf(x, N, h)
    <2>1. ASSUME NEW m \in 0 .. N PROVE h[m] = IF m = 0 THEN 0 ELSE h[m - 1] + x[m]
        <3>1. m \in 0 .. N + 1 /\ h[m] = g[m]
            BY <1>1
        <3>2. m # 0 => m - 1 \in 0 .. N /\ h[m - 1] = g[m - 1] /\ y[m] = x[m]
            BY <1>1, <1>3
        <3> HIDE DEF h
        <3> QED
            BY <1>5, <3>1, <3>2
    <2> QED
        BY <2>1 DEF SumsOf
<1>9. ShiftsBefore(j, entries) = h[N]
    BY <1>8, SumIsAnyOf DEF x, N
<1> QED
    BY <1>1, <1>3, <1>6, <1>7, <1>9 DEF longer

-----------------------------------------------------------------------------
(* EtaCascade: the invariant of the cascade.                               *)

\* What is to be saved moves the open stops behind the entry that is pushed with it.
MovesTimes(r) ==
    \/ r.entry = <<>> /\ r.copy.planned = r.base.planned
    \/ \E e \in Entry :
         /\ r.entry = <<e>>
         /\ \A j \in Stops : r.copy.planned[j] =
              IF j > e.from /\ r.copy.task[j] \notin doneStatuses
              THEN (r.base.planned[j] + e.shift) % DayLength ELSE r.base.planned[j]

\* A request does its own work only.
WorkOf(r) ==
    /\ r.stage = "idle" => r = Idle
    /\ r.stage # "ready" => r.entry = <<>>
    /\ r.kind \in {"complete", "fail"} => r.stop \in Stops /\ r.base.task[r.stop] = "OPEN"
    /\ r.stage = "ready" =>
         /\ r.copy.task = IF r.kind = "complete" THEN [r.base.task EXCEPT ![r.stop] = "COMPLETED"]
                                                 ELSE r.base.task
         /\ MovesTimes(r)
AllWork == \A q \in Handlers : WorkOf(req[q])

\* A request nobody raced still has the trip's times and tasks.
AsLoaded(r, t) == r.stage # "idle" /\ ~r.touched => r.base.task = t.task /\ r.base.planned = t.planned
Unraced == \A q \in Handlers : AsLoaded(req[q], trip)

\* A completion that is being saved has told the orders.
Promised(r, stops) == r.stage = "ready" /\ r.kind = "complete" => r.stop \in stops
OrdersTold == \A q \in Handlers : Promised(req[q], delivered)

\* An entry is of an incident that was filed, with the delay that was asked for.
EntryOf(e, filings) == e.incident # 0 => e.incident \in 1 .. Len(filings) /\ e.shift = filings[e.incident]
HistoryIsFiled == \A k \in 1 .. Len(history) : EntryOf(history[k], incidents)
PendingIsFiled == \A q \in Handlers : req[q].entry # <<>> => EntryOf(req[q].entry[1], incidents)
Apart(e, f) == e.incident # 0 => e.incident # f.incident
OneEntryEach == \A k, l \in 1 .. Len(history) : k # l => Apart(history[k], history[l])
PendingApart ==
    \A p \in Handlers : req[p].entry # <<>> =>
        /\ \A k \in 1 .. Len(history) : Apart(req[p].entry[1], history[k])
        /\ \A q \in Handlers : q # p /\ req[q].entry # <<>> => Apart(req[p].entry[1], req[q].entry[1])
Answered(n) ==
    \/ \E k \in 1 .. Len(history) : history[k].incident = n
    \/ \E q \in Handlers : req[q].entry # <<>> /\ req[q].entry[1].incident = n
EveryDelayAnswered == broken \/ \A n \in 1 .. Len(incidents) : incidents[n] # 0 => Answered(n)
Filing == /\ HistoryIsFiled /\ PendingIsFiled
          /\ OneEntryEach /\ PendingApart /\ EveryDelayAnswered

EtaInv == TypeOK /\ AllWork /\ Unraced /\ OrdersTold /\ Filing /\ DeliveredAsReported /\ ShiftsAddUp

-----------------------------------------------------------------------------
(* EtaCascade: what its operators make.                                    *)

LEMMA ShiftedIs ==
    ASSUME NEW t \in Trip, NEW from \in Int, NEW shift \in Int
    PROVE  /\ Shifted(t, from, shift) \in Trip
           /\ Shifted(t, from, shift).phase = t.phase
           /\ Shifted(t, from, shift).task = t.task
           /\ \A j \in Stops : Shifted(t, from, shift).planned[j] =
                IF j > from /\ t.task[j] \notin doneStatuses
                THEN (t.planned[j] + shift) % DayLength ELSE t.planned[j]
<1> DEFINE P == [j \in Stops |-> IF j > from /\ j \in Open(t)
                                 THEN (t.planned[j] + shift) % DayLength ELSE t.planned[j]]
<1>1. P \in [Stops -> Times]
    <2>1. ASSUME NEW j \in Stops PROVE P[j] \in Times
        <3>1. t.planned[j] \in Times /\ t.planned[j] \in Int /\ DayLength \in Nat \ {0}
            BY EtaAssumption DEF Trip, Times
        <3>2. (t.planned[j] + shift) % DayLength \in Times
            BY <3>1 DEF Times
        <3> QED
            BY <3>1, <3>2
    <2> QED
        BY <2>1
<1>2. Shifted(t, from, shift) = [t EXCEPT !.planned = P]
    BY DEF Shifted, Trip
<1>3. [t EXCEPT !.planned = P] \in Trip
      /\ [t EXCEPT !.planned = P].phase = t.phase
      /\ [t EXCEPT !.planned = P].task = t.task
      /\ [t EXCEPT !.planned = P].planned = P
    <2> HIDE DEF P
    <2> QED
        BY <1>1 DEF Trip
<1>4. \A j \in Stops : P[j] = IF j > from /\ t.task[j] \notin doneStatuses
                THEN (t.planned[j] + shift) % DayLength ELSE t.planned[j]
    BY DEF Open
<1> QED
    BY <1>2, <1>3, <1>4

LEMMA ReportedIs ==
    ASSUME NEW t \in Trip, NEW i \in Stops, NEW status \in TaskStatus
    PROVE  /\ Reported(t, i, status) \in Trip
           /\ Reported(t, i, status).task = [t.task EXCEPT ![i] = status]
           /\ Reported(t, i, status).planned = t.planned
BY DEF Reported, Trip

LEMMA SavedOverIs ==
    ASSUME TypeOK, NEW base \in Trip, NEW copy \in Trip
    PROVE  /\ SavedOver(base, copy) \in Trip
           /\ \A i \in Stops : SavedOver(base, copy).task[i] =
                IF copy.task[i] = base.task[i] THEN trip.task[i] ELSE copy.task[i]
           /\ \A i \in Stops : SavedOver(base, copy).planned[i] =
                IF copy.planned[i] = base.planned[i] THEN trip.planned[i] ELSE copy.planned[i]
BY DEF SavedOver, TypeOK, Trip

LEMMA ToldIs ==
    ASSUME TypeOK, NEW q \in Handlers, NEW moves \in BOOLEAN
    PROVE  /\ Told(q, moves) \in [Handlers -> Request]
           /\ \A p \in Handlers :
                \/ (p = q \/ req[p].stage = "idle") /\ Told(q, moves)[p] = req[p]
                \/ /\ p # q /\ req[p].stage # "idle"
                   /\ \E moved \in BOOLEAN :
                        Told(q, moves)[p] = [req[p] EXCEPT !.touched = TRUE, !.moved = moved]
<1>1. ASSUME NEW p \in Handlers, p # q, req[p].stage # "idle"
      PROVE  /\ Told(q, moves)[p] \in Request
             /\ \E moved \in BOOLEAN :
                  Told(q, moves)[p] = [req[p] EXCEPT !.touched = TRUE, !.moved = moved]
    <2>1. req[p] \in Request
        BY DEF TypeOK
    <2>2. PICK moved \in BOOLEAN : moved = (req[p].moved \/ moves)
        OBVIOUS
    <2>3. Told(q, moves)[p] = [req[p] EXCEPT !.touched = TRUE, !.moved = moved]
        BY <1>1, <2>1, <2>2 DEF Told, Request
    <2>4. [req[p] EXCEPT !.touched = TRUE, !.moved = moved] \in Request
        BY <2>1 DEF Request
    <2> QED
        BY <2>3, <2>4
<1>2. ASSUME NEW p \in Handlers, p = q \/ req[p].stage = "idle"
      PROVE  Told(q, moves)[p] = req[p] /\ Told(q, moves)[p] \in Request
    BY <1>2 DEF Told, TypeOK
<1>3. Told(q, moves) = [p \in Handlers |-> Told(q, moves)[p]]
    BY DEF Told
<1> QED
    BY <1>1, <1>2, <1>3

Says(e, from, shift, n) == e.from = from /\ e.shift = shift /\ e.incident = n

LEMMA RecordedIs ==
    ASSUME NEW from \in 0 .. NStops, NEW shift \in Int, NEW n \in Nat
    PROVE  \/ shift = 0 /\ Recorded(from, shift, n) = <<>>
           \/ \E e \in Entry : Says(e, from, shift, n) /\ Recorded(from, shift, n) = <<e>>
<1>1. [from |-> from, shift |-> shift, incident |-> n] \in Entry
    BY DEF Entry
<1> QED
    BY <1>1 DEF Recorded, Says

LEMMA CurrentTaskIs ==
    ASSUME NEW t \in Trip
    PROVE  CurrentTask(t) \in 1 .. NStops
<1>1. NStops \in 1 .. NStops
    BY EtaAssumption
<1>2. CASE Open(t) = {}
    BY <1>1, <1>2 DEF CurrentTask
<1>3. CASE Open(t) # {}
    <2>1. Open(t) \subseteq 1 .. NStops /\ NStops \in Nat
        BY EtaAssumption DEF Open, Stops
    <2>2. PICK k \in Open(t) : \A j \in Open(t) : k <= j
        BY <1>3, <2>1, LeastMember
    <2>3. Min(Open(t)) \in Open(t)
        BY <2>2 DEF Min
    <2> QED
        BY <1>3, <2>1, <2>3 DEF CurrentTask
<1> QED
    BY <1>2, <1>3

-----------------------------------------------------------------------------
(* EtaCascade: types and requests, and the forms its steps take.           *)

LEMMA IdleIsFine ==
    Planned \in Trip /\ Idle \in Request /\ WorkOf(Idle)
<1>1. Planned \in Trip
    BY EtaAssumption DEF Planned, Trip, TaskStatus
<1>2. <<>> \in Seq(Entry) /\ 0 \in 0 .. NStops
    BY EtaAssumption
<1>3. Idle \in Request
    BY <1>1, <1>2 DEF Idle, Request, Stage, Kind
<1>4. WorkOf(Idle)
    BY DEF WorkOf, Idle
<1> QED
    BY <1>1, <1>3, <1>4

Loaded(kind, i) == [Idle EXCEPT !.stage = "loaded", !.kind = kind, !.stop = i, !.base = trip, !.copy = trip]

LEMMA LoadedIsFine ==
    ASSUME TypeOK, NEW kind \in Kind, NEW i \in 0 .. NStops,
           kind \in {"complete", "fail"} => i \in Open(trip)
    PROVE  /\ Loaded(kind, i) \in Request /\ WorkOf(Loaded(kind, i))
           /\ Loaded(kind, i).stage = "loaded" /\ Loaded(kind, i).base = trip
           /\ Loaded(kind, i).kind = kind /\ Loaded(kind, i).stop = i
           /\ Loaded(kind, i).entry = <<>>
<1>1. Loaded(kind, i) \in Request
    BY IdleIsFine DEF Loaded, TypeOK, Request, Stage
<1>2. /\ Loaded(kind, i).stage = "loaded" /\ Loaded(kind, i).base = trip
      /\ Loaded(kind, i).kind = kind /\ Loaded(kind, i).stop = i
      /\ Loaded(kind, i).entry = <<>>
    BY DEF Loaded, Idle
<1>3. kind \in {"complete", "fail"} => i \in Stops /\ trip.task[i] = "OPEN"
    BY DEF Open, TypeOK, Trip, TaskStatus, doneStatuses
<1>4. WorkOf(Loaded(kind, i))
    BY <1>2, <1>3 DEF WorkOf
<1> QED
    BY <1>1, <1>2, <1>4

\* A request that has computed what it will save.
Ready(r, t, from, shift, n, asks) ==
    [r EXCEPT !.stage = "ready", !.copy = Shifted(t, from, shift),
              !.entry = Recorded(from, shift, n), !.asks = asks]

Reports(r, t) ==
    /\ t.planned = r.base.planned
    /\ t.task = IF r.kind = "complete" THEN [r.base.task EXCEPT ![r.stop] = "COMPLETED"] ELSE r.base.task

IsReady(s, r) ==
    /\ s \in Request /\ WorkOf(s) /\ s.stage = "ready" /\ s.kind = r.kind /\ s.stop = r.stop
    /\ s.base = r.base /\ s.touched = r.touched

LEMMA ComputedIsFine ==
    ASSUME NEW r \in Request, WorkOf(r), r.stage = "loaded", r.kind \in {"complete", "explain", "report"},
           NEW from \in 0 .. NStops, NEW shift \in Int, NEW n \in Nat, NEW t \in Trip, NEW asks \in BOOLEAN,
           Reports(r, t),
           NEW s, s = Ready(r, t, from, shift, n, asks)
    PROVE  IsReady(s, r) /\ s.entry = Recorded(from, shift, n)
<1> USE DEF Reports
<1> DEFINE copy == Shifted(t, from, shift)
           entry == Recorded(from, shift, n)
<1>1. /\ copy \in Trip /\ copy.task = t.task
      /\ \A j \in Stops : copy.planned[j] =
                IF j > from /\ t.task[j] \notin doneStatuses
                THEN (t.planned[j] + shift) % DayLength ELSE t.planned[j]
    <2>1. from \in Int
        BY EtaAssumption
    <2> QED
        BY <2>1, ShiftedIs
<1>2. \/ shift = 0 /\ entry = <<>>
      \/ \E e \in Entry : Says(e, from, shift, n) /\ entry = <<e>>
    BY RecordedIs
<1> HIDE DEF copy, entry
<1>3. entry \in Seq(Entry)
    <2>1. <<>> \in Seq(Entry) /\ \A e \in Entry : <<e>> \in Seq(Entry)
        OBVIOUS
    <2> QED
        BY <1>2, <2>1
<1>4. /\ s.stage = "ready" /\ s.kind = r.kind /\ s.stop = r.stop
      /\ s.base = r.base /\ s.touched = r.touched
      /\ s.entry = entry /\ s.copy = copy /\ s.asks = asks
    BY DEF Request, Ready, copy, entry
<1>5. s \in Request
    BY <1>1, <1>3 DEF Request, Stage, Ready, copy, entry
<1>6. MovesTimes(s)
    <2>1. CASE shift = 0 /\ entry = <<>>
        <3>1. \A j \in Stops : r.base.planned[j] \in Nat /\ r.base.planned[j] < DayLength
            BY EtaAssumption DEF Request, Trip, Times
        <3>2. ASSUME NEW j \in Stops PROVE copy.planned[j] = r.base.planned[j]
            <4>1. r.base.planned[j] \in Nat /\ r.base.planned[j] < DayLength /\ DayLength \in Nat
                BY <3>1, EtaAssumption
            <4>2. (r.base.planned[j] + shift) % DayLength = r.base.planned[j]
                BY <2>1, <4>1
            <4> QED
                BY <1>1, <4>2
        <3>3. copy.planned \in [Stops -> Times] /\ r.base.planned \in [Stops -> Times]
            BY <1>1 DEF Trip, Request
        <3>4. copy.planned = r.base.planned
            BY <3>2, <3>3
        <3> QED
            BY <1>4, <2>1, <3>4 DEF MovesTimes
    <2>2. CASE \E e \in Entry : Says(e, from, shift, n) /\ entry = <<e>>
        <3>1. PICK e \in Entry : e.from = from /\ e.shift = shift /\ entry = <<e>>
            BY <2>2 DEF Says
        <3>2. \A j \in Stops : copy.planned[j] =
                IF j > e.from /\ copy.task[j] \notin doneStatuses
                THEN (r.base.planned[j] + e.shift) % DayLength ELSE r.base.planned[j]
            BY <1>1, <3>1
        <3>3. \A j \in Stops : s.copy.planned[j] =
                IF j > e.from /\ s.copy.task[j] \notin doneStatuses
                THEN (s.base.planned[j] + e.shift) % DayLength ELSE s.base.planned[j]
            BY <1>4, <3>2
        <3> QED
            BY <1>4, <3>1, <3>3 DEF MovesTimes
    <2> QED
        BY <1>2, <2>1, <2>2
<1>7. WorkOf(s)
    BY <1>1, <1>4, <1>6 DEF WorkOf
<1> QED
    BY <1>4, <1>5, <1>7 DEF entry, IsReady

\* The others, when one request changes and when it tells them of its save.
OnlyOf(q) == \A p \in Handlers \ {q} : req'[p] = req[p]
SameButTold(r, s) ==
    /\ s.stage = r.stage /\ s.kind = r.kind /\ s.stop = r.stop
    /\ s.base = r.base /\ s.copy = r.copy /\ s.entry = r.entry
    /\ s.stage = "idle" \/ s.touched
OthersTold(q) == req'[q] = Idle /\ \A p \in Handlers \ {q} : SameButTold(req[p], req'[p])

LEMMA TouchedIsSame ==
    ASSUME NEW r \in Request, NEW moved \in BOOLEAN, NEW s, s = [r EXCEPT !.touched = TRUE, !.moved = moved]
    PROVE  SameButTold(r, s)
<1>1. s.touched = TRUE
    BY DEF Request
<1>2. /\ s.stage = r.stage /\ s.kind = r.kind /\ s.stop = r.stop
      /\ s.base = r.base /\ s.copy = r.copy /\ s.entry = r.entry
    BY DEF Request
<1> QED
    BY <1>1, <1>2 DEF SameButTold

LEMMA OneRequest ==
    ASSUME TypeOK, AllWork, NEW q \in Handlers, NEW r \in Request, WorkOf(r), req' = [req EXCEPT ![q] = r]
    PROVE  req' \in [Handlers -> Request] /\ AllWork' /\ req'[q] = r /\ OnlyOf(q)
<1>1. req' \in [Handlers -> Request] /\ req'[q] = r /\ OnlyOf(q)
    BY DEF TypeOK, OnlyOf
<1>2. \A p \in Handlers : WorkOf(req'[p])
    BY <1>1 DEF AllWork, OnlyOf
<1> QED
    BY <1>1, <1>2 DEF AllWork

LEMMA AllTold ==
    ASSUME TypeOK, AllWork, NEW q \in Handlers, NEW moves \in BOOLEAN, req' = [Told(q, moves) EXCEPT ![q] = Idle]
    PROVE  req' \in [Handlers -> Request] /\ AllWork' /\ OthersTold(q)
<1>1. Told(q, moves) \in [Handlers -> Request]
    BY ToldIs
<1>2. req' \in [Handlers -> Request] /\ req'[q] = Idle /\ \A p \in Handlers \ {q} : req'[p] = Told(q, moves)[p]
    BY <1>1, IdleIsFine
<1>3. \A p \in Handlers :
        \/ (p = q \/ req[p].stage = "idle") /\ Told(q, moves)[p] = req[p]
        \/ /\ p # q /\ req[p].stage # "idle"
           /\ \E moved \in BOOLEAN :
                Told(q, moves)[p] = [req[p] EXCEPT !.touched = TRUE, !.moved = moved]
    BY ToldIs
<1>4. ASSUME NEW p \in Handlers, p # q PROVE WorkOf(req'[p]) /\ SameButTold(req[p], req'[p])
    <2>1. req[p] \in Request /\ WorkOf(req[p])
        BY DEF TypeOK, AllWork
    <2>2. CASE req[p].stage = "idle" /\ Told(q, moves)[p] = req[p]
        BY <1>2, <1>4, <2>1, <2>2 DEF SameButTold
    <2>3. ASSUME req[p].stage # "idle", NEW moved \in BOOLEAN,
                 Told(q, moves)[p] = [req[p] EXCEPT !.touched = TRUE, !.moved = moved]
          PROVE  WorkOf(req'[p]) /\ SameButTold(req[p], req'[p])
        <3>1. req'[p] = [req[p] EXCEPT !.touched = TRUE, !.moved = moved]
            BY <1>2, <1>4, <2>3
        <3>2. SameButTold(req[p], req'[p])
            BY <2>1, <3>1, TouchedIsSame
        <3>3. WorkOf(req'[p])
            BY <2>1, <2>3, <3>2 DEF WorkOf, MovesTimes, SameButTold
        <3> QED
            BY <3>2, <3>3
    <2>4. \/ (p = q \/ req[p].stage = "idle") /\ Told(q, moves)[p] = req[p]
          \/ /\ p # q /\ req[p].stage # "idle"
             /\ \E moved \in BOOLEAN :
                  Told(q, moves)[p] = [req[p] EXCEPT !.touched = TRUE, !.moved = moved]
        BY <1>3, Zenon
    <2>5. CASE (p = q \/ req[p].stage = "idle") /\ Told(q, moves)[p] = req[p]
        BY <1>4, <2>2, <2>5
    <2>6. CASE /\ p # q /\ req[p].stage # "idle"
               /\ \E moved \in BOOLEAN :
                    Told(q, moves)[p] = [req[p] EXCEPT !.touched = TRUE, !.moved = moved]
        BY <2>3, <2>6
    <2> QED
        BY <2>4, <2>5, <2>6
<1>5. \A p \in Handlers : WorkOf(req'[p])
    BY <1>2, <1>4, IdleIsFine
<1> QED
    BY <1>2, <1>4, <1>5 DEF AllWork, OthersTold

\* The forms of a step.
Begun(q) ==
    /\ req[q].stage = "idle" /\ OnlyOf(q)
    /\ req'[q].stage = "loaded" /\ req'[q].entry = <<>> /\ req'[q].base = trip
    /\ UNCHANGED <<trip, history, delivered, incidents, raced, wiped, broken>>
Dropped(q) ==
    /\ req'[q] = Idle /\ OnlyOf(q) /\ broken' = TRUE
    /\ UNCHANGED <<trip, history, delivered, incidents, raced, wiped>>
Computed(q) ==
    /\ req[q].stage = "loaded" /\ OnlyOf(q)
    /\ req'[q].stage = "ready" /\ req'[q].kind = req[q].kind /\ req'[q].stop = req[q].stop
    /\ req'[q].base = req[q].base /\ req'[q].touched = req[q].touched
    /\ UNCHANGED <<trip, history, raced, wiped, broken>>
Delivering(q) ==
    /\ Computed(q) /\ req[q].kind = "complete"
    /\ delivered' = delivered \cup {req[q].stop}
    /\ incidents' = incidents \/ incidents' = Append(incidents, 0)
    /\ req'[q].entry = <<>> \/ \E e \in Entry : e.incident = 0 /\ req'[q].entry = <<e>>
Filed(q, shift) ==
    /\ Computed(q) /\ req[q].kind # "complete"
    /\ UNCHANGED delivered
    /\ incidents' = Append(incidents, shift)
    /\ \/ shift = 0 /\ req'[q].entry = <<>>
       \/ \E e \in Entry : /\ e.incident = Len(incidents) + 1 /\ e.shift = shift
                           /\ req'[q].entry = <<e>>
TripSaved(q) ==
    /\ req[q].stage = "ready" /\ OthersTold(q)
    /\ trip' = SavedOver(req[q].base, req[q].copy)
    /\ history' = history \o req[q].entry
    /\ raced' = (raced \/ req[q].touched)
    /\ UNCHANGED <<delivered, incidents, wiped, broken>>
FailedAt(q) ==
    /\ req[q].stage = "loaded" /\ req[q].kind = "fail" /\ OthersTold(q)
    /\ trip' = SavedOver(req[q].base, Reported(req[q].base, req[q].stop, "FAILED"))
    /\ raced' = (raced \/ req[q].touched)
    /\ UNCHANGED <<history, delivered, incidents, wiped, broken>>
Synced(q) ==
    /\ req[q].stage = "loaded" /\ req[q].kind = "sync" /\ OthersTold(q)
    /\ trip' = [trip EXCEPT !.task = Planned.task, !.planned = Plan]
    /\ raced' = (raced \/ trip.task # Planned.task \/ trip.phase # "BEFORE")
    /\ wiped' = (wiped \/ history # <<>>)
    /\ UNCHANGED <<history, delivered, incidents, broken>>
NothingToSave(q) ==
    /\ req[q].kind = "report" /\ req[q].entry = <<>>
    /\ req'[q] = Idle /\ OnlyOf(q)
    /\ UNCHANGED <<trip, history, delivered, incidents, raced, wiped, broken>>
Elsewhere ==
    /\ trip'.task = trip.task /\ trip'.planned = trip.planned
    /\ UNCHANGED <<history, delivered, incidents, req, raced, wiped, broken>>
StepForm ==
    \/ Elsewhere
    \/ \E q \in Handlers :
         \/ Begun(q) \/ Dropped(q) \/ TripSaved(q) \/ FailedAt(q) \/ Synced(q) \/ NothingToSave(q)
         \/ Delivering(q) \/ \E shift \in Int : Filed(q, shift)

WellKept == TypeOK /\ AllWork

LEMMA LoadsForm ==
    ASSUME WellKept, NEW q \in Handlers, NEW kind \in Kind, NEW i \in 0 .. NStops,
           kind \in {"complete", "fail"} => i \in Open(trip), Loads(q, kind, i),
           UNCHANGED <<trip, history, delivered, incidents, prompt, raced, wiped, broken>>
    PROVE  WellKept' /\ StepForm
<1>1. req' = [req EXCEPT ![q] = Loaded(kind, i)]
    BY DEF Loads, Loaded
<1>2. /\ Loaded(kind, i) \in Request /\ WorkOf(Loaded(kind, i))
      /\ Loaded(kind, i).stage = "loaded" /\ Loaded(kind, i).base = trip
      /\ Loaded(kind, i).entry = <<>>
    BY LoadedIsFine DEF WellKept
<1>3. req' \in [Handlers -> Request] /\ AllWork' /\ req'[q] = Loaded(kind, i) /\ OnlyOf(q)
    BY <1>1, <1>2, OneRequest DEF WellKept
<1>4. Begun(q)
    BY <1>2, <1>3 DEF Begun, Loads
<1>5. TypeOK'
    BY <1>3 DEF WellKept, TypeOK
<1> QED
    BY <1>3, <1>4, <1>5 DEF WellKept, StepForm

LEMMA SavesForm ==
    ASSUME WellKept, NEW q \in Handlers, Saves(q), UNCHANGED <<delivered, incidents, wiped, broken>>,
           prompt' \subseteq Stops
    PROVE  WellKept' /\ StepForm
<1>1. req[q] \in Request /\ req[q].touched \in BOOLEAN
    BY DEF WellKept, TypeOK, Request
<1>2. req' \in [Handlers -> Request] /\ AllWork' /\ OthersTold(q)
    <2>1. PICK moves \in BOOLEAN : moves = (req[q].entry # <<>>)
        OBVIOUS
    <2>2. req' = [Told(q, moves) EXCEPT ![q] = Idle]
        BY <2>1 DEF Saves
    <2> QED
        BY <2>2, AllTold DEF WellKept
<1>3. trip' \in Trip
    BY <1>1, SavedOverIs DEF Saves, WellKept, Request
<1>4. history' \in Seq(Entry)
    BY <1>1 DEF Saves, WellKept, TypeOK, Request
<1>5. raced' \in BOOLEAN
    BY <1>1 DEF Saves, WellKept, TypeOK
<1>6. TypeOK'
    BY <1>2, <1>3, <1>4, <1>5 DEF WellKept, TypeOK
<1>7. TripSaved(q)
    BY <1>2 DEF TripSaved, Saves
<1> QED
    BY <1>2, <1>6, <1>7 DEF WellKept, StepForm

\* What is made of a request that is at its work, and filed with it.
IsMade(q, from, shift, n) ==
    /\ req' \in [Handlers -> Request] /\ AllWork' /\ Computed(q)
    /\ \/ shift = 0 /\ req'[q].entry = <<>>
       \/ \E e \in Entry : Says(e, from, shift, n) /\ req'[q].entry = <<e>>

LEMMA MadeReady ==
    ASSUME TypeOK, AllWork, NEW q \in Handlers, NEW r \in Request, WorkOf(r), r = req[q],
           r.stage = "loaded", r.kind \in {"complete", "explain", "report"},
           NEW from \in 0 .. NStops, NEW shift \in Int, NEW n \in Nat, NEW t \in Trip, NEW asks \in BOOLEAN,
           Reports(r, t),
           req' = [req EXCEPT ![q] = Ready(r, t, from, shift, n, asks)],
           UNCHANGED <<trip, history, raced, wiped, broken>>
    PROVE  IsMade(q, from, shift, n)
<1> DEFINE s == Ready(r, t, from, shift, n, asks)
<1>1. IsReady(s, r) /\ s.entry = Recorded(from, shift, n)
    <2>1. \A x : x = s => IsReady(x, r) /\ x.entry = Recorded(from, shift, n)
        BY ComputedIsFine, Zenon
    <2> QED
        BY <2>1
<1>2. req' = [req EXCEPT ![q] = s]
    OBVIOUS
<1> HIDE DEF s
<1>3. req' \in [Handlers -> Request] /\ AllWork' /\ req'[q] = s /\ OnlyOf(q)
    BY <1>1, <1>2, OneRequest DEF IsReady
<1>4. Computed(q)
    BY <1>1, <1>3 DEF Computed, IsReady
<1>5. \/ shift = 0 /\ Recorded(from, shift, n) = <<>>
      \/ \E e \in Entry : Says(e, from, shift, n) /\ Recorded(from, shift, n) = <<e>>
    BY RecordedIs
<1> QED
    BY <1>1, <1>3, <1>4, <1>5 DEF IsMade

LEMMA FilesForm ==
    ASSUME WellKept, NEW q \in Handlers, NEW r, r = req[q],
           r.stage = "loaded", r.kind \in {"explain", "report"},
           NEW from \in 0 .. NStops, NEW shift \in Int, NEW n, n = Len(incidents) + 1,
           Files(q, from, shift)
    PROVE  WellKept' /\ StepForm
<1>1. TypeOK /\ AllWork /\ r \in Request /\ WorkOf(r) /\ n \in Nat
    BY DEF WellKept, TypeOK, AllWork
<1>2. /\ incidents' = Append(incidents, shift)
      /\ UNCHANGED <<trip, history, delivered, prompt, raced, wiped, broken>>
      /\ req' = [req EXCEPT ![q] = [r EXCEPT !.stage = "ready", !.copy = Shifted(r.base, from, shift),
                                             !.entry = Recorded(from, shift, n)]]
    BY DEF Files
<1>3. r.base \in Trip /\ r.asks \in BOOLEAN
    BY <1>1 DEF Request
<1>4. req' = [req EXCEPT ![q] = Ready(r, r.base, from, shift, n, r.asks)]
    BY <1>1, <1>2 DEF Request, Ready
<1>5. Reports(r, r.base) /\ r.kind \in {"complete", "explain", "report"}
    BY DEF Reports
<1>6. /\ req' \in [Handlers -> Request] /\ AllWork' /\ Computed(q)
      /\ \/ shift = 0 /\ req'[q].entry = <<>>
         \/ \E e \in Entry : Says(e, from, shift, n) /\ req'[q].entry = <<e>>
    <2>1. UNCHANGED <<trip, history, raced, wiped, broken>>
        BY <1>2
    <2>2. IsMade(q, from, shift, n)
        BY <1>1, <1>3, <1>4, <1>5, <2>1, MadeReady, Zenon
    <2> QED
        BY <2>2 DEF IsMade
<1>7. Filed(q, shift)
    BY <1>2, <1>6 DEF Filed, Says
<1>8. TypeOK'
    BY <1>2, <1>6 DEF WellKept, TypeOK
<1> QED
    BY <1>6, <1>7, <1>8 DEF WellKept, StepForm

LEMMA DeliversForm ==
    ASSUME WellKept, NEW q \in Handlers, NEW r, r = req[q], NEW day \in Day, NEW hour \in Clock,
           NEW far \in BOOLEAN, CompleteDelivers(q, day, hour, far)
    PROVE  WellKept' /\ StepForm
<1> DEFINE t == Reported(r.base, r.stop, "COMPLETED")
           shift == AutoShift(r.base, r.stop, day, hour)
           asks == Asks(r.base, r.stop, day, hour)
<1>1. TypeOK /\ AllWork /\ r \in Request /\ WorkOf(r) /\ r.stage = "loaded" /\ r.kind = "complete"
    BY DEF WellKept, TypeOK, AllWork, CompleteDelivers, At
<1>2. r.base \in Trip /\ r.stop \in Stops /\ r.stop \in 0 .. NStops
    BY <1>1, EtaAssumption DEF WorkOf, Request, Stops
<1>3. t \in Trip /\ t.task = [r.base.task EXCEPT ![r.stop] = "COMPLETED"] /\ t.planned = r.base.planned
    BY <1>2, ReportedIs DEF TaskStatus
<1>4. shift \in Int
    <2>1. hour \in Int /\ r.base.planned[r.stop] \in Int
        BY <1>2, EtaAssumption DEF Trip, Times
    <2> QED
        BY <2>1 DEF AutoShift, Deviation
<1>5. asks \in BOOLEAN
    BY DEF Asks
<1>6. /\ req' = [req EXCEPT ![q] = Ready(r, t, r.stop, shift, 0, asks)]
      /\ incidents' = incidents \/ incidents' = Append(incidents, 0)
      /\ delivered' = delivered \cup {r.stop}
      /\ UNCHANGED <<trip, history, prompt, raced, wiped, broken>>
    BY DEF CompleteDelivers, Ready
<1>7. Reports(r, t) /\ r.kind \in {"complete", "explain", "report"}
    BY <1>1, <1>3 DEF Reports
<1> HIDE DEF t, shift, asks
<1>8. /\ req' \in [Handlers -> Request] /\ AllWork' /\ Computed(q)
      /\ \/ shift = 0 /\ req'[q].entry = <<>>
         \/ \E e \in Entry : Says(e, r.stop, shift, 0) /\ req'[q].entry = <<e>>
    <2>1. UNCHANGED <<trip, history, raced, wiped, broken>> /\ 0 \in Nat
        BY <1>6
    <2>2. IsMade(q, r.stop, shift, 0)
        BY <1>1, <1>2, <1>3, <1>4, <1>5, <1>6, <1>7, <2>1, MadeReady, Zenon
    <2> QED
        BY <2>2 DEF IsMade
<1>9. Delivering(q)
    BY <1>1, <1>6, <1>8 DEF Delivering, Says
<1>10. TypeOK'
    <2>1. incidents \in Seq(Int) /\ delivered \subseteq Stops
        BY <1>1 DEF TypeOK
    <2>2. Append(incidents, 0) \in Seq(Int)
        BY <2>1
    <2>3. incidents' \in Seq(Int) /\ delivered' \subseteq Stops
        BY <1>2, <1>6, <2>1, <2>2
    <2> QED
        BY <1>1, <1>6, <1>8, <2>3 DEF TypeOK
<1> QED
    BY <1>8, <1>9, <1>10 DEF WellKept, StepForm

LEMMA EtaInit ==
    ASSUME CascadeInit PROVE WellKept
<1>1. \A q \in Handlers : req[q] = Idle
    BY DEF CascadeInit
<1>2. AllWork
    BY <1>1, IdleIsFine DEF AllWork
<1>3. req \in [Handlers -> Request]
    BY IdleIsFine DEF CascadeInit
<1>4. <<>> \in Seq(Entry) /\ <<>> \in Seq(Int)
    OBVIOUS
<1>5. TypeOK
    BY <1>3, <1>4, IdleIsFine DEF CascadeInit, TypeOK
<1> QED
    BY <1>2, <1>5 DEF WellKept

LEMMA EtaStepForms ==
    ASSUME WellKept, [CascadeNext]_cascade
    PROVE  WellKept' /\ StepForm
<1>a. TypeOK /\ AllWork /\ \A q \in Handlers : req[q] \in Request /\ WorkOf(req[q])
    BY DEF WellKept, TypeOK, AllWork
<1>1. CASE UNCHANGED cascade
    <2>1. Elsewhere /\ UNCHANGED req
        BY <1>1 DEF Elsewhere, cascade
    <2>2. TypeOK' /\ AllWork'
        BY <1>a, <1>1 DEF TypeOK, cascade, AllWork
    <2> QED
        BY <2>1, <2>2 DEF StepForm, WellKept
<1>2. ASSUME Start \/ Finish PROVE WellKept' /\ StepForm
    <2>1. PICK phase \in {"ROAD", "OVER"} : trip' = [trip EXCEPT !.phase = phase]
        BY <1>2 DEF Start, Finish
    <2>2. UNCHANGED <<history, delivered, incidents, prompt, req, raced, wiped, broken>>
        BY <1>2 DEF Start, Finish
    <2>3. trip' \in Trip /\ trip'.task = trip.task /\ trip'.planned = trip.planned
        BY <1>a, <2>1 DEF TypeOK, Trip
    <2>4. TypeOK' /\ AllWork'
        BY <1>a, <2>2, <2>3 DEF TypeOK, AllWork
    <2>5. Elsewhere
        BY <2>2, <2>3 DEF Elsewhere
    <2> QED
        BY <2>4, <2>5 DEF StepForm, WellKept
<1>3. ASSUME NEW q \in Handlers, Breaks(q) PROVE WellKept' /\ StepForm
    <2>1. /\ req' = [req EXCEPT ![q] = Idle] /\ broken' = TRUE
          /\ UNCHANGED <<trip, history, delivered, incidents, raced, wiped>>
          /\ prompt' \subseteq prompt
        BY <1>3 DEF Breaks
    <2>2. req' \in [Handlers -> Request] /\ AllWork' /\ req'[q] = Idle /\ OnlyOf(q)
        BY <1>a, <2>1, IdleIsFine, OneRequest
    <2>3. TypeOK'
        BY <1>a, <2>1, <2>2 DEF TypeOK
    <2>4. Dropped(q)
        BY <2>1, <2>2 DEF Dropped
    <2> QED
        BY <2>2, <2>3, <2>4 DEF StepForm, WellKept
<1>4. ASSUME NEW q \in Handlers, NEW i \in Stops, NEW kind \in {"complete", "fail"}, UpdateTaskLoads(q, i, kind)
      PROVE  WellKept' /\ StepForm
    <2>1. kind \in Kind /\ i \in 0 .. NStops /\ i \in Open(trip)
        BY <1>4, EtaAssumption DEF Kind, Stops, UpdateTaskLoads, NotClosed
    <2>2. Loads(q, kind, i) /\ UNCHANGED <<trip, history, delivered, incidents, prompt, raced, wiped, broken>>
        BY <1>4 DEF UpdateTaskLoads
    <2> QED
        BY <2>1, <2>2, LoadsForm
<1>5. ASSUME NEW q \in Handlers, NEW i \in Stops, ExplainLoads(q, i) PROVE WellKept' /\ StepForm
    <2>1. "explain" \in Kind /\ i \in 0 .. NStops /\ "explain" \notin {"complete", "fail"}
        BY EtaAssumption DEF Kind, Stops
    <2>2. Loads(q, "explain", i) /\ UNCHANGED <<trip, history, delivered, incidents, prompt, raced, wiped, broken>>
        BY <1>5 DEF ExplainLoads
    <2> QED
        BY <2>1, <2>2, LoadsForm
<1>6. ASSUME NEW q \in Handlers, ReportLoads(q) PROVE WellKept' /\ StepForm
    <2>1. "report" \in Kind /\ 0 \in 0 .. NStops /\ "report" \notin {"complete", "fail"}
        BY EtaAssumption DEF Kind
    <2>2. Loads(q, "report", 0) /\ UNCHANGED <<trip, history, delivered, incidents, prompt, raced, wiped, broken>>
        BY <1>6 DEF ReportLoads
    <2> QED
        BY <2>1, <2>2, LoadsForm
<1>7. ASSUME NEW q \in Handlers, SyncLoads(q) PROVE WellKept' /\ StepForm
    <2>1. "sync" \in Kind /\ 0 \in 0 .. NStops /\ "sync" \notin {"complete", "fail"}
        BY EtaAssumption DEF Kind
    <2>2. Loads(q, "sync", 0) /\ UNCHANGED <<trip, history, delivered, incidents, prompt, raced, wiped, broken>>
        BY <1>7 DEF SyncLoads
    <2> QED
        BY <2>1, <2>2, LoadsForm
<1>8. ASSUME NEW q \in Handlers, NEW day \in Day, NEW hour \in Clock, NEW far \in BOOLEAN,
             CompleteDelivers(q, day, hour, far)
      PROVE  WellKept' /\ StepForm
    BY <1>8, DeliversForm
<1>9. ASSUME NEW q \in Handlers, CompleteSaves(q) PROVE WellKept' /\ StepForm
    <2>1. req[q].stop \in Stops
        BY <1>a, <1>9 DEF CompleteSaves, At, WorkOf
    <2>2. Saves(q) /\ UNCHANGED <<delivered, incidents, wiped, broken>> /\ prompt' \subseteq Stops
        BY <1>a, <1>9, <2>1 DEF CompleteSaves, TypeOK
    <2> QED
        BY <2>2, SavesForm
<1>10. ASSUME NEW q \in Handlers, FailSaves(q) PROVE WellKept' /\ StepForm
    <2>1. req[q].stop \in Stops /\ req[q].base \in Trip /\ req[q].touched \in BOOLEAN
        BY <1>a, <1>10 DEF FailSaves, At, WorkOf, Request
    <2>2. Reported(req[q].base, req[q].stop, "FAILED") \in Trip
        BY <2>1 DEF Reported, Trip, TaskStatus
    <2>3. trip' \in Trip
        BY <1>a, <1>10, <2>1, <2>2 DEF FailSaves, SavedOver, TypeOK, Trip
    <2>4. req' = [Told(q, FALSE) EXCEPT ![q] = Idle]
        BY <1>10 DEF FailSaves
    <2>5. req' \in [Handlers -> Request] /\ AllWork' /\ OthersTold(q)
        BY <1>a, <2>4, AllTold
    <2>6. TypeOK'
        BY <1>a, <1>10, <2>1, <2>3, <2>5 DEF TypeOK, FailSaves
    <2>7. FailedAt(q)
        BY <1>10, <2>5 DEF FailedAt, FailSaves, At
    <2> QED
        BY <2>5, <2>6, <2>7 DEF StepForm, WellKept
<1>11. ASSUME NEW q \in Handlers, NEW shift \in Explained, ExplainFiles(q, shift) PROVE WellKept' /\ StepForm
    <2>1. PICK from : from = req[q].stop
        OBVIOUS
    <2>2. from \in 0 .. NStops /\ shift \in Int
        BY <1>a, <2>1, EtaAssumption DEF Request
    <2>3. /\ req[q].stage = "loaded" /\ req[q].kind \in {"explain", "report"}
          /\ Files(q, from, shift)
        BY <1>11, <2>1 DEF ExplainFiles, At
    <2> QED
        BY <2>2, <2>3, FilesForm
<1>12. ASSUME NEW q \in Handlers, ExplainSaves(q) PROVE WellKept' /\ StepForm
    <2>1. Saves(q) /\ UNCHANGED <<delivered, incidents, wiped, broken>> /\ prompt' \subseteq Stops
        BY <1>a, <1>12 DEF ExplainSaves, TypeOK
    <2> QED
        BY <2>1, SavesForm
<1>13. ASSUME NEW q \in Handlers, NEW delay \in Delays, ReportFiles(q, delay) PROVE WellKept' /\ StepForm
    <2>1. PICK base : base = req[q].base
        OBVIOUS
    <2>2. base \in Trip
        BY <1>a, <2>1 DEF Request
    <2>3. CurrentTask(base) \in 1 .. NStops
        BY <2>2, CurrentTaskIs
    <2>4. PICK from : from = CurrentTask(base) - 1
        OBVIOUS
    <2>5. from \in 0 .. NStops /\ delay \in Int
        BY <2>3, <2>4, EtaAssumption
    <2>6. /\ req[q].stage = "loaded" /\ req[q].kind \in {"explain", "report"}
          /\ Files(q, from, delay)
        BY <1>13, <2>1, <2>4 DEF ReportFiles, At
    <2> QED
        BY <2>5, <2>6, FilesForm
<1>14. ASSUME NEW q \in Handlers, ReportSaves(q) PROVE WellKept' /\ StepForm
    <2>1. CASE req[q].entry = <<>>
        <3>1. /\ req' = [req EXCEPT ![q] = Idle] /\ req[q].kind = "report"
              /\ UNCHANGED <<trip, history, raced, delivered, incidents, prompt, wiped, broken>>
            BY <1>14, <2>1 DEF ReportSaves, At
        <3>2. req' \in [Handlers -> Request] /\ AllWork' /\ req'[q] = Idle /\ OnlyOf(q)
            BY <1>a, <3>1, IdleIsFine, OneRequest
        <3>3. TypeOK'
            BY <1>a, <3>1, <3>2 DEF TypeOK
        <3>4. NothingToSave(q)
            BY <2>1, <3>1, <3>2 DEF NothingToSave
        <3> QED
            BY <3>2, <3>3, <3>4 DEF StepForm, WellKept
    <2>2. CASE req[q].entry # <<>>
        <3>1. Saves(q) /\ UNCHANGED <<delivered, incidents, wiped, broken>> /\ prompt' \subseteq Stops
            BY <1>a, <1>14, <2>2 DEF ReportSaves, TypeOK
        <3> QED
            BY <3>1, SavesForm
    <2> QED
        BY <2>1, <2>2
<1>15. ASSUME NEW q \in Handlers, SyncSaves(q) PROVE WellKept' /\ StepForm
    <2>1. trip' \in Trip
        BY <1>a, <1>15, IdleIsFine, EtaAssumption DEF SyncSaves, TypeOK, Trip, Planned
    <2>2. req' = [Told(q, TRUE) EXCEPT ![q] = Idle]
        BY <1>15 DEF SyncSaves
    <2>3. req' \in [Handlers -> Request] /\ AllWork' /\ OthersTold(q)
        BY <1>a, <2>2, AllTold
    <2>4. TypeOK'
        BY <1>a, <1>15, <2>1, <2>3 DEF TypeOK, SyncSaves
    <2>5. Synced(q)
        BY <1>15, <2>3 DEF Synced, SyncSaves, At
    <2> QED
        BY <2>3, <2>4, <2>5 DEF StepForm, WellKept
<1> QED
    BY <1>1, <1>2, <1>3, <1>4, <1>5, <1>6, <1>7, <1>8, <1>9, <1>10, <1>11, <1>12, <1>13, <1>14, <1>15
    DEF CascadeNext

-----------------------------------------------------------------------------
(* EtaCascade: the trip as requests know it, and the orders of its stops.  *)

LEMMA WorkIs ==
    ASSUME WellKept, NEW q \in Handlers
    PROVE  /\ req[q] \in Request /\ WorkOf(req[q])
           /\ req[q].base \in Trip /\ req[q].copy \in Trip
           /\ req[q].stage = "idle" => req[q].kind = "sync" /\ req[q].entry = <<>>
           /\ Idle.stage = "idle" /\ Idle.kind = "sync" /\ Idle.entry = <<>>
<1>1. req[q] \in Request /\ WorkOf(req[q])
    BY DEF WellKept, TypeOK, AllWork
<1>2. Idle.stage = "idle" /\ Idle.kind = "sync" /\ Idle.entry = <<>>
    BY DEF Idle
<1> QED
    BY <1>1, <1>2 DEF WorkOf, Request

LEMMA UnracedStep ==
    ASSUME WellKept, Unraced, StepForm
    PROVE  Unraced'
<1> SUFFICES ASSUME NEW p \in Handlers PROVE AsLoaded(req'[p], trip')
    BY DEF Unraced
<1>1. AsLoaded(req[p], trip) /\ AsLoaded(Idle, trip')
    BY DEF Unraced, AsLoaded, Idle
<1>2. CASE Elsewhere
    BY <1>1, <1>2 DEF Elsewhere, AsLoaded
<1>3. ASSUME NEW q \in Handlers, p # q, OnlyOf(q), UNCHANGED trip PROVE AsLoaded(req'[p], trip')
    BY <1>1, <1>3 DEF OnlyOf
<1>4. ASSUME NEW q \in Handlers, OthersTold(q) PROVE AsLoaded(req'[p], trip')
    BY <1>1, <1>4 DEF OthersTold, SameButTold, AsLoaded
<1>5. ASSUME NEW q \in Handlers, Begun(q) PROVE AsLoaded(req'[p], trip')
    BY <1>3, <1>5 DEF Begun, AsLoaded
<1>6. ASSUME NEW q \in Handlers, Dropped(q) \/ NothingToSave(q) PROVE AsLoaded(req'[p], trip')
    BY <1>1, <1>3, <1>6 DEF Dropped, NothingToSave
<1>7. ASSUME NEW q \in Handlers, Computed(q) PROVE AsLoaded(req'[p], trip')
    BY <1>1, <1>3, <1>7 DEF Computed, AsLoaded
<1>8. ASSUME NEW q \in Handlers, TripSaved(q) \/ FailedAt(q) \/ Synced(q) PROVE AsLoaded(req'[p], trip')
    BY <1>4, <1>8 DEF TripSaved, FailedAt, Synced
<1> QED
    BY <1>2, <1>5, <1>6, <1>7, <1>8 DEF StepForm, Delivering, Filed

LEMMA OrdersToldStep ==
    ASSUME WellKept, OrdersTold, StepForm
    PROVE  OrdersTold'
<1> SUFFICES ASSUME NEW p \in Handlers PROVE Promised(req'[p], delivered')
    BY DEF OrdersTold
<1>1. Promised(req[p], delivered) /\ Promised(Idle, delivered')
    BY DEF OrdersTold, Promised, Idle
<1>2. CASE Elsewhere
    BY <1>1, <1>2 DEF Elsewhere
<1>3. ASSUME NEW q \in Handlers, p # q, OnlyOf(q), delivered \subseteq delivered'
      PROVE  Promised(req'[p], delivered')
    BY <1>1, <1>3 DEF OnlyOf, Promised
<1>4. ASSUME NEW q \in Handlers, OthersTold(q), UNCHANGED delivered PROVE Promised(req'[p], delivered')
    BY <1>1, <1>4 DEF OthersTold, SameButTold, Promised
<1>5. ASSUME NEW q \in Handlers, Begun(q) PROVE Promised(req'[p], delivered')
    BY <1>3, <1>5 DEF Begun, Promised
<1>6. ASSUME NEW q \in Handlers, Dropped(q) \/ NothingToSave(q) PROVE Promised(req'[p], delivered')
    BY <1>1, <1>3, <1>6 DEF Dropped, NothingToSave
<1>7. ASSUME NEW q \in Handlers, Delivering(q) PROVE Promised(req'[p], delivered')
    BY <1>3, <1>7 DEF Computed, Delivering, Promised
<1>8. ASSUME NEW q \in Handlers, NEW shift \in Int, Filed(q, shift) PROVE Promised(req'[p], delivered')
    BY <1>3, <1>8 DEF Computed, Filed, Promised
<1>9. ASSUME NEW q \in Handlers, TripSaved(q) \/ FailedAt(q) \/ Synced(q) PROVE Promised(req'[p], delivered')
    BY <1>4, <1>9 DEF TripSaved, FailedAt, Synced
<1> QED
    BY <1>2, <1>5, <1>6, <1>7, <1>8, <1>9 DEF StepForm

\* What a save makes of a stop's task and of its time.
LEMMA SavedTask ==
    ASSUME WellKept, NEW q \in Handlers, TripSaved(q), NEW i \in Stops
    PROVE  /\ req[q].kind = "complete" /\ req[q].stop = i => trip'.task[i] = "COMPLETED"
           /\ ~(req[q].kind = "complete" /\ req[q].stop = i) => trip'.task[i] = trip.task[i]
<1>1. req[q] \in Request /\ WorkOf(req[q]) /\ req[q].base \in Trip /\ req[q].copy \in Trip
    BY WorkIs
<1>2. trip'.task[i] = IF req[q].copy.task[i] = req[q].base.task[i] THEN trip.task[i] ELSE req[q].copy.task[i]
    BY <1>1 DEF TripSaved, SavedOver
<1>3. /\ req[q].copy.task = IF req[q].kind = "complete" THEN [req[q].base.task EXCEPT ![req[q].stop] = "COMPLETED"]
                                                     ELSE req[q].base.task
      /\ req[q].kind = "complete" => req[q].base.task[req[q].stop] = "OPEN"
    BY <1>1 DEF WorkOf, TripSaved
<1> QED
    BY <1>1, <1>2, <1>3 DEF Trip

LEMMA FailedTask ==
    ASSUME WellKept, NEW q \in Handlers, FailedAt(q), NEW i \in Stops
    PROVE  /\ i = req[q].stop => trip'.task[i] = "FAILED"
           /\ i # req[q].stop => trip'.task[i] = trip.task[i]
           /\ trip'.planned[i] = trip.planned[i]
<1>1. /\ req[q] \in Request /\ req[q].base \in Trip
      /\ req[q].stop \in Stops /\ req[q].base.task[req[q].stop] = "OPEN"
    BY WorkIs DEF WorkOf, FailedAt
<1> DEFINE t == Reported(req[q].base, req[q].stop, "FAILED")
<1>2. t.task = [req[q].base.task EXCEPT ![req[q].stop] = "FAILED"] /\ t.planned = req[q].base.planned
    BY <1>1 DEF Reported, Trip
<1>3. trip' = SavedOver(req[q].base, t)
    BY DEF FailedAt
<1> HIDE DEF t
<1>4. /\ trip'.task[i] = IF t.task[i] = req[q].base.task[i] THEN trip.task[i] ELSE t.task[i]
      /\ trip'.planned[i] = IF t.planned[i] = req[q].base.planned[i] THEN trip.planned[i] ELSE t.planned[i]
    BY <1>3 DEF SavedOver
<1> QED
    BY <1>1, <1>2, <1>4 DEF Trip

LEMMA SyncedTask ==
    ASSUME WellKept, NEW q \in Handlers, Synced(q), NEW i \in Stops
    PROVE  /\ trip'.task[i] = "OPEN" /\ trip'.planned[i] = Plan[i]
           /\ ~raced' => trip'.task = trip.task
<1>1. trip \in Trip
    BY DEF WellKept, TypeOK
<1>2. trip'.task = Planned.task /\ trip'.planned = Plan
    BY <1>1 DEF Synced, Trip
<1>3. ~raced' => trip.task = Planned.task
    BY DEF Synced
<1>4. Planned.task[i] = "OPEN"
    BY DEF Planned
<1> QED
    BY <1>2, <1>3, <1>4

LEMMA DeliveredStep ==
    ASSUME WellKept, Unraced, OrdersTold, DeliveredAsReported, StepForm
    PROVE  DeliveredAsReported'
<1> SUFFICES ASSUME NEW i \in Stops
             PROVE  /\ trip'.task[i] = "COMPLETED" => i \in delivered'
                    /\ i \in delivered' /\ ~broken' /\ ~raced' =>
                         \/ trip'.task[i] = "COMPLETED"
                         \/ \E p \in Handlers : req'[p].kind = "complete" /\ req'[p].stop = i
    BY DEF DeliveredAsReported
<1> DEFINE At1(p) == req[p].kind = "complete" /\ req[p].stop = i
           At2(p) == req'[p].kind = "complete" /\ req'[p].stop = i
           Goal == /\ trip'.task[i] = "COMPLETED" => i \in delivered'
                   /\ i \in delivered' /\ ~broken' /\ ~raced' =>
                         trip'.task[i] = "COMPLETED" \/ \E p \in Handlers : At2(p)
<1>1. /\ trip.task[i] = "COMPLETED" => i \in delivered
      /\ i \in delivered /\ ~broken /\ ~raced =>
            trip.task[i] = "COMPLETED" \/ \E p \in Handlers : At1(p)
    BY DEF DeliveredAsReported
<1>2. CASE Elsewhere
    BY <1>1, <1>2 DEF Elsewhere
<1>3. ASSUME NEW q \in Handlers, Begun(q) PROVE Goal
    <2>1. \A p \in Handlers : At1(p) => At2(p)
        <3>1. ~At1(q)
            BY <1>3, WorkIs DEF Begun
        <3> QED
            BY <1>3, <3>1 DEF Begun, OnlyOf
    <2> QED
        BY <1>1, <1>3, <2>1 DEF Begun
<1>4. ASSUME NEW q \in Handlers, Dropped(q) PROVE Goal
    BY <1>1, <1>4 DEF Dropped
<1>5. ASSUME NEW q \in Handlers, NothingToSave(q) PROVE Goal
    <2>1. \A p \in Handlers : At1(p) => At2(p)
        BY <1>5 DEF NothingToSave, OnlyOf
    <2> QED
        BY <1>1, <1>5, <2>1 DEF NothingToSave
<1>6. ASSUME NEW q \in Handlers, Delivering(q) PROVE Goal
    <2>1. \A p \in Handlers : At1(p) => At2(p)
        BY <1>6 DEF Delivering, Computed, OnlyOf
    <2>2. i = req[q].stop => At2(q)
        BY <1>6 DEF Delivering, Computed
    <2> QED
        BY <1>1, <1>6, <2>1, <2>2 DEF Delivering, Computed
<1>7. ASSUME NEW q \in Handlers, NEW shift \in Int, Filed(q, shift) PROVE Goal
    <2>1. \A p \in Handlers : At1(p) => At2(p)
        BY <1>7 DEF Filed, Computed, OnlyOf
    <2> QED
        BY <1>1, <1>7, <2>1 DEF Filed, Computed
<1>8. ASSUME NEW q \in Handlers, TripSaved(q) PROVE Goal
    <2>1. \A p \in Handlers : p # q /\ At1(p) => At2(p)
        BY <1>8 DEF TripSaved, OthersTold, SameButTold
    <2>2. At1(q) => trip'.task[i] = "COMPLETED" /\ i \in delivered
        BY <1>8, SavedTask DEF TripSaved, OrdersTold, Promised
    <2>3. ~At1(q) => trip'.task[i] = trip.task[i]
        BY <1>8, SavedTask
    <2>4. UNCHANGED <<delivered, broken>> /\ (raced => raced')
        BY <1>8 DEF TripSaved
    <2> QED
        BY <1>1, <2>1, <2>2, <2>3, <2>4
<1>9. ASSUME NEW q \in Handlers, FailedAt(q) PROVE Goal
    <2>1. \A p \in Handlers : At1(p) => At2(p)
        BY <1>9 DEF FailedAt, OthersTold, SameButTold
    <2>2. ~raced' /\ trip.task[i] = "COMPLETED" => trip'.task[i] = "COMPLETED"
        <3>1. ~raced' => trip.task[req[q].stop] = "OPEN"
            BY <1>9, WorkIs DEF FailedAt, Unraced, AsLoaded, WorkOf
        <3> QED
            BY <1>9, <3>1, FailedTask
    <2>3. trip'.task[i] = "COMPLETED" => trip.task[i] = "COMPLETED"
        BY <1>9, FailedTask
    <2>4. UNCHANGED <<delivered, broken>> /\ (raced => raced')
        BY <1>9 DEF FailedAt
    <2> QED
        BY <1>1, <2>1, <2>2, <2>3, <2>4
<1>10. ASSUME NEW q \in Handlers, Synced(q) PROVE Goal
    <2>1. \A p \in Handlers : At1(p) => At2(p)
        BY <1>10 DEF Synced, OthersTold, SameButTold
    <2>2. trip'.task[i] # "COMPLETED" /\ (~raced' => trip'.task[i] = trip.task[i])
        BY <1>10, SyncedTask
    <2>3. UNCHANGED <<delivered, broken>> /\ (raced => raced')
        BY <1>10 DEF Synced
    <2> QED
        BY <1>1, <2>1, <2>2, <2>3
<1> QED
    BY <1>2, <1>3, <1>4, <1>5, <1>6, <1>7, <1>8, <1>9, <1>10 DEF StepForm

-----------------------------------------------------------------------------
(* EtaCascade: the times and the entries that explain them.                *)

StandsAt(j, t, entries) == t.planned[j] = (Plan[j] + ShiftsBefore(j, entries)) % DayLength
OpenIn(j, t) == t.task[j] \notin doneStatuses

\* What a save makes of the time of a stop, when the trip is as it was loaded.
LEMMA SavedTime ==
    ASSUME WellKept, NEW q \in Handlers, TripSaved(q), NEW j \in Stops, OpenIn(j, trip'),
           OpenIn(j, trip) => StandsAt(j, trip, history),
           req[q].base.task = trip.task, req[q].base.planned = trip.planned
    PROVE  StandsAt(j, trip', history')
<1>1. req[q] \in Request /\ WorkOf(req[q]) /\ req[q].base \in Trip /\ req[q].copy \in Trip
      /\ history \in Seq(Entry) /\ trip \in Trip
    BY WorkIs DEF WellKept, TypeOK
<1>2. /\ trip'.planned[j] = IF req[q].copy.planned[j] = req[q].base.planned[j]
                            THEN trip.planned[j] ELSE req[q].copy.planned[j]
      /\ trip'.task[j] = IF req[q].copy.task[j] = req[q].base.task[j]
                         THEN trip.task[j] ELSE req[q].copy.task[j]
    BY <1>1 DEF TripSaved, SavedOver
<1>3. trip'.planned[j] = req[q].copy.planned[j] /\ trip'.task[j] = req[q].copy.task[j]
    BY <1>2
<1>4. ~(req[q].kind = "complete" /\ req[q].stop = j) /\ OpenIn(j, trip)
    <2>1. ~(req[q].kind = "complete" /\ req[q].stop = j)
        BY SavedTask DEF OpenIn, doneStatuses
    <2> QED
        BY <2>1, SavedTask DEF OpenIn
<1>5. StandsAt(j, trip, history)
    BY <1>4
<1>6. MovesTimes(req[q]) /\ history' = history \o req[q].entry
    BY <1>1 DEF WorkOf, TripSaved
<1>7. CASE req[q].entry = <<>> /\ req[q].copy.planned = req[q].base.planned
    <2>1. history' = history
        BY <1>1, <1>6, <1>7
    <2> QED
        BY <1>3, <1>5, <1>7, <2>1 DEF StandsAt
<1>8. ASSUME NEW e \in Entry, req[q].entry = <<e>>,
             req[q].copy.planned[j] =
               IF j > e.from /\ req[q].copy.task[j] \notin doneStatuses
               THEN (req[q].base.planned[j] + e.shift) % DayLength ELSE req[q].base.planned[j]
      PROVE  StandsAt(j, trip', history')
    <2>1. history' = Append(history, e)
        BY <1>1, <1>6, <1>8
    <2>2. j \in Nat /\ e.from \in Nat /\ e.shift \in Int /\ DayLength \in Nat \ {0} /\ Plan[j] \in Int
        BY EtaAssumption DEF Stops, Entry, Times
    <2>3. PICK sum \in Int : sum = ShiftsBefore(j, history)
        BY <1>1, <2>2, ShiftIsInt
    <2>4. ShiftsBefore(j, history') = sum + (IF e.from < j THEN e.shift ELSE 0)
        BY <1>1, <2>1, <2>2, <2>3, OneShiftMore
    <2>5. trip.planned[j] = (Plan[j] + sum) % DayLength
        BY <1>5, <2>3 DEF StandsAt
    <2>6. CASE j > e.from
        <3>1. trip'.planned[j] = (trip.planned[j] + e.shift) % DayLength
            BY <1>3, <1>8, <2>6 DEF OpenIn
        <3>2. (((Plan[j] + sum) % DayLength) + e.shift) % DayLength = (Plan[j] + sum + e.shift) % DayLength
            <4>1. Plan[j] + sum \in Int
                BY <2>2
            <4> QED
                BY <2>2, <4>1, ShiftWraps
        <3>3. ShiftsBefore(j, history') = sum + e.shift
            BY <2>2, <2>4, <2>6
        <3>4. Plan[j] + sum + e.shift = Plan[j] + (sum + e.shift)
            BY <2>2
        <3> QED
            BY <2>5, <3>1, <3>2, <3>3, <3>4 DEF StandsAt
    <2>7. CASE ~(j > e.from)
        <3>1. trip'.planned[j] = trip.planned[j]
            BY <1>3, <1>8, <2>7
        <3>2. ShiftsBefore(j, history') = sum
            BY <2>2, <2>4, <2>7
        <3> QED
            BY <2>5, <3>1, <3>2 DEF StandsAt
    <2> QED
        BY <2>6, <2>7
<1> QED
    BY <1>6, <1>7, <1>8 DEF MovesTimes

LEMMA TimesStep ==
    ASSUME WellKept, Unraced, ShiftsAddUp, StepForm
    PROVE  ShiftsAddUp'
<1> DEFINE Stand == \A j \in Stops : OpenIn(j, trip) => StandsAt(j, trip, history)
           StandNow == \A j \in Stops : OpenIn(j, trip') => StandsAt(j, trip', history')
<1>1. FollowsHistory <=> Stand
    BY DEF FollowsHistory, Open, OpenIn, StandsAt
<1>2. FollowsHistory' <=> StandNow
    BY DEF FollowsHistory, Open, OpenIn, StandsAt
<1> SUFFICES ASSUME ~raced', ~wiped' PROVE StandNow
    BY <1>2 DEF ShiftsAddUp
<1>3. raced \/ wiped \/ Stand
    BY <1>1 DEF ShiftsAddUp
<1>4. ASSUME UNCHANGED <<history, raced, wiped>>, trip'.task = trip.task, trip'.planned = trip.planned
      PROVE  StandNow
    BY <1>3, <1>4 DEF OpenIn, StandsAt
<1>5. CASE Elsewhere
    BY <1>4, <1>5 DEF Elsewhere
<1>6. ASSUME NEW q \in Handlers,
             Begun(q) \/ Dropped(q) \/ NothingToSave(q) \/ Computed(q)
      PROVE  StandNow
    BY <1>4, <1>6 DEF Begun, Dropped, NothingToSave, Computed
<1>7. ASSUME NEW q \in Handlers, TripSaved(q) PROVE StandNow
    <2>1. ~raced /\ ~wiped /\ ~req[q].touched /\ req[q].stage # "idle"
        BY <1>7 DEF TripSaved
    <2>2. req[q].base.task = trip.task /\ req[q].base.planned = trip.planned
        BY <2>1 DEF Unraced, AsLoaded
    <2> QED
        BY <1>3, <1>7, <2>1, <2>2, SavedTime
<1>8. ASSUME NEW q \in Handlers, FailedAt(q) PROVE StandNow
    <2>1. ~raced /\ ~wiped /\ UNCHANGED history
        BY <1>8 DEF FailedAt
    <2> QED
        BY <1>3, <1>8, <2>1, FailedTask DEF OpenIn, StandsAt, doneStatuses
<1>9. ASSUME NEW q \in Handlers, Synced(q) PROVE StandNow
    <2>1. history = <<>> /\ UNCHANGED history
        BY <1>9 DEF Synced
    <2>2. ASSUME NEW j \in Stops PROVE StandsAt(j, trip', history')
        <3>1. j \in Nat /\ DayLength \in Nat \ {0} /\ Plan[j] \in 0 .. DayLength - 1
            BY EtaAssumption DEF Stops, Times
        <3>2. ShiftsBefore(j, history') = 0
            BY <2>1, <3>1, NoShiftYet
        <3>3. (Plan[j] + 0) % DayLength = Plan[j]
            BY <3>1
        <3> QED
            BY <1>9, <3>2, <3>3, SyncedTask DEF StandsAt
    <2> QED
        BY <2>2
<1> QED
    BY <1>5, <1>6, <1>7, <1>8, <1>9 DEF StepForm, Delivering, Filed

-----------------------------------------------------------------------------
(* EtaCascade: incidents and the entries they leave in EtaHistory.         *)

LEMMA EntryIs ==
    ASSUME WellKept, NEW q \in Handlers
    PROVE  /\ req[q].entry = <<>> \/ \E e \in Entry : req[q].entry = <<e>>
           /\ req[q].stage # "ready" => req[q].entry = <<>>
BY WorkIs DEF WorkOf, MovesTimes

LEMMA SameFilings ==
    ASSUME Filing, UNCHANGED <<history, incidents, broken>>,
           \A p \in Handlers : req'[p].entry = req[p].entry
    PROVE  Filing'
BY DEF Filing, HistoryIsFiled, PendingIsFiled, OneEntryEach, PendingApart, EveryDelayAnswered, Answered

LEMMA DroppedFiling ==
    ASSUME WellKept, Filing, NEW q \in Handlers, Dropped(q)
    PROVE  Filing'
<1>1. UNCHANGED <<history, incidents>> /\ broken'
    BY DEF Dropped
<1>2. \A p \in Handlers : req'[p].entry # <<>> => req'[p].entry = req[p].entry
    BY WorkIs DEF Dropped, OnlyOf
<1>3. HistoryIsFiled' /\ OneEntryEach' /\ EveryDelayAnswered'
    BY <1>1 DEF Filing, HistoryIsFiled, OneEntryEach, EveryDelayAnswered
<1>4. PendingIsFiled'
    BY <1>1, <1>2 DEF Filing, PendingIsFiled
<1>5. PendingApart'
    BY <1>1, <1>2 DEF Filing, PendingApart
<1> QED
    BY <1>3, <1>4, <1>5 DEF Filing

\* An incident that is filed, at most one of them.
LEMMA OneMoreFiled ==
    ASSUME TypeOK, NEW e \in Entry, EntryOf(e, incidents),
           NEW shift \in Int, incidents' = incidents \/ incidents' = Append(incidents, shift)
    PROVE  EntryOf(e, incidents')
BY DEF EntryOf, TypeOK

LEMMA MoreFiling ==
    ASSUME WellKept, Filing, NEW q \in Handlers, Computed(q), NEW shift \in Int,
           incidents' = incidents \/ incidents' = Append(incidents, shift),
           \/ req'[q].entry = <<>> /\ shift = 0
           \/ \E e \in Entry : /\ req'[q].entry = <<e>>
                               /\ \/ e.incident = 0 /\ shift = 0
                                  \/ /\ e.incident = Len(incidents) + 1 /\ e.shift = shift
                                     /\ incidents' = Append(incidents, shift)
    PROVE  Filing'
<1>1. /\ UNCHANGED <<history, broken>> /\ OnlyOf(q) /\ req[q].entry = <<>>
      /\ history \in Seq(Entry) /\ incidents \in Seq(Int) /\ TypeOK
    BY EntryIs DEF Computed, WellKept, TypeOK
<1>2. /\ \A p \in Handlers : p # q => req'[p].entry = req[p].entry
      /\ \A p \in Handlers : req[p].entry # <<>> => p # q
    BY <1>1 DEF OnlyOf
<1>3. \A k \in 1 .. Len(history) : history[k] \in Entry /\ EntryOf(history[k], incidents)
    BY <1>1 DEF Filing, HistoryIsFiled
<1>4. \A p \in Handlers : req[p].entry # <<>> => req[p].entry[1] \in Entry /\ EntryOf(req[p].entry[1], incidents)
    <2> SUFFICES ASSUME NEW p \in Handlers, req[p].entry # <<>>
                 PROVE  req[p].entry[1] \in Entry /\ EntryOf(req[p].entry[1], incidents)
        OBVIOUS
    <2>1. PICK e \in Entry : req[p].entry = <<e>>
        BY EntryIs
    <2>2. req[p].entry[1] = e
        BY <2>1
    <2> QED
        BY <2>2 DEF Filing, PendingIsFiled
<1>5. HistoryIsFiled'
    BY <1>1, <1>3, OneMoreFiled DEF HistoryIsFiled
<1>6. \A p \in Handlers : req[p].entry # <<>> => EntryOf(req[p].entry[1], incidents')
    BY <1>1, <1>4, OneMoreFiled
<1>7. OneEntryEach'
    BY <1>1 DEF Filing, OneEntryEach
<1>8. PICK filings : filings = incidents'
    OBVIOUS
<1>9. /\ Len(incidents) \in Nat /\ filings \in Seq(Int)
      /\ filings = incidents \/ Len(filings) = Len(incidents) + 1
      /\ filings # incidents => filings[Len(incidents) + 1] = shift
      /\ \A n \in 1 .. Len(incidents) : filings[n] = incidents[n]
    <2>1. CASE incidents' = incidents
        BY <1>1, <1>8, <2>1
    <2>2. CASE incidents' = Append(incidents, shift)
        <3>1. /\ Append(incidents, shift) \in Seq(Int) /\ Len(incidents) \in Nat
              /\ Len(Append(incidents, shift)) = Len(incidents) + 1
              /\ Append(incidents, shift)[Len(incidents) + 1] = shift
              /\ \A n \in 1 .. Len(incidents) : Append(incidents, shift)[n] = incidents[n]
            BY <1>1
        <3> QED
            BY <1>8, <2>2, <3>1
    <2> QED
        BY <2>1, <2>2
<1>10. CASE req'[q].entry = <<>> /\ shift = 0
    <2>1. \A p \in Handlers : req'[p].entry = req[p].entry
        BY <1>1, <1>2, <1>10
    <2>2. PendingIsFiled' /\ PendingApart'
        BY <1>1, <1>6, <2>1 DEF Filing, PendingIsFiled, PendingApart
    <2>3. EveryDelayAnswered'
        <3>1. \A n \in 1 .. Len(incidents) : Answered(n) => Answered(n)'
            BY <1>1, <2>1 DEF Answered
        <3>2. broken' \/ \A n \in 1 .. Len(filings) : filings[n] # 0 => Answered(n)'
            BY <1>1, <1>9, <1>10, <3>1 DEF Filing, EveryDelayAnswered
        <3> QED
            BY <1>8, <3>2 DEF EveryDelayAnswered
    <2> QED
        BY <1>5, <1>7, <2>2, <2>3 DEF Filing
<1>11. ASSUME NEW e \in Entry, req'[q].entry = <<e>>,
              \/ e.incident = 0 /\ shift = 0
              \/ /\ e.incident = Len(incidents) + 1 /\ e.shift = shift
                 /\ filings = Append(incidents, shift)
       PROVE  Filing'
    <2>1. EntryOf(e, filings)
        BY <1>1, <1>9, <1>11 DEF EntryOf
    <2>2. \A f : EntryOf(f, incidents) => Apart(e, f) /\ Apart(f, e)
        BY <1>9, <1>11 DEF EntryOf, Apart
    <2>3. PendingIsFiled'
        BY <1>2, <1>6, <1>8, <1>11, <2>1 DEF PendingIsFiled
    <2>4. PendingApart'
        <3> SUFFICES ASSUME NEW p \in Handlers, req'[p].entry # <<>>
                     PROVE  /\ \A k \in 1 .. Len(history) : Apart(req'[p].entry[1], history[k])
                            /\ \A r \in Handlers : r # p /\ req'[r].entry # <<>> =>
                                 Apart(req'[p].entry[1], req'[r].entry[1])
            BY <1>1 DEF PendingApart
        <3>1. CASE p = q
            BY <1>2, <1>3, <1>4, <1>11, <2>2, <3>1
        <3>2. CASE p # q
            <4>1. req'[p].entry = req[p].entry /\ req[p].entry # <<>>
                BY <1>2, <3>2
            <4>2. \A k \in 1 .. Len(history) : Apart(req'[p].entry[1], history[k])
                BY <4>1 DEF Filing, PendingApart
            <4>3. ASSUME NEW r \in Handlers, r # p, req'[r].entry # <<>>
                  PROVE  Apart(req'[p].entry[1], req'[r].entry[1])
                <5>1. CASE r = q
                    BY <1>4, <1>11, <2>2, <4>1, <5>1
                <5>2. CASE r # q
                    BY <1>2, <4>1, <4>3, <5>2 DEF Filing, PendingApart
                <5> QED
                    BY <5>1, <5>2
            <4> QED
                BY <4>2, <4>3
        <3> QED
            BY <3>1, <3>2
    <2>5. EveryDelayAnswered'
        <3>1. \A n \in 1 .. Len(incidents) : Answered(n) => Answered(n)'
            BY <1>1, <1>2 DEF Answered
        <3>2. Answered(e.incident)'
            <4>1. req'[q].entry # <<>> /\ req'[q].entry[1] = e
                BY <1>11
            <4> QED
                BY <4>1 DEF Answered
        <3>3. ASSUME NEW n \in 1 .. Len(filings), filings[n] # 0, ~broken PROVE Answered(n)'
            <4>1. CASE n \in 1 .. Len(incidents)
                BY <1>9, <3>1, <3>3, <4>1 DEF Filing, EveryDelayAnswered
            <4>2. CASE n \notin 1 .. Len(incidents)
                <5>1. n = Len(incidents) + 1 /\ filings # incidents
                    BY <1>9, <4>2
                <5>2. e.incident = n
                    BY <1>9, <1>11, <3>3, <5>1
                <5> QED
                    BY <3>2, <5>2
            <4> QED
                BY <4>1, <4>2
        <3> QED
            BY <1>1, <1>8, <3>3 DEF EveryDelayAnswered
    <2> QED
        BY <1>5, <1>7, <2>3, <2>4, <2>5 DEF Filing
<1> QED
    BY <1>8, <1>10, <1>11

LEMMA SavedFiling ==
    ASSUME WellKept, Filing, NEW q \in Handlers, TripSaved(q)
    PROVE  Filing'
<1>1. /\ history \in Seq(Entry) /\ UNCHANGED <<incidents, broken>>
      /\ history' = history \o req[q].entry /\ req'[q].entry = <<>>
      /\ \A p \in Handlers : p # q => req'[p].entry = req[p].entry
    BY WorkIs DEF WellKept, TypeOK, TripSaved, OthersTold, SameButTold
<1>2. CASE req[q].entry = <<>>
    <2>1. history' = history
        BY <1>1, <1>2
    <2> QED
        BY <1>1, <1>2, <2>1, SameFilings
<1>3. ASSUME NEW e \in Entry, req[q].entry = <<e>> PROVE Filing'
    <2>1. PICK entries : entries = history'
        OBVIOUS
    <2>2. /\ entries = Append(history, e) /\ Len(history) \in Nat
          /\ Len(entries) = Len(history) + 1 /\ entries[Len(history) + 1] = e
          /\ \A k \in 1 .. Len(history) : entries[k] = history[k]
          /\ \A k \in 1 .. Len(entries) : k = Len(history) + 1 \/ k \in 1 .. Len(history)
        <3>1. history \o <<e>> = Append(history, e) /\ Len(history) \in Nat
            BY <1>1
        <3>2. /\ Len(Append(history, e)) = Len(history) + 1 /\ Append(history, e)[Len(history) + 1] = e
              /\ \A k \in 1 .. Len(history) : Append(history, e)[k] = history[k]
            BY <1>1
        <3>3. entries = Append(history, e)
            BY <1>1, <1>3, <2>1, <3>1
        <3>4. \A k \in 1 .. Len(history) + 1 : k = Len(history) + 1 \/ k \in 1 .. Len(history)
            BY <3>1
        <3>5. Len(entries) = Len(history) + 1 /\ entries[Len(history) + 1] = e
            BY <3>2, <3>3, Zenon
        <3>6. \A k \in 1 .. Len(history) : entries[k] = history[k]
            BY <3>2, <3>3, Zenon
        <3>7. \A k \in 1 .. Len(entries) : k = Len(history) + 1 \/ k \in 1 .. Len(history)
            BY <3>4, <3>5, Zenon
        <3> QED
            BY <3>1, <3>3, <3>5, <3>6, <3>7, Zenon
    <2>3. EntryOf(e, incidents) /\ \A k \in 1 .. Len(history) : Apart(e, history[k])
        <3>1. req[q].entry # <<>> /\ req[q].entry[1] = e
            BY <1>3
        <3>2. EntryOf(e, incidents)
            BY <3>1 DEF Filing, PendingIsFiled
        <3>3. \A k \in 1 .. Len(history) : Apart(req[q].entry[1], history[k])
            BY <3>1 DEF Filing, PendingApart
        <3> QED
            BY <3>1, <3>2, <3>3
    <2>4. ASSUME NEW k \in 1 .. Len(history) PROVE Apart(history[k], e)
        BY <2>3, <2>4 DEF Apart
    <2>5. \A p \in Handlers : p # q /\ req[p].entry # <<>> => Apart(req[p].entry[1], e)
        BY <1>3 DEF Filing, PendingApart
    <2>6. HistoryIsFiled'
        BY <1>1, <2>1, <2>2, <2>3 DEF Filing, HistoryIsFiled
    <2>7. PendingIsFiled'
        BY <1>1 DEF Filing, PendingIsFiled
    <2>8. OneEntryEach'
        <3>1. \A k, l \in 1 .. Len(entries) : k # l => Apart(entries[k], entries[l])
            BY <2>2, <2>3, <2>4 DEF Filing, OneEntryEach
        <3> QED
            BY <2>1, <3>1 DEF OneEntryEach
    <2>9. PendingApart'
        <3> SUFFICES ASSUME NEW p \in Handlers, req'[p].entry # <<>>
                     PROVE  /\ \A k \in 1 .. Len(entries) : Apart(req'[p].entry[1], entries[k])
                            /\ \A r \in Handlers : r # p /\ req'[r].entry # <<>> =>
                                 Apart(req'[p].entry[1], req'[r].entry[1])
            BY <2>1 DEF PendingApart
        <3>1. p # q /\ req'[p].entry = req[p].entry /\ req[p].entry # <<>>
            BY <1>1
        <3>2. \A k \in 1 .. Len(entries) : Apart(req'[p].entry[1], entries[k])
            BY <2>2, <2>5, <3>1 DEF Filing, PendingApart
        <3>3. \A r \in Handlers : r # p /\ req'[r].entry # <<>> => Apart(req'[p].entry[1], req'[r].entry[1])
            BY <1>1, <3>1 DEF Filing, PendingApart
        <3> QED
            BY <3>2, <3>3
    <2>10. EveryDelayAnswered'
        <3>1. ASSUME NEW n, Answered(n) PROVE Answered(n)'
            <4>1. CASE \E k \in 1 .. Len(history) : history[k].incident = n
                <5>1. \E k \in 1 .. Len(entries) : entries[k].incident = n
                    BY <2>2, <4>1
                <5> QED
                    BY <2>1, <5>1 DEF Answered
            <4>2. ASSUME NEW p \in Handlers, req[p].entry # <<>>, req[p].entry[1].incident = n
                  PROVE  Answered(n)'
                <5>1. CASE p = q
                    <6>1. Len(entries) \in 1 .. Len(entries) /\ entries[Len(entries)].incident = n
                        BY <1>3, <2>2, <4>2, <5>1
                    <6> QED
                        BY <2>1, <6>1 DEF Answered
                <5>2. CASE p # q
                    BY <1>1, <4>2, <5>2 DEF Answered
                <5> QED
                    BY <5>1, <5>2
            <4> QED
                BY <3>1, <4>1, <4>2 DEF Answered
        <3> QED
            BY <1>1, <3>1 DEF Filing, EveryDelayAnswered
    <2> QED
        BY <2>6, <2>7, <2>8, <2>9, <2>10 DEF Filing
<1> QED
    BY <1>2, <1>3, EntryIs

LEMMA FilingStep ==
    ASSUME WellKept, Filing, StepForm
    PROVE  Filing'
<1>1. CASE Elsewhere
    BY <1>1, SameFilings DEF Elsewhere
<1>2. ASSUME NEW q \in Handlers, Begun(q) \/ NothingToSave(q) PROVE Filing'
    <2>1. req'[q].entry = req[q].entry
        BY <1>2, WorkIs DEF Begun, NothingToSave
    <2> QED
        BY <1>2, <2>1, SameFilings DEF Begun, NothingToSave, OnlyOf
<1>3. ASSUME NEW q \in Handlers, FailedAt(q) \/ Synced(q) PROVE Filing'
    <2>1. req'[q].entry = req[q].entry
        BY <1>3, WorkIs, EntryIs DEF FailedAt, Synced, OthersTold
    <2> QED
        BY <1>3, <2>1, SameFilings DEF FailedAt, Synced, OthersTold, SameButTold
<1>4. ASSUME NEW q \in Handlers, Dropped(q) PROVE Filing'
    BY <1>4, DroppedFiling
<1>5. ASSUME NEW q \in Handlers, Delivering(q) PROVE Filing'
    <2>1. /\ Computed(q) /\ 0 \in Int /\ (incidents' = incidents \/ incidents' = Append(incidents, 0))
          /\ \/ req'[q].entry = <<>> /\ 0 = 0
             \/ \E e \in Entry : req'[q].entry = <<e>> /\ e.incident = 0
        BY <1>5 DEF Delivering
    <2> QED
        BY <2>1, MoreFiling
<1>6. ASSUME NEW q \in Handlers, NEW shift \in Int, Filed(q, shift) PROVE Filing'
    <2>1. /\ Computed(q) /\ incidents' = Append(incidents, shift)
          /\ \/ req'[q].entry = <<>> /\ shift = 0
             \/ \E e \in Entry : /\ req'[q].entry = <<e>>
                                 /\ e.incident = Len(incidents) + 1 /\ e.shift = shift
        BY <1>6 DEF Filed
    <2> QED
        BY <2>1, MoreFiling
<1>7. ASSUME NEW q \in Handlers, TripSaved(q) PROVE Filing'
    BY <1>7, SavedFiling
<1> QED
    BY <1>1, <1>2, <1>3, <1>4, <1>5, <1>6, <1>7 DEF StepForm

\* What the entries say of the incidents.
LEMMA FilingMeans ==
    ASSUME WellKept, Filing
    PROVE  IncidentsShiftOnce
<1> SUFFICES ASSUME NEW n \in 1 .. Len(incidents)
             PROVE  LET entries == {k \in 1 .. Len(history) : history[k].incident = n}
                        pending == \E q \in Handlers : req[q].entry # <<>> /\ req[q].entry[1].incident = n
                    IN  /\ \A k \in entries : history[k].shift = incidents[n]
                        /\ Cardinality(entries) <= 1
                        /\ incidents[n] # 0 /\ ~broken /\ ~pending => entries # {}
    BY DEF IncidentsShiftOnce
<1> DEFINE entries == {k \in 1 .. Len(history) : history[k].incident = n}
           pending == \E q \in Handlers : req[q].entry # <<>> /\ req[q].entry[1].incident = n
<1>1. n # 0 /\ Len(incidents) \in Nat
    BY DEF WellKept, TypeOK
<1>2. \A k \in entries : history[k].shift = incidents[n]
    BY <1>1 DEF Filing, HistoryIsFiled, EntryOf
<1>3. Cardinality(entries) <= 1
    <2>1. \A k, l \in entries : k = l
        BY <1>1 DEF Filing, OneEntryEach, Apart
    <2>2. CASE entries = {}
        BY <2>2, FS_EmptySet
    <2>3. CASE entries # {}
        <3>1. PICK k \in entries : TRUE
            BY <2>3
        <3>2. entries = {k}
            BY <2>1, <3>1
        <3> HIDE DEF entries
        <3>3. Cardinality(entries) = 1
            BY <3>2, FS_Singleton
        <3> QED
            BY <3>3
    <2> QED
        BY <2>2, <2>3
<1>4. incidents[n] # 0 /\ ~broken /\ ~pending => entries # {}
    BY DEF Filing, EveryDelayAnswered, Answered
<1> QED
    BY <1>2, <1>3, <1>4

LEMMA EtaInitially ==
    ASSUME CascadeInit PROVE EtaInv
<1>1. WellKept
    BY EtaInit
<1>2. \A q \in Handlers : req[q].stage = "idle" /\ req[q].entry = <<>>
    BY DEF CascadeInit, Idle
<1>3. Unraced /\ OrdersTold
    BY <1>2 DEF Unraced, AsLoaded, OrdersTold, Promised
<1>4. history = <<>> /\ incidents = <<>> /\ delivered = {} /\ trip = Planned
    BY DEF CascadeInit
<1>5. Filing
    BY <1>2, <1>4 DEF Filing, HistoryIsFiled, PendingIsFiled, OneEntryEach, PendingApart, EveryDelayAnswered
<1>6. DeliveredAsReported
    BY <1>4 DEF DeliveredAsReported, Planned
<1>7. ShiftsAddUp
    <2> SUFFICES ASSUME NEW j \in Stops
                 PROVE  trip.planned[j] = (Plan[j] + ShiftsBefore(j, history)) % DayLength
        BY DEF ShiftsAddUp, FollowsHistory, Open
    <2>1. j \in Nat /\ DayLength \in Nat \ {0} /\ Plan[j] \in 0 .. DayLength - 1
        BY EtaAssumption DEF Stops, Times
    <2>2. ShiftsBefore(j, history) = 0
        BY <1>4, <2>1, NoShiftYet
    <2>3. (Plan[j] + 0) % DayLength = Plan[j]
        BY <2>1
    <2> QED
        BY <1>4, <2>2, <2>3 DEF Planned
<1> QED
    BY <1>1, <1>3, <1>5, <1>6, <1>7 DEF WellKept, EtaInv

LEMMA EtaInvariant ==
    CascadeSpec => []EtaInv
<1>1. EtaInv /\ [CascadeNext]_cascade => EtaInv'
    <2> SUFFICES ASSUME EtaInv, [CascadeNext]_cascade PROVE EtaInv'
        OBVIOUS
    <2>1. WellKept /\ Unraced /\ OrdersTold /\ Filing /\ DeliveredAsReported /\ ShiftsAddUp
        BY DEF EtaInv, WellKept
    <2>2. WellKept' /\ StepForm
        BY <2>1, EtaStepForms
    <2>3. Unraced' /\ OrdersTold' /\ Filing'
        BY <2>1, <2>2, UnracedStep, OrdersToldStep, FilingStep
    <2>4. DeliveredAsReported' /\ ShiftsAddUp'
        BY <2>1, <2>2, DeliveredStep, TimesStep
    <2> QED
        BY <2>2, <2>3, <2>4 DEF EtaInv, WellKept
<1> QED
    BY <1>1, EtaInitially, PTL DEF CascadeSpec

\* However handlers that shift the times of a trip interleave, are refused or broken off:
\* the times of the open stops are the plan's moved by the shifts in EtaHistory, and every
\* incident with a delay has moved them once (etaService.js, tripController.js).
THEOREM ShiftsAreAccounted ==
    CascadeSpec => []TimesAreAccounted
<1>1. EtaInv => TimesAreAccounted
    BY FilingMeans DEF EtaInv, WellKept, TimesAreAccounted
<1> QED
    BY <1>1, EtaInvariant, PTL

\* A stop's orders are DELIVERED exactly when the trip says the stop was completed, but for
\* a completion under way, one that broke off or one that raced (updateTask).
THEOREM OrdersFollowReports ==
    CascadeSpec => []DeliveredAsReported
<1>1. EtaInv => DeliveredAsReported
    BY DEF EtaInv
<1> QED
    BY <1>1, EtaInvariant, PTL

-----------------------------------------------------------------------------
(* PlanningScreen: the plan PlanningPage.jsx shows, and the answers put into it. *)

DetailData == [Routes -> RouteRecords] \cup {NoData}
Fetches == [at : {"none", "asked", "read"}, data : DetailData, clean : BOOLEAN]
RouteKinds == {"lock", "unlock", "finalize", "assign", "swap", "edit", "removeRoute"}
CallKinds == RouteKinds \cup {"create", "addRoute", "optimise", "removePlan"}
CallRecords ==
    [at : {"idle", "sent", "answered"}, kind : CallKinds \cup {None}, plan : Plans \cup {None},
     route : Routes \cup {None}, view : Plans \cup {None},
     result : {"ok", "broken", "refused", None}, answer : RouteRecords]

ScreenType ==
    /\ plans \in Seq(Plans) /\ list \in Seq(Plans)
    /\ routes \in [Plans -> [Routes -> RouteRecords]]
    /\ detail \in [Plans -> DetailData]
    /\ detailFetch \in [Plans -> Fetches]
    /\ \A p \in Plans : detailFetch[p] # NoFetch => detailFetch[p].at # "none"
    /\ activeId \in Plans \cup {None}
    /\ calls \in [Calls -> CallRecords]
    /\ \A c \in Calls : calls[c].at = "sent" /\ calls[c].kind \in RouteKinds => calls[c].route \in Routes

\* An answer on its way after which the plan is read anew, or counted as missed.
Rereads(p) ==
    \E c \in Calls : /\ calls[c].at = "answered" /\ calls[c].plan = p
                     /\ calls[c].result = "broken" \/ (calls[c].result = "ok" /\ calls[c].kind \notin Patching)
\* An answer on its way that is written over the route.
Patches(p, r) ==
    \E c \in Calls : /\ calls[c].at = "answered" /\ calls[c].plan = p /\ calls[c].route = r
                     /\ calls[c].result = "ok" /\ calls[c].kind \in Patching

\* What the page lacks of the plan, if it shows data, comes with the answers on their way.
AgreesButForPatches(planData, p) ==
    \A r \in Routes : \/ planData[r] = routes[p][r]
                      \/ /\ Patches(p, r) /\ planData # NoData /\ planData[r] # Absent
                         /\ planData[r].stops = routes[p][r].stops
Good(planData, p) == Rereads(p) \/ AgreesButForPatches(planData, p)

DetailFollows(p) ==
    \/ Good(detail[p], p)
    \/ detailFetch[p] # NoFetch
    \/ p # ActivePlan /\ (p \in stale \/ detail[p] = NoData)
FetchIsGood(p) == detailFetch[p].at = "read" /\ detailFetch[p].clean => Good(detailFetch[p].data, p)

PlanTruth(p) == FetchIsGood(p) /\ (p \notin missed => DetailFollows(p))
ScreenTruth == \A p \in Plans : PlanTruth(p)
ScreenInvariant == ScreenType /\ ScreenTruth

-----------------------------------------------------------------------------
(* Data.                                                                   *)

LEMMA NeedsKinds == DOMAIN Needs = RouteKinds
BY DEF Needs, RouteKinds

LEMMA AbsentIsARoute == Absent \in RouteRecords /\ \A n \in Nat : PlannedRoute(n) \in RouteRecords
BY DEF Absent, PlannedRoute, RouteRecords

LEMMA NoFetchType ==
  /\ NoFetch \in Fetches /\ NoFetch.at = "none"
  /\ Asked \in Fetches /\ Asked.at = "asked"
<1>1. NoData \in DetailData
  BY DEF DetailData
<1>2. NoFetch \in Fetches /\ NoFetch.at = "none"
  BY <1>1 DEF NoFetch, Fetches
<1>3. Asked \in Fetches /\ Asked.at = "asked"
  BY <1>2 DEF Asked, Fetches
<1> QED
  BY <1>2, <1>3

LEMMA NoCallType ==
  /\ NoCall \in CallRecords /\ NoCall.at = "idle"
BY AbsentIsARoute DEF NoCall, CallRecords

\* A spoilt fetch is still one, and what it read is not to be trusted.
LEMMA SpoiltFacts ==
  ASSUME NEW f \in Fetches, f # NoFetch => f.at # "none"
  PROVE  /\ Spoilt(f) \in Fetches /\ Spoilt(f).at = f.at
         /\ Spoilt(f) # NoFetch => Spoilt(f).at # "none"
         /\ f # NoFetch => Spoilt(f) # NoFetch
         /\ f.at = "read" => ~ Spoilt(f).clean
<1>1. (f.clean /\ f.at # "read") \in BOOLEAN
  BY Zenon
<1>2. PICK b \in BOOLEAN : b = (f.clean /\ f.at # "read")
  BY <1>1
<1>3. Spoilt(f) = [f EXCEPT !.clean = b]
  BY <1>2 DEF Spoilt, Fetches
<1>4. Spoilt(f) \in Fetches /\ Spoilt(f).at = f.at /\ Spoilt(f).data = f.data /\ Spoilt(f).clean = b
  BY <1>3 DEF Fetches
<1>5. CASE f = NoFetch
  <2>1. f.at = "none" /\ f.clean
    BY <1>5 DEF NoFetch
  <2>2. b = TRUE
    BY <1>2, <2>1
  <2>3. Spoilt(f) = f
    BY <1>3, <2>1, <2>2, <1>5 DEF NoFetch
  <2> QED
    BY <1>4, <1>5, <2>1, <2>3
<1>6. CASE f # NoFetch
  <2>1. f.at # "none" /\ NoFetch.at = "none"
    BY <1>6, NoFetchType
  <2>2. f.at = "read" => ~ b
    BY <1>2
  <2> QED
    BY <1>4, <2>1, <2>2
<1> QED
  BY <1>5, <1>6

\* What the server makes of a route is a route; the requests whose answer is patched in
\* leave its stops alone.
LEMMA AfterFacts ==
  ASSUME NEW kind \in RouteKinds, NEW route \in RouteRecords
  PROVE  /\ After(kind, route) \in RouteRecords
         /\ kind \in Patching => After(kind, route).stops = route.stops /\ After(kind, route) # Absent
         /\ route.status \in Needs[kind] => route # Absent
<1>1. route.status \in Needs[kind] => route # Absent
  <2>1. Absent.status = "absent"
    BY DEF Absent
  <2>2. "absent" \notin Needs[kind]
    <3>1. /\ "absent" \notin Needs["lock"] /\ "absent" \notin Needs["unlock"] /\ "absent" \notin Needs["finalize"]
          /\ "absent" \notin Needs["assign"] /\ "absent" \notin Needs["swap"] /\ "absent" \notin Needs["edit"]
          /\ "absent" \notin Needs["removeRoute"]
      BY DEF Needs
    <3> QED
      BY <3>1 DEF RouteKinds
  <2> QED
    BY <2>1, <2>2
<1>2. CASE kind = "lock"
  BY <1>1, <1>2 DEF After, RouteRecords, Absent, Patching
<1>3. CASE kind = "unlock"
  BY <1>1, <1>3 DEF After, RouteRecords, Absent, Patching
<1>4. CASE kind = "finalize"
  BY <1>1, <1>4 DEF After, RouteRecords, Absent, Patching
<1>5. CASE kind = "assign"
  BY <1>1, <1>5 DEF After, RouteRecords, Absent, Patching
<1>6. CASE kind = "swap"
  <2>1. route.crew + 1 \in Nat /\ route.stops + 1 \in Nat
    BY DEF RouteRecords
  <2>2. After(kind, route) = [route EXCEPT !.crew = route.crew + 1, !.stops = route.stops + 1]
    BY <1>6 DEF After, RouteRecords
  <2>3. After(kind, route) \in RouteRecords
    BY <2>1, <2>2 DEF RouteRecords
  <2> QED
    BY <1>1, <1>6, <2>3 DEF Patching
<1>7. CASE kind = "edit"
  BY <1>1, <1>7 DEF After, RouteRecords, Patching
<1>8. CASE kind = "removeRoute"
  BY <1>1, <1>8, AbsentIsARoute DEF After, Patching
<1> QED
  BY <1>2, <1>3, <1>4, <1>5, <1>6, <1>7, <1>8 DEF RouteKinds

\* The plan shown is a plan, or none.
LEMMA ActiveType ==
  ASSUME NEW l \in Seq(Plans), NEW id \in Plans \cup {None}
  PROVE  Active(l, id) \in Plans \cup {None}
<1>1. \A i \in DOMAIN l : l[i] \in Plans
  OBVIOUS
<1>2. l # <<>> => Head(l) \in Plans
  BY HeadTailProperties
<1>3. CASE InList(id, l)
  BY <1>1, <1>3 DEF Active, InList
<1>4. CASE ~ InList(id, l)
  BY <1>2, <1>4 DEF Active
<1> QED
  BY <1>3, <1>4

\* The plans of a list are plans still when one is taken off.
LEMMA RemoveAtType ==
  ASSUME NEW l \in Seq(Plans), NEW p, InList(p, l)
  PROVE  RemoveAt(l, CHOOSE i \in DOMAIN l : l[i] = p) \in Seq(Plans)
<1> DEFINE k == CHOOSE i \in DOMAIN l : l[i] = p
<1>1. k \in DOMAIN l
  BY DEF InList
<1>2. k \in 1..Len(l) /\ Len(l) \in Nat
  BY <1>1
<1> HIDE DEF k
<1>3. \A i \in 1..(k - 1) : l[i] \in Plans
  BY <1>2, ElementOfSeq
<1>4. \A i \in (k + 1)..Len(l) : l[i] \in Plans
  BY <1>2, ElementOfSeq
<1>5. SubSeq(l, 1, k - 1) \in Seq(Plans)
  BY <1>2, <1>3, SubSeqProperties
<1>6. SubSeq(l, k + 1, Len(l)) \in Seq(Plans)
  BY <1>2, <1>4, SubSeqProperties
<1>7. RemoveAt(l, k) \in Seq(Plans)
  BY <1>5, <1>6, ConcatProperties DEF RemoveAt
<1> QED
  BY <1>7 DEF k

-----------------------------------------------------------------------------
(* What is kept.                                                           *)

\* The answers that count for a plan are still on their way.
AnswersStay(p) ==
    \A c \in Calls :
        calls[c].at = "answered" /\ calls[c].plan = p /\ calls[c].result \in {"ok", "broken"} =>
            /\ calls'[c].at = "answered" /\ calls'[c].plan = p /\ calls'[c].result = calls[c].result
            /\ calls'[c].route = calls[c].route /\ calls'[c].kind = calls[c].kind

LEMMA CallsStay ==
  ASSUME NEW p, AnswersStay(p)
  PROVE  /\ Rereads(p) => Rereads(p)'
         /\ \A r : Patches(p, r) => Patches(p, r)'
BY DEF AnswersStay, Rereads, Patches

LEMMA GoodStays ==
  ASSUME NEW p, NEW planData, AnswersStay(p), routes'[p] = routes[p], Good(planData, p)
  PROVE  Good(planData, p)'
<1>1. Rereads(p) => Rereads(p)'
  BY CallsStay
<1>2. \A r : Patches(p, r) => Patches(p, r)'
  BY CallsStay
<1> QED
  BY <1>1, <1>2 DEF Good, AgreesButForPatches

LEMMA TruthStays ==
  ASSUME NEW p \in Plans, PlanTruth(p),
         ASSUME NEW planData, Good(planData, p) PROVE Good(planData, p)',
         detail'[p] = detail[p], detailFetch'[p] = detailFetch[p],
         p \notin missed' => p \notin missed, p \notin missed' /\ p # ActivePlan /\ p \in stale => p \in stale',
         p # ActivePlan => p # ActivePlan'
  PROVE  PlanTruth(p)'
<1>1. PICK d : d = detail[p]
  OBVIOUS
<1>2. PICK f : f = detailFetch[p]
  OBVIOUS
<1>3. Good(d, p) => Good(d, p)'
  OBVIOUS
<1>4. PICK e : e = f.data
  OBVIOUS
<1>5. Good(e, p) => Good(e, p)'
  OBVIOUS
<1>6. FetchIsGood(p)'
  <2>1. FetchIsGood(p)' <=> (f.at = "read" /\ f.clean => Good(e, p)')
    BY <1>2, <1>4 DEF FetchIsGood, Good, AgreesButForPatches
  <2>2. FetchIsGood(p) <=> (f.at = "read" /\ f.clean => Good(e, p))
    BY <1>2, <1>4 DEF FetchIsGood
  <2> QED
    BY <1>5, <2>1, <2>2 DEF PlanTruth
<1>7. ASSUME p \notin missed'
      PROVE  DetailFollows(p)'
  <2>1. DetailFollows(p)
    BY <1>7 DEF PlanTruth
  <2>2. CASE Good(d, p)
    <3>1. Good(d, p)'
      BY <1>3, <2>2
    <3> QED
      BY <1>1, <3>1 DEF DetailFollows, Good, AgreesButForPatches
  <2>3. CASE detailFetch[p] # NoFetch
    BY <2>3 DEF DetailFollows
  <2>4. CASE p # ActivePlan /\ (p \in stale \/ detail[p] = NoData)
    BY <1>7, <2>4 DEF DetailFollows
  <2> QED
    BY <1>1, <2>1, <2>2, <2>3, <2>4 DEF DetailFollows
<1> QED
  BY <1>6, <1>7 DEF PlanTruth

-----------------------------------------------------------------------------
(* The planner.                                                            *)

LEMMA SendStep ==
  ASSUME ScreenInvariant, NEW c \in Calls, NEW kind \in CallKinds, NEW r \in Routes \cup {None},
         kind \in RouteKinds => r \in Routes, Send(c, kind, r)
  PROVE  ScreenInvariant'
<1> USE DEF ScreenInvariant
<1>1. UNCHANGED <<plans, routes, list, listFetch, detail, stale, detailFetch, activeId, missed>> /\ calls[c] = NoCall
  BY DEF Send, server
<1>2. ActivePlan' = ActivePlan /\ ActivePlan \in Plans \cup {None}
  <2>1. Active(list, activeId) \in Plans \cup {None}
    BY ActiveType DEF ScreenType
  <2> QED
    BY <1>1, <2>1 DEF ActivePlan, Active, InList
<1> DEFINE n == [NoCall EXCEPT !.at = "sent", !.kind = kind, !.plan = ActivePlan, !.route = r]
<1>3. n \in CallRecords /\ n.at = "sent" /\ n.kind = kind /\ n.route = r
  BY <1>2, NoCallType DEF CallRecords
<1>4. calls \in [Calls -> CallRecords]
  BY DEF ScreenType
<1>5. ASSUME NEW d \in Calls
      PROVE  LET m == [calls[d] EXCEPT !.view = ActivePlan] IN
             /\ m \in CallRecords /\ m.at = calls[d].at /\ m.kind = calls[d].kind /\ m.plan = calls[d].plan
             /\ m.route = calls[d].route /\ m.result = calls[d].result
  BY <1>2, <1>4 DEF CallRecords
<1>6. calls' = [d \in Calls |-> IF d = c THEN n
                ELSE IF calls[d].kind = kind /\ calls[d].view = None THEN [calls[d] EXCEPT !.view = ActivePlan]
                ELSE calls[d]]
  BY DEF Send
<1> HIDE DEF n
<1>7. calls' \in [Calls -> CallRecords]
  BY <1>3, <1>4, <1>5, <1>6
<1>8. calls'[c] = n
  BY <1>6
<1>9. ASSUME NEW d \in Calls, d # c
      PROVE  /\ calls'[d].at = calls[d].at /\ calls'[d].kind = calls[d].kind /\ calls'[d].plan = calls[d].plan
             /\ calls'[d].route = calls[d].route /\ calls'[d].result = calls[d].result
  <2>1. CASE calls[d].kind = kind /\ calls[d].view = None
    <3>1. calls'[d] = [calls[d] EXCEPT !.view = ActivePlan]
      BY <1>6, <1>9, <2>1
    <3> QED
      BY <1>5, <3>1
  <2>2. CASE ~ (calls[d].kind = kind /\ calls[d].view = None)
    <3>1. calls'[d] = calls[d]
      BY <1>6, <1>9, <2>2
    <3> QED
      BY <3>1
  <2> QED
    BY <2>1, <2>2
<1>10. \A d \in Calls : calls'[d].at = "sent" /\ calls'[d].kind \in RouteKinds => calls'[d].route \in Routes
  BY <1>3, <1>8, <1>9 DEF ScreenType
<1>11. ScreenType'
  BY <1>1, <1>7, <1>10 DEF ScreenType
<1>12. ASSUME NEW p \in Plans
       PROVE  PlanTruth(p)'
  <2>1. AnswersStay(p)
    BY <1>1, <1>9, NoCallType DEF AnswersStay
  <2>2. ASSUME NEW planData, Good(planData, p) PROVE Good(planData, p)'
    BY <1>1, <2>1, <2>2, GoodStays
  <2>3. PlanTruth(p)
    BY DEF ScreenTruth
  <2> QED
    BY <1>1, <1>2, <2>2, <2>3, TruthStays
<1> QED
  BY <1>11, <1>12 DEF ScreenTruth

\* The plan that comes into view is fetched unless the page has fresh data of it.
LEMMA LookingTruth ==
  ASSUME ScreenInvariant, UNCHANGED <<routes, detail, stale, calls, missed>>,
         NEW a, a = ActivePlan', detailFetch' = Looking(a, detail, stale, detailFetch)
  PROVE  /\ ScreenTruth'
         /\ detailFetch' \in [Plans -> Fetches]
         /\ \A p \in Plans : detailFetch'[p] # NoFetch => detailFetch'[p].at # "none"
<1> USE DEF ScreenInvariant
<1>1. detailFetch \in [Plans -> Fetches] /\ \A p \in Plans : detailFetch[p] # NoFetch => detailFetch[p].at # "none"
  BY DEF ScreenType
<1>2. /\ detailFetch' \in [Plans -> Fetches]
      /\ \A p \in Plans : detailFetch'[p] # NoFetch => detailFetch'[p].at # "none"
      /\ \A p \in Plans : detailFetch'[p] = detailFetch[p] \/ (p = a /\ detailFetch'[p] = Asked)
      /\ \A p \in Plans : p = a /\ (detail[p] = NoData \/ p \in stale) /\ detailFetch[p] = NoFetch => detailFetch'[p] = Asked
  <2>1. CASE a # None /\ detailFetch[a] = NoFetch /\ (detail[a] = NoData \/ a \in stale)
    <3>1. detailFetch' = [detailFetch EXCEPT ![a] = Asked]
      BY <2>1 DEF Looking
    <3> QED
      BY <1>1, <3>1, NoFetchType
  <2>2. CASE ~ (a # None /\ detailFetch[a] = NoFetch /\ (detail[a] = NoData \/ a \in stale))
    <3>1. detailFetch' = detailFetch
      BY <2>2 DEF Looking
    <3> QED
      BY <1>1, <2>2, <3>1, ScreenAssumption
  <2> QED
    BY <2>1, <2>2
<1>3. ASSUME NEW p \in Plans
      PROVE  PlanTruth(p)'
  <2>1. PlanTruth(p)
    BY DEF ScreenTruth
  <2>2. AnswersStay(p)
    BY DEF AnswersStay
  <2>3. ASSUME NEW planData, Good(planData, p) PROVE Good(planData, p)'
    BY <2>2, <2>3, GoodStays
  <2>4. CASE detailFetch'[p] = Asked
    <3>1. Asked.at # "read" /\ Asked # NoFetch
      BY NoFetchType
    <3> QED
      BY <2>4, <3>1 DEF PlanTruth, FetchIsGood, DetailFollows
  <2>5. CASE detailFetch'[p] = detailFetch[p] /\ p # a
    BY <2>1, <2>3, <2>5, TruthStays
  <2>6. CASE detailFetch'[p] = detailFetch[p] /\ p = a /\ ~ (detail[p] = NoData \/ p \in stale)
    <3>1. PICK d : d = detail[p]
      OBVIOUS
    <3>2. PICK e : e = detailFetch[p].data
      OBVIOUS
    <3>3. FetchIsGood(p)'
      <4>1. detailFetch[p].at = "read" /\ detailFetch[p].clean => Good(e, p)'
        BY <2>1, <2>3, <3>2 DEF PlanTruth, FetchIsGood
      <4> QED
        BY <2>6, <3>2, <4>1 DEF FetchIsGood, Good, AgreesButForPatches
    <3>4. p \notin missed' => DetailFollows(p)'
      <4>1. p \notin missed => Good(d, p)' \/ detailFetch[p] # NoFetch
        BY <2>1, <2>3, <2>6, <3>1 DEF PlanTruth, DetailFollows
      <4> QED
        BY <2>6, <3>1, <4>1 DEF DetailFollows, Good, AgreesButForPatches
    <3> QED
      BY <3>3, <3>4 DEF PlanTruth
  <2>7. CASE detailFetch'[p] = detailFetch[p] /\ p = a /\ detailFetch[p] # NoFetch
    <3>1. PICK e : e = detailFetch[p].data
      OBVIOUS
    <3>2. FetchIsGood(p)'
      <4>1. detailFetch[p].at = "read" /\ detailFetch[p].clean => Good(e, p)'
        BY <2>1, <2>3, <3>1 DEF PlanTruth, FetchIsGood
      <4> QED
        BY <2>7, <3>1, <4>1 DEF FetchIsGood, Good, AgreesButForPatches
    <3> QED
      BY <2>7, <3>2 DEF PlanTruth, DetailFollows
  <2> QED
    BY <1>2, <2>4, <2>5, <2>6, <2>7
<1> QED
  BY <1>2, <1>3 DEF ScreenTruth

LEMMA SelectPlanStep ==
  ASSUME ScreenInvariant, NEW p \in Plans, SelectPlan(p)
  PROVE  ScreenInvariant'
<1>1. /\ UNCHANGED <<plans, routes, list, detail, stale, calls, missed>> /\ activeId' = p /\ InList(p, list)
      /\ detailFetch' = Looking(p, detail, stale, detailFetch)
  BY DEF SelectPlan, server
<1>2. ActivePlan' = p
  BY <1>1 DEF ActivePlan, Active, InList
<1> QED
  BY <1>1, <1>2, LookingTruth DEF ScreenInvariant, ScreenType

LEMMA ListArrivesStep ==
  ASSUME ScreenInvariant, ListArrives
  PROVE  ScreenInvariant'
<1>1. /\ UNCHANGED <<plans, routes, detail, stale, activeId, calls, missed>> /\ list' = plans
      /\ detailFetch' = Looking(Active(plans, activeId), detail, stale, detailFetch)
  BY DEF ListArrives, ListRoutePlans, server
<1>2. PICK a : a = Active(plans, activeId)
  OBVIOUS
<1>3. a = ActivePlan'
  BY <1>1, <1>2 DEF ActivePlan, Active, InList
<1> QED
  BY <1>1, <1>2, <1>3, LookingTruth DEF ScreenInvariant, ScreenType

LEMMA GrowOldStep ==
  ASSUME ScreenInvariant, NEW q \in Plans, GrowOld(q)
  PROVE  ScreenInvariant'
<1> USE DEF ScreenInvariant
<1>1. /\ UNCHANGED <<plans, routes, list, detail, detailFetch, activeId, calls, missed>>
      /\ stale' = stale \cup {q}
  BY DEF GrowOld, server
<1>2. ScreenType'
  BY <1>1 DEF ScreenType
<1>3. ASSUME NEW p \in Plans
      PROVE  PlanTruth(p)'
  <2>1. AnswersStay(p)
    BY <1>1 DEF AnswersStay
  <2>2. ASSUME NEW planData, Good(planData, p) PROVE Good(planData, p)'
    BY <1>1, <2>1, <2>2, GoodStays
  <2>3. PlanTruth(p) /\ ActivePlan' = ActivePlan
    BY <1>1 DEF ScreenTruth, ActivePlan, Active, InList
  <2> QED
    BY <1>1, <2>2, <2>3, TruthStays
<1> QED
  BY <1>2, <1>3 DEF ScreenTruth

-----------------------------------------------------------------------------
(* Fetches.                                                                *)

LEMMA DetailReadStep ==
  ASSUME ScreenInvariant, NEW q \in Plans, DetailRead(q)
  PROVE  ScreenInvariant'
<1> USE DEF ScreenInvariant
<1>1. /\ UNCHANGED <<plans, routes, list, detail, stale, activeId, calls, missed>>
      /\ detailFetch' = [detailFetch EXCEPT ![q] = [@ EXCEPT !.at = "read", !.data = routes[q]]]
  BY DEF DetailRead, EnrichedRoutes, server
<1>2. detailFetch \in [Plans -> Fetches] /\ routes[q] \in DetailData
  BY DEF ScreenType, DetailData
<1> DEFINE f == [detailFetch[q] EXCEPT !.at = "read", !.data = routes[q]]
<1>3. f \in Fetches /\ f.at = "read" /\ f.data = routes[q] /\ f # NoFetch
  BY <1>2, NoFetchType DEF Fetches
<1>4. detailFetch' = [detailFetch EXCEPT ![q] = f]
  BY <1>1
<1> HIDE DEF f
<1>5. detailFetch'[q] = f /\ detailFetch' \in [Plans -> Fetches] /\ \A p \in Plans \ {q} : detailFetch'[p] = detailFetch[p]
  BY <1>2, <1>3, <1>4
<1>6. ScreenType'
  BY <1>1, <1>3, <1>5 DEF ScreenType
<1>7. ASSUME NEW p \in Plans, p # q
      PROVE  PlanTruth(p)'
  <2>1. AnswersStay(p)
    BY <1>1 DEF AnswersStay
  <2>2. ASSUME NEW planData, Good(planData, p) PROVE Good(planData, p)'
    BY <1>1, <2>1, <2>2, GoodStays
  <2>3. PlanTruth(p) /\ ActivePlan' = ActivePlan
    BY <1>1 DEF ScreenTruth, ActivePlan, Active, InList
  <2> QED
    BY <1>1, <1>5, <1>7, <2>2, <2>3, TruthStays
<1>8. PlanTruth(q)'
  <2>1. FetchIsGood(q)'
    BY <1>1, <1>3, <1>5 DEF FetchIsGood, Good, AgreesButForPatches
  <2> QED
    BY <1>3, <1>5, <2>1 DEF PlanTruth, DetailFollows
<1> QED
  BY <1>6, <1>7, <1>8 DEF ScreenTruth

LEMMA DetailArrivesStep ==
  ASSUME ScreenInvariant, NEW q \in Plans, DetailArrives(q)
  PROVE  ScreenInvariant'
<1> USE DEF ScreenInvariant
<1>1. /\ UNCHANGED <<plans, routes, list, activeId, calls>> /\ detailFetch[q].at = "read"
      /\ detail' = [detail EXCEPT ![q] = detailFetch[q].data]
      /\ stale' = stale \ {q}
      /\ missed' = IF detailFetch[q].clean THEN missed \ {q} ELSE missed \cup {q}
      /\ detailFetch' = [detailFetch EXCEPT ![q] = NoFetch]
  BY DEF DetailArrives, server
<1>2. PICK e : e = detailFetch[q].data
  OBVIOUS
<1>3. e \in DetailData
  BY <1>2 DEF ScreenType, Fetches
<1>4. /\ detail'[q] = e /\ detailFetch'[q] = NoFetch
      /\ \A p \in Plans \ {q} : detail'[p] = detail[p] /\ detailFetch'[p] = detailFetch[p]
  BY <1>1, <1>2 DEF ScreenType
<1>5. ScreenType'
  BY <1>1, <1>2, <1>3, NoFetchType DEF ScreenType
<1>6. ASSUME NEW p \in Plans, NEW planData, Good(planData, p) PROVE Good(planData, p)'
  <2>1. AnswersStay(p)
    BY <1>1 DEF AnswersStay
  <2> QED
    BY <1>1, <1>6, <2>1, GoodStays
<1>7. ASSUME NEW p \in Plans, p # q
      PROVE  PlanTruth(p)'
  <2>1. PlanTruth(p) /\ ActivePlan' = ActivePlan
    BY <1>1 DEF ScreenTruth, ActivePlan, Active, InList
  <2>2. (p \notin missed' => p \notin missed) /\ (p \in stale => p \in stale')
    BY <1>1, <1>7
  <2> QED
    BY <1>4, <1>6, <1>7, <2>1, <2>2, TruthStays
<1>8. PlanTruth(q)'
  <2>1. FetchIsGood(q)'
    BY <1>4, NoFetchType DEF FetchIsGood
  <2>2. ASSUME q \notin missed'
        PROVE  DetailFollows(q)'
    <3>1. detailFetch[q].clean
      BY <1>1, <2>2
    <3>2. Good(e, q)
      BY <1>1, <1>2, <3>1 DEF ScreenTruth, PlanTruth, FetchIsGood
    <3>3. Good(e, q)'
      BY <1>6, <3>2
    <3> QED
      BY <1>4, <3>3 DEF DetailFollows, Good, AgreesButForPatches
  <2> QED
    BY <2>1, <2>2 DEF PlanTruth
<1> QED
  BY <1>5, <1>7, <1>8 DEF ScreenTruth

-----------------------------------------------------------------------------
(* The server.                                                             *)

\* An answer that goes out.
LEMMA ReplyFacts ==
  ASSUME ScreenType, NEW c \in Calls, NEW result \in {"ok", "broken", "refused"}, NEW answer \in RouteRecords,
         calls[c].at = "sent", Reply(c, result, answer)
  PROVE  /\ calls' \in [Calls -> CallRecords]
         /\ \A d \in Calls \ {c} : calls'[d] = calls[d]
         /\ calls'[c].at = "answered" /\ calls'[c].result = result /\ calls'[c].plan = calls[c].plan
         /\ calls'[c].route = calls[c].route /\ calls'[c].kind = calls[c].kind
         /\ \A p : AnswersStay(p)
         /\ \A d \in Calls : calls'[d].at = "sent" /\ calls'[d].kind \in RouteKinds => calls'[d].route \in Routes
         /\ UNCHANGED <<list, listFetch, detail, stale, detailFetch, activeId, clicks, missed>>
         /\ ActivePlan' = ActivePlan
<1> DEFINE n == [calls[c] EXCEPT !.at = "answered", !.result = result, !.answer = answer]
<1>1. calls \in [Calls -> CallRecords] /\ UNCHANGED <<list, listFetch, detail, stale, detailFetch, activeId, clicks, missed>>
  BY DEF ScreenType, Reply
<1>2. calls' = [calls EXCEPT ![c] = n]
  BY <1>1 DEF Reply
<1>3. /\ n \in CallRecords /\ n.at = "answered" /\ n.result = result /\ n.plan = calls[c].plan
      /\ n.route = calls[c].route /\ n.kind = calls[c].kind
  BY <1>1 DEF CallRecords
<1> HIDE DEF n
<1>4. calls' \in [Calls -> CallRecords] /\ calls'[c] = n /\ \A d \in Calls \ {c} : calls'[d] = calls[d]
  BY <1>1, <1>2, <1>3
<1>5. \A p : AnswersStay(p)
  BY <1>4 DEF AnswersStay
<1>6. \A d \in Calls : calls'[d].at = "sent" /\ calls'[d].kind \in RouteKinds => calls'[d].route \in Routes
  BY <1>3, <1>4 DEF ScreenType
<1>7. ActivePlan' = ActivePlan
  BY <1>1 DEF ActivePlan, Active, InList
<1> QED
  BY <1>1, <1>3, <1>4, <1>5, <1>6, <1>7

\* What the server does to a plan is on its way to the page.
LEMMA ServedStep ==
  ASSUME ScreenInvariant, NEW c \in Calls, NEW result \in {"ok", "broken", "refused"}, NEW answer \in RouteRecords,
         calls[c].at = "sent", Reply(c, result, answer),
         plans' \in Seq(Plans), routes' \in [Plans -> [Routes -> RouteRecords]],
         \A p \in Plans : routes'[p] = routes[p] \/ (p = calls[c].plan /\ result # "refused"),
         calls[c].kind \in Patching /\ result = "ok" =>
            \A p \in Plans, r \in Routes :
                \/ routes'[p][r] = routes[p][r]
                \/ /\ p = calls[c].plan /\ r = calls[c].route /\ routes[p][r] # Absent
                   /\ routes'[p][r].stops = routes[p][r].stops
  PROVE  ScreenInvariant'
<1> USE DEF ScreenInvariant
<1>1. /\ calls' \in [Calls -> CallRecords]
      /\ calls'[c].at = "answered" /\ calls'[c].result = result /\ calls'[c].plan = calls[c].plan
      /\ calls'[c].route = calls[c].route /\ calls'[c].kind = calls[c].kind
      /\ \A p : AnswersStay(p)
      /\ \A d \in Calls : calls'[d].at = "sent" /\ calls'[d].kind \in RouteKinds => calls'[d].route \in Routes
      /\ UNCHANGED <<list, listFetch, detail, stale, detailFetch, activeId, clicks, missed>>
      /\ ActivePlan' = ActivePlan
  BY ReplyFacts
<1>2. ScreenType'
  BY <1>1 DEF ScreenType
<1>3. ASSUME NEW p \in Plans, NEW planData, Good(planData, p)
      PROVE  Good(planData, p)'
  <2>1. CASE routes'[p] = routes[p]
    BY <1>1, <1>3, <2>1, GoodStays
  <2>2. CASE routes'[p] # routes[p] /\ (result = "broken" \/ calls[c].kind \notin Patching)
    <3>1. Rereads(p)'
      BY <1>1, <2>2 DEF Rereads
    <3> QED
      BY <3>1 DEF Good
  <2>3. CASE routes'[p] # routes[p] /\ result = "ok" /\ calls[c].kind \in Patching
    <3>1. p = calls[c].plan
      BY <2>3
    <3>2. AnswersStay(p)
      BY <1>1
    <3>3. (Rereads(p) => Rereads(p)') /\ \A r : Patches(p, r) => Patches(p, r)'
      BY <3>2, CallsStay
    <3>4. CASE Rereads(p)
      BY <3>3, <3>4 DEF Good
    <3>5. CASE AgreesButForPatches(planData, p)
      <4> SUFFICES ASSUME NEW r \in Routes
                   PROVE  \/ planData[r] = routes'[p][r]
                          \/ /\ Patches(p, r)' /\ planData # NoData /\ planData[r] # Absent
                             /\ planData[r].stops = routes'[p][r].stops
        BY DEF Good, AgreesButForPatches
      <4>1. \/ planData[r] = routes[p][r]
            \/ Patches(p, r) /\ planData # NoData /\ planData[r] # Absent /\ planData[r].stops = routes[p][r].stops
        BY <3>5 DEF AgreesButForPatches
      <4>2. \/ routes'[p][r] = routes[p][r]
            \/ /\ r = calls[c].route /\ routes[p][r] # Absent
               /\ routes'[p][r].stops = routes[p][r].stops
        BY <2>3
      <4>3. CASE routes'[p][r] = routes[p][r]
        BY <3>3, <4>1, <4>3
      <4>4. CASE /\ r = calls[c].route /\ routes[p][r] # Absent
                 /\ routes'[p][r].stops = routes[p][r].stops
        <5>1. Patches(p, r)'
          BY <1>1, <2>3, <3>1, <4>4 DEF Patches
        <5>2. planData[r] = routes[p][r] => planData # NoData
          <6>1. routes[p][r] # None
            BY ScreenAssumption DEF ScreenType
          <6> QED
            BY <6>1 DEF NoData
        <5> QED
          BY <4>1, <4>4, <5>1, <5>2
      <4> QED
        BY <4>2, <4>3, <4>4
    <3> QED
      BY <1>3, <3>4, <3>5 DEF Good
  <2> QED
    BY <2>1, <2>2, <2>3
<1>4. ASSUME NEW p \in Plans
      PROVE  PlanTruth(p)'
  <2>1. PlanTruth(p)
    BY DEF ScreenTruth
  <2>2. ASSUME NEW planData, Good(planData, p) PROVE Good(planData, p)'
    BY <1>3, <2>2
  <2> QED
    BY <1>1, <2>1, <2>2, TruthStays
<1> QED
  BY <1>2, <1>4 DEF ScreenTruth

LEMMA ListedIsPlan ==
  ASSUME ScreenType, NEW p, InList(p, plans)
  PROVE  p \in Plans
BY DEF InList, ScreenType

LEMMA RefusedStep ==
  ASSUME ScreenInvariant, NEW c \in Calls, calls[c].at = "sent", Reply(c, "refused", Absent), UNCHANGED <<plans, routes>>
  PROVE  ScreenInvariant'
BY AbsentIsARoute, ServedStep DEF ScreenInvariant, ScreenType

LEMMA ServeRouteStep ==
  ASSUME ScreenInvariant, NEW c \in Calls, ServeRoute(c)
  PROVE  ScreenInvariant'
<1> USE DEF ScreenInvariant
<1> DEFINE p == calls[c].plan
           r == calls[c].route
           kind == calls[c].kind
<1>1. calls[c].at = "sent" /\ kind \in RouteKinds /\ plans' = plans
  BY NeedsKinds DEF ServeRoute, OnRoute
<1>2. r \in Routes
  BY <1>1 DEF ScreenType
<1>3. CASE InList(p, plans) /\ routes[p][r].status \in Needs[kind]
  <2>1. routes' = [routes EXCEPT ![p][r] = After(kind, @)]
    BY <1>3 DEF ServeRoute
  <2>2. PICK result \in {"ok", "broken"} : Reply(c, result, routes'[p][r])
    BY <1>3 DEF ServeRoute
  <2>3. p \in Plans /\ routes \in [Plans -> [Routes -> RouteRecords]]
    BY <1>3, ListedIsPlan DEF ScreenType
  <2>4. /\ After(kind, routes[p][r]) \in RouteRecords /\ routes[p][r] # Absent
        /\ kind \in Patching => After(kind, routes[p][r]).stops = routes[p][r].stops
    BY <1>1, <1>2, <1>3, <2>3, AfterFacts
  <2> HIDE DEF p, r, kind
  <2>5. /\ routes' \in [Plans -> [Routes -> RouteRecords]] /\ routes'[p][r] = After(kind, routes[p][r])
        /\ \A q \in Plans \ {p} : routes'[q] = routes[q]
        /\ \A s \in Routes \ {r} : routes'[p][s] = routes[p][s]
    BY <1>2, <2>1, <2>3, <2>4
  <2>6. routes'[p][r] \in RouteRecords
    BY <2>4, <2>5
  <2>7. \A q \in Plans : routes'[q] = routes[q] \/ (q = calls[c].plan /\ result # "refused")
    BY <2>5 DEF p
  <2>8. kind \in Patching => \A q \in Plans, s \in Routes :
            \/ routes'[q][s] = routes[q][s]
            \/ q = p /\ s = r /\ routes[q][s] # Absent /\ routes'[q][s].stops = routes[q][s].stops
    BY <2>4, <2>5
  <2>9. plans' \in Seq(Plans)
    BY <1>1 DEF ScreenType
  <2>10. PICK answer \in RouteRecords : answer = routes'[p][r]
    BY <2>6
  <2>11. Reply(c, result, answer)
    BY <2>2, <2>10 DEF p, r
  <2> QED
    BY <1>1, <2>5, <2>7, <2>8, <2>9, <2>11, ServedStep DEF p, r, kind
<1>4. CASE ~ (InList(p, plans) /\ routes[p][r].status \in Needs[kind])
  <2>1. routes' = routes /\ Reply(c, "refused", Absent)
    BY <1>4 DEF ServeRoute
  <2> QED
    BY <1>1, <2>1, RefusedStep
<1> QED
  BY <1>3, <1>4

\* A plan is served as a whole, and the answer makes the page read it anew.
LEMMA ServePlanStep ==
  ASSUME ScreenInvariant, NEW c \in Calls, calls[c].at = "sent", calls[c].kind \notin Patching, NEW result \in {"ok", "broken"},
         Reply(c, result, Absent), plans' \in Seq(Plans), calls[c].plan \in Plans,
         NEW new \in [Routes -> RouteRecords], routes' = [routes EXCEPT ![calls[c].plan] = new]
  PROVE  ScreenInvariant'
<1>1. routes \in [Plans -> [Routes -> RouteRecords]]
  BY DEF ScreenInvariant, ScreenType
<1>2. routes' \in [Plans -> [Routes -> RouteRecords]] /\ \A p \in Plans \ {calls[c].plan} : routes'[p] = routes[p]
  BY <1>1
<1> QED
  BY <1>2, AbsentIsARoute, ServedStep

LEMMA ServeAddRouteStep ==
  ASSUME ScreenInvariant, NEW c \in Calls, ServeAddRoute(c)
  PROVE  ScreenInvariant'
<1> USE DEF ScreenInvariant
<1> DEFINE p == calls[c].plan
           free == {r \in Routes : routes[p][r] = Absent}
<1>1. calls[c].at = "sent" /\ calls[c].kind \notin Patching /\ plans' = plans /\ plans' \in Seq(Plans)
  BY DEF ServeAddRoute, Patching, ScreenType
<1>2. CASE InList(p, plans) /\ free # {}
  <2>1. PICK r \in free : routes' = [routes EXCEPT ![p][r] = PlannedRoute(1)] /\ Reply(c, "ok", Absent)
    BY <1>2 DEF ServeAddRoute
  <2>2. p \in Plans /\ r \in Routes /\ routes \in [Plans -> [Routes -> RouteRecords]]
    BY <1>2, ListedIsPlan DEF ScreenType
  <2> DEFINE new == [routes[p] EXCEPT ![r] = PlannedRoute(1)]
  <2>3. new \in [Routes -> RouteRecords]
    BY <2>2, AbsentIsARoute
  <2>4. routes' = [routes EXCEPT ![p] = new]
    BY <2>1, <2>2
  <2> HIDE DEF new
  <2> QED
    BY <1>1, <2>1, <2>2, <2>3, <2>4, ServePlanStep
<1>3. CASE ~ (InList(p, plans) /\ free # {})
  <2>1. routes' = routes /\ Reply(c, "refused", Absent)
    BY <1>3 DEF ServeAddRoute
  <2> QED
    BY <1>1, <2>1, RefusedStep
<1> QED
  BY <1>2, <1>3

LEMMA ServeOptimiseStep ==
  ASSUME ScreenInvariant, NEW c \in Calls, ServeOptimise(c)
  PROVE  ScreenInvariant'
<1> USE DEF ScreenInvariant
<1>1. calls[c].at = "sent" /\ calls[c].kind \notin Patching /\ plans' = plans /\ plans' \in Seq(Plans)
  BY DEF ServeOptimise, Patching, ScreenType
<1>2. CASE InList(calls[c].plan, plans)
  <2>1. calls[c].plan \in Plans /\ routes \in [Plans -> [Routes -> RouteRecords]]
    BY <1>2, ListedIsPlan DEF ScreenType
  <2>2. PICK full \in BOOLEAN : /\ routes' = [routes EXCEPT ![calls[c].plan] = Repacked(@, full)]
                                /\ Reply(c, IF full THEN "ok" ELSE "broken", Absent)
    BY <1>2 DEF ServeOptimise
  <2> DEFINE new == Repacked(routes[calls[c].plan], full)
  <2>3. new \in [Routes -> RouteRecords]
    <3>1. ASSUME NEW r \in Routes
          PROVE  PlannedRoute(routes[calls[c].plan][r].stops + 1) \in RouteRecords
      <4>1. routes[calls[c].plan][r].stops + 1 \in Nat
        BY <2>1 DEF RouteRecords
      <4> QED
        BY <4>1, AbsentIsARoute
    <3> QED
      BY <2>1, <3>1, AbsentIsARoute DEF Repacked
  <2>4. routes' = [routes EXCEPT ![calls[c].plan] = new]
    BY <2>1, <2>2
  <2> HIDE DEF new
  <2>5. CASE full
    <3>1. Reply(c, "ok", Absent)
      BY <2>2, <2>5
    <3> QED
      BY <1>1, <2>1, <2>3, <2>4, <3>1, ServePlanStep
  <2>6. CASE ~ full
    <3>1. Reply(c, "broken", Absent)
      BY <2>2, <2>6
    <3> QED
      BY <1>1, <2>1, <2>3, <2>4, <3>1, ServePlanStep
  <2> QED
    BY <2>5, <2>6
<1>3. CASE ~ InList(calls[c].plan, plans)
  <2>1. routes' = routes /\ Reply(c, "refused", Absent)
    BY <1>3 DEF ServeOptimise
  <2> QED
    BY <1>1, <2>1, RefusedStep
<1> QED
  BY <1>2, <1>3

LEMMA ServeRemovePlanStep ==
  ASSUME ScreenInvariant, NEW c \in Calls, ServeRemovePlan(c)
  PROVE  ScreenInvariant'
<1> USE DEF ScreenInvariant
<1> DEFINE p == calls[c].plan
<1>1. calls[c].at = "sent" /\ calls[c].kind \notin Patching /\ plans \in Seq(Plans)
  BY DEF ServeRemovePlan, Patching, ScreenType
<1>2. CASE InList(p, plans) /\ \A r \in Routes : routes[p][r].status # "FINALIZED"
  <2>1. /\ plans' = RemoveAt(plans, CHOOSE i \in DOMAIN plans : plans[i] = p)
        /\ routes' = [routes EXCEPT ![p] = NoRoutes] /\ Reply(c, "ok", Absent)
    BY <1>2 DEF ServeRemovePlan
  <2>2. p \in Plans /\ NoRoutes \in [Routes -> RouteRecords]
    BY <1>2, ListedIsPlan, AbsentIsARoute DEF NoRoutes
  <2>3. plans' \in Seq(Plans)
    BY <1>1, <1>2, <2>1, RemoveAtType
  <2> QED
    BY <1>1, <2>1, <2>2, <2>3, ServePlanStep
<1>3. CASE ~ (InList(p, plans) /\ \A r \in Routes : routes[p][r].status # "FINALIZED")
  <2>1. UNCHANGED <<plans, routes>> /\ Reply(c, "refused", Absent)
    BY <1>3 DEF ServeRemovePlan, server
  <2> QED
    BY <1>1, <2>1, RefusedStep
<1> QED
  BY <1>2, <1>3

LEMMA ServeCreateStep ==
  ASSUME ScreenInvariant, NEW c \in Calls, ServeCreate(c)
  PROVE  ScreenInvariant'
<1> USE DEF ScreenInvariant
<1>1. /\ calls[c].at = "sent" /\ UNCHANGED <<routes, list, listFetch, detail, stale, detailFetch, activeId, clicks, missed>>
      /\ calls \in [Calls -> CallRecords]
  BY DEF ServeCreate, ScreenType
<1>2. \/ \E p \in Plans : /\ plans' = Append(plans, p)
                          /\ calls' = [calls EXCEPT ![c].at = "answered", ![c].result = "ok", ![c].plan = p]
      \/ /\ calls' = [calls EXCEPT ![c].at = "answered", ![c].result = "refused"]
         /\ plans' = plans
  BY DEF ServeCreate
<1>3. PICK n : calls' = [calls EXCEPT ![c] = n] /\ n \in CallRecords /\ n.at = "answered"
  <2>1. ASSUME NEW p \in Plans
        PROVE  LET n == [calls[c] EXCEPT !.at = "answered", !.result = "ok", !.plan = p]
               IN n \in CallRecords /\ n.at = "answered"
    BY <1>1 DEF CallRecords
  <2>2. LET n == [calls[c] EXCEPT !.at = "answered", !.result = "refused"]
        IN n \in CallRecords /\ n.at = "answered"
    BY <1>1 DEF CallRecords
  <2>3. CASE \E p \in Plans : calls' = [calls EXCEPT ![c].at = "answered", ![c].result = "ok", ![c].plan = p]
    <3>1. PICK p \in Plans : calls' = [calls EXCEPT ![c].at = "answered", ![c].result = "ok", ![c].plan = p]
      BY <2>3
    <3>2. calls' = [calls EXCEPT ![c] = [calls[c] EXCEPT !.at = "answered", !.result = "ok", !.plan = p]]
      BY <1>1, <3>1
    <3> QED
      BY <2>1, <3>2
  <2>4. CASE calls' = [calls EXCEPT ![c].at = "answered", ![c].result = "refused"]
    <3>1. calls' = [calls EXCEPT ![c] = [calls[c] EXCEPT !.at = "answered", !.result = "refused"]]
      BY <1>1, <2>4
    <3> QED
      BY <2>2, <3>1
  <2> QED
    BY <1>2, <2>3, <2>4
<1>4. calls' \in [Calls -> CallRecords] /\ calls'[c] = n /\ \A d \in Calls \ {c} : calls'[d] = calls[d]
  BY <1>1, <1>3
<1>5. plans' \in Seq(Plans)
  <2>1. plans \in Seq(Plans)
    BY DEF ScreenType
  <2>2. \A p \in Plans : Append(plans, p) \in Seq(Plans)
    BY <2>1
  <2> QED
    BY <1>2, <2>1, <2>2
<1>6. ScreenType'
  BY <1>1, <1>3, <1>4, <1>5 DEF ScreenType
<1>7. ASSUME NEW p \in Plans
      PROVE  PlanTruth(p)'
  <2>1. AnswersStay(p)
    BY <1>1, <1>4 DEF AnswersStay
  <2>2. ASSUME NEW planData, Good(planData, p) PROVE Good(planData, p)'
    BY <1>1, <2>1, <2>2, GoodStays
  <2>3. PlanTruth(p) /\ ActivePlan' = ActivePlan
    BY <1>1 DEF ScreenTruth, ActivePlan, Active, InList
  <2> QED
    BY <1>1, <2>2, <2>3, TruthStays
<1> QED
  BY <1>6, <1>7 DEF ScreenTruth

-----------------------------------------------------------------------------
(* Answers to the mutations.                                               *)

\* invalidate() leaves no plan behind, whatever is under way.
LEMMA InvalidateTruth ==
  ASSUME ScreenType, NEW id, Invalidate(id), activeId' = id
  PROVE  /\ ScreenTruth'
         /\ detailFetch' \in [Plans -> Fetches]
         /\ \A p \in Plans : detailFetch'[p] # NoFetch => detailFetch'[p].at # "none"
         /\ UNCHANGED <<list, detail>>
<1>1. /\ stale' = {p \in Plans : detail[p] # NoData} /\ UNCHANGED <<list, detail>>
      /\ detailFetch' = [p \in Plans |-> IF p \in {ActivePlan, Active(list, id)} THEN Asked ELSE Spoilt(detailFetch[p])]
  BY DEF Invalidate
<1>2. ActivePlan' = Active(list, id)
  BY <1>1 DEF ActivePlan, Active, InList
<1>3. ASSUME NEW p \in Plans
      PROVE  /\ detailFetch'[p] \in Fetches
             /\ detailFetch'[p] # NoFetch => detailFetch'[p].at # "none"
             /\ p = ActivePlan' => detailFetch'[p] # NoFetch
             /\ ~ (detailFetch'[p].at = "read" /\ detailFetch'[p].clean)
  <2>1. CASE p \in {ActivePlan, Active(list, id)}
    <3>1. detailFetch'[p] = Asked
      BY <1>1, <2>1
    <3> QED
      BY <3>1, NoFetchType
  <2>2. CASE p \notin {ActivePlan, Active(list, id)}
    <3>1. detailFetch'[p] = Spoilt(detailFetch[p])
      BY <1>1, <2>2
    <3>2. detailFetch[p] \in Fetches /\ (detailFetch[p] # NoFetch => detailFetch[p].at # "none")
      BY DEF ScreenType
    <3> QED
      BY <1>2, <2>2, <3>1, <3>2, SpoiltFacts
  <2> QED
    BY <2>1, <2>2
<1>4. detailFetch' \in [Plans -> Fetches]
  BY <1>1, <1>3
<1>5. ASSUME NEW p \in Plans
      PROVE  PlanTruth(p)'
  <2>1. FetchIsGood(p)'
    BY <1>3 DEF FetchIsGood
  <2>2. p \in stale' \/ detail'[p] = NoData
    BY <1>1
  <2>3. DetailFollows(p)'
    BY <1>3, <2>2 DEF DetailFollows
  <2> QED
    BY <2>1, <2>3 DEF PlanTruth
<1> QED
  BY <1>1, <1>3, <1>4, <1>5 DEF ScreenTruth

\* A call that is over.
LEMMA DoneFacts ==
  ASSUME ScreenType, NEW c \in Calls, Done(c)
  PROVE  /\ UNCHANGED <<plans, routes>>
         /\ calls' \in [Calls -> CallRecords] /\ calls'[c] = NoCall /\ \A d \in Calls \ {c} : calls'[d] = calls[d]
         /\ \A d \in Calls : calls'[d].at = "sent" /\ calls'[d].kind \in RouteKinds => calls'[d].route \in Routes
         /\ \A p : ~ (calls[c].plan = p /\ calls[c].result \in {"ok", "broken"}) => AnswersStay(p)
<1>1. UNCHANGED <<plans, routes>> /\ calls' = [calls EXCEPT ![c] = NoCall] /\ calls \in [Calls -> CallRecords]
  BY DEF Done, server, ScreenType
<1>2. calls' \in [Calls -> CallRecords] /\ calls'[c] = NoCall /\ \A d \in Calls \ {c} : calls'[d] = calls[d]
  BY <1>1, NoCallType
<1>3. \A d \in Calls : calls'[d].at = "sent" /\ calls'[d].kind \in RouteKinds => calls'[d].route \in Routes
  BY <1>2, NoCallType DEF ScreenType
<1>4. ASSUME NEW p, ~ (calls[c].plan = p /\ calls[c].result \in {"ok", "broken"})
      PROVE  AnswersStay(p)
  BY <1>2, <1>4 DEF AnswersStay
<1> QED
  BY <1>1, <1>2, <1>3, <1>4

LEMMA FailStep ==
  ASSUME ScreenInvariant, NEW c \in Calls, Fail(c)
  PROVE  ScreenInvariant'
<1> USE DEF ScreenInvariant
<1> DEFINE q == calls[c].plan
<1>1. /\ calls[c].at = "answered" /\ calls[c].result # "ok" /\ Done(c)
      /\ missed' = IF calls[c].result = "broken" THEN missed \cup {q} ELSE missed
      /\ detailFetch' = IF calls[c].result = "broken" THEN [detailFetch EXCEPT ![q] = Spoilt(@)] ELSE detailFetch
      /\ UNCHANGED <<list, listFetch, detail, stale, activeId>>
  BY DEF Fail
<1>2. /\ UNCHANGED <<plans, routes>>
      /\ calls' \in [Calls -> CallRecords]
      /\ \A d \in Calls : calls'[d].at = "sent" /\ calls'[d].kind \in RouteKinds => calls'[d].route \in Routes
      /\ \A p : ~ (q = p /\ calls[c].result \in {"ok", "broken"}) => AnswersStay(p)
  BY <1>1, DoneFacts
<1> HIDE DEF q
<1>3. detailFetch \in [Plans -> Fetches] /\ \A p \in Plans : detailFetch[p] # NoFetch => detailFetch[p].at # "none"
  BY DEF ScreenType
<1>4. \A p \in Plans : \/ detailFetch'[p] = detailFetch[p] /\ ~ (p = q /\ calls[c].result = "broken")
                       \/ p = q /\ calls[c].result = "broken" /\ detailFetch'[p] = Spoilt(detailFetch[p])
  BY <1>1, <1>3
<1>5. /\ detailFetch' \in [Plans -> Fetches]
      /\ \A p \in Plans : detailFetch'[p] # NoFetch => detailFetch'[p].at # "none"
  <2>1. ASSUME NEW p \in Plans
        PROVE  /\ Spoilt(detailFetch[p]) \in Fetches
               /\ Spoilt(detailFetch[p]) # NoFetch => Spoilt(detailFetch[p]).at # "none"
    BY <1>3, SpoiltFacts
  <2> QED
    BY <1>1, <1>3, <2>1
<1>6. ScreenType'
  BY <1>1, <1>2, <1>5 DEF ScreenType
<1>7. ASSUME NEW p \in Plans
      PROVE  PlanTruth(p)'
  <2>1. CASE p = q /\ calls[c].result = "broken"
    <3>1. detailFetch'[p] = Spoilt(detailFetch[p]) /\ p \in missed'
      BY <1>1, <1>4, <2>1
    <3>2. detailFetch'[p].at = "read" => ~ detailFetch'[p].clean
      BY <1>3, <3>1, SpoiltFacts
    <3> QED
      BY <3>1, <3>2 DEF PlanTruth, FetchIsGood
  <2>2. CASE ~ (p = q /\ calls[c].result = "broken")
    <3>1. AnswersStay(p)
      BY <1>1, <1>2, <2>2
    <3>2. ASSUME NEW planData, Good(planData, p) PROVE Good(planData, p)'
      BY <1>2, <3>1, <3>2, GoodStays
    <3>3. PlanTruth(p) /\ ActivePlan' = ActivePlan
      BY <1>1 DEF ScreenTruth, ActivePlan, Active, InList
    <3>4. detailFetch'[p] = detailFetch[p] /\ (p \notin missed' => p \notin missed)
      BY <1>1, <1>4, <2>2
    <3> QED
      BY <1>1, <3>2, <3>3, <3>4, TruthStays
  <2> QED
    BY <2>1, <2>2
<1> QED
  BY <1>6, <1>7 DEF ScreenTruth

\* updateRouteCache: the route shown becomes the one on the server, or the plan is missed.
LEMMA PatchStep ==
  ASSUME ScreenInvariant, NEW c \in Calls, calls[c].at = "answered", calls[c].result = "ok", calls[c].kind \in Patching,
         PatchRoute(c), Done(c)
  PROVE  ScreenInvariant'
<1> USE DEF ScreenInvariant
<1>p. PICK p : p = calls[c].plan
  OBVIOUS
<1>r. PICK r : r = calls[c].route
  OBVIOUS
<1>q. PICK q : q = View(c)
  OBVIOUS
<1>1. /\ detail' = Patched(c)
      /\ stale' = IF q # None /\ detail[q] # NoData THEN stale \ {q} ELSE stale
      /\ detailFetch' = [detailFetch EXCEPT ![p] = Spoilt(@)]
      /\ missed' = missed \cup (IF q # p \/ ActivePlan # p \/ Overtaken(c) THEN {p} ELSE {})
                           \cup (IF q # ActivePlan /\ q \in stale THEN {q} ELSE {})
      /\ UNCHANGED <<list, activeId>>
  BY <1>p, <1>q DEF PatchRoute
<1>2. /\ UNCHANGED <<plans, routes>>
      /\ calls' \in [Calls -> CallRecords] /\ \A d \in Calls \ {c} : calls'[d] = calls[d]
      /\ \A d \in Calls : calls'[d].at = "sent" /\ calls'[d].kind \in RouteKinds => calls'[d].route \in Routes
      /\ \A x : p # x => AnswersStay(x)
  BY <1>p, DoneFacts
<1>3. /\ detailFetch \in [Plans -> Fetches] /\ \A x \in Plans : detailFetch[x] # NoFetch => detailFetch[x].at # "none"
      /\ detail \in [Plans -> DetailData] /\ routes \in [Plans -> [Routes -> RouteRecords]]
      /\ calls[c].answer \in RouteRecords
  BY DEF ScreenType, CallRecords
<1>4. ActivePlan' = ActivePlan
  BY <1>1 DEF ActivePlan, Active, InList
<1>5. /\ detailFetch' \in [Plans -> Fetches]
      /\ \A x \in Plans : detailFetch'[x] # NoFetch => detailFetch'[x].at # "none"
      /\ \A x \in Plans \ {p} : detailFetch'[x] = detailFetch[x]
      /\ p \in Plans => detailFetch'[p] = Spoilt(detailFetch[p])
  <2>1. ASSUME NEW x \in Plans
        PROVE  /\ Spoilt(detailFetch[x]) \in Fetches
               /\ Spoilt(detailFetch[x]) # NoFetch => Spoilt(detailFetch[x]).at # "none"
    BY <1>3, SpoiltFacts
  <2> QED
    BY <1>1, <1>3, <2>1
<1> DEFINE new == [calls[c].answer EXCEPT !.stops = detail[p][r].stops]
           drawn == q = p /\ detail[p] # NoData /\ detail[p][r] # Absent
<1>6. detail' = IF drawn THEN [detail EXCEPT ![p][r] = new] ELSE detail
  BY <1>1, <1>p, <1>q, <1>r DEF Patched
<1>7. ASSUME p \in Plans, r \in Routes, detail[p] # NoData
      PROVE  /\ new \in RouteRecords /\ new.status = calls[c].answer.status /\ new.crew = calls[c].answer.crew
             /\ new.stops = detail[p][r].stops
  <2>1. detail[p][r].stops \in Nat
    BY <1>3, <1>7 DEF DetailData, RouteRecords, NoData, Absent
  <2> QED
    BY <1>3, <2>1 DEF RouteRecords
<1> HIDE DEF new, drawn
<1>8. /\ detail' \in [Plans -> DetailData]
      /\ \A x \in Plans \ {p} : detail'[x] = detail[x]
      /\ \A s \in Routes \ {r} : p \in Plans => detail'[p][s] = detail[p][s]
      /\ p \in Plans /\ r \in Routes /\ drawn => detail'[p][r] = new
      /\ ~drawn => detail' = detail
      /\ p \in Plans /\ Routes # {} /\ drawn => detail'[p] # NoData
  <2>1. CASE ~drawn
    BY <1>3, <1>6, <2>1
  <2>2. CASE drawn /\ p \notin Plans
    <3>1. detail' = detail
      BY <1>3, <1>6, <2>2
    <3> QED
      BY <1>3, <2>2, <3>1
  <2>3. CASE drawn /\ p \in Plans
    <3>1. detail[p] \in [Routes -> RouteRecords]
      BY <1>3, <2>3 DEF DetailData, drawn
    <3> DEFINE changed == [detail[p] EXCEPT ![r] = new]
    <3>2. changed \in [Routes -> RouteRecords]
      BY <1>7, <2>3, <3>1 DEF drawn
    <3>3. (r \in Routes => changed[r] = new) /\ \A s \in Routes \ {r} : changed[s] = detail[p][s]
      BY <3>1
    <3>4. detail' = [detail EXCEPT ![p] = changed]
      BY <1>3, <1>6, <2>3
    <3> HIDE DEF changed
    <3>5. Routes # {} => changed # NoData
      BY <3>2, ScreenAssumption DEF NoData
    <3> QED
      BY <1>3, <2>3, <3>2, <3>3, <3>4, <3>5 DEF DetailData
  <2> QED
    BY <2>1, <2>2, <2>3
<1>9. ScreenType'
  BY <1>1, <1>2, <1>5, <1>8 DEF ScreenType
<1>10. ASSUME NEW x \in Plans, x # p
       PROVE  PlanTruth(x)'
  <2>1. AnswersStay(x)
    BY <1>2, <1>10
  <2>2. ASSUME NEW planData, Good(planData, x) PROVE Good(planData, x)'
    BY <1>2, <2>1, <2>2, GoodStays
  <2>3. PlanTruth(x)
    BY DEF ScreenTruth
  <2>4. x \notin missed' => x \notin missed
    BY <1>1
  <2>5. x \notin missed' /\ x # ActivePlan /\ x \in stale => x \in stale'
    BY <1>1
  <2> QED
    BY <1>4, <1>5, <1>8, <1>10, <2>2, <2>3, <2>4, <2>5, TruthStays
<1>11. ASSUME p \in Plans
       PROVE  PlanTruth(p)'
  <2>1. FetchIsGood(p)'
    <3>1. detailFetch'[p].at = "read" => ~ detailFetch'[p].clean
      BY <1>3, <1>5, <1>11, SpoiltFacts
    <3> QED
      BY <3>1 DEF FetchIsGood
  <2>2. ASSUME p \notin missed'
        PROVE  DetailFollows(p)'
    <3>1. q = p /\ ActivePlan = p /\ ~ Overtaken(c) /\ p \notin missed
      BY <1>1, <2>2
    <3>2. Good(detail[p], p) \/ detailFetch[p] # NoFetch
      BY <1>11, <3>1 DEF ScreenTruth, PlanTruth, DetailFollows
    <3>3. CASE detailFetch[p] # NoFetch
      BY <1>3, <1>5, <1>11, <3>3, SpoiltFacts DEF DetailFollows
    <3>4. CASE Rereads(p)
      <4>1. PICK d \in Calls : /\ calls[d].at = "answered" /\ calls[d].plan = p
                               /\ calls[d].result = "broken" \/ (calls[d].result = "ok" /\ calls[d].kind \notin Patching)
        BY <3>4 DEF Rereads
      <4>2. d # c
        BY <4>1
      <4>3. calls'[d] = calls[d]
        BY <1>2, <4>2
      <4>4. Rereads(p)'
        BY <4>1, <4>3 DEF Rereads
      <4> QED
        BY <4>4 DEF DetailFollows, Good
    <3>5. CASE AgreesButForPatches(detail[p], p)
      <4>1. ASSUME NEW s \in Routes
            PROVE  \/ detail'[p][s] = routes'[p][s]
                   \/ /\ Patches(p, s)' /\ detail'[p] # NoData /\ detail'[p][s] # Absent
                      /\ detail'[p][s].stops = routes'[p][s].stops
        <5>1. \/ detail[p][s] = routes[p][s]
              \/ /\ Patches(p, s) /\ detail[p] # NoData /\ detail[p][s] # Absent
                 /\ detail[p][s].stops = routes[p][s].stops
          BY <3>5 DEF AgreesButForPatches
        <5>2. CASE s # r
          <6>1. Patches(p, s) => Patches(p, s)'
            BY <1>2, <1>r, <5>2 DEF Patches
          <6>2. detail'[p][s] = detail[p][s]
            BY <1>8, <1>11, <5>2
          <6>3. detail[p] # NoData => detail'[p] # NoData
            BY <1>8, <1>11
          <6> QED
            BY <1>2, <5>1, <6>1, <6>2, <6>3
        <5>3. CASE s = r /\ drawn
          <6>1. detail'[p][s] = new /\ detail[p] # NoData
            BY <1>8, <1>11, <5>3 DEF drawn
          <6>2. new \in RouteRecords /\ new.status = calls[c].answer.status /\ new.crew = calls[c].answer.crew
                /\ new.stops = detail[p][s].stops
            BY <1>7, <1>11, <5>3, <6>1
          <6>3. calls[c].answer.status = routes[p][s].status /\ calls[c].answer.crew = routes[p][s].crew
            BY <1>p, <1>r, <3>1, <5>3 DEF Overtaken
          <6>4. detail[p][s].stops = routes[p][s].stops
            BY <5>1
          <6>5. routes[p][s] \in RouteRecords
            BY <1>3, <1>11
          <6>6. new = routes[p][s]
            BY <6>2, <6>3, <6>4, <6>5 DEF RouteRecords
          <6> QED
            BY <1>2, <6>1, <6>6
        <5>4. CASE s = r /\ ~ drawn
          <6>1. detail' = detail
            BY <1>8, <5>4
          <6>2. detail[p][s] = routes[p][s]
            BY <3>1, <5>1, <5>4 DEF drawn
          <6> QED
            BY <1>2, <6>1, <6>2
        <5> QED
          BY <5>2, <5>3, <5>4
      <4> QED
        BY <4>1 DEF DetailFollows, Good, AgreesButForPatches
    <3> QED
      BY <3>2, <3>3, <3>4, <3>5 DEF Good
  <2> QED
    BY <2>1, <2>2 DEF PlanTruth
<1> QED
  BY <1>9, <1>10, <1>11 DEF ScreenTruth

LEMMA SucceedStep ==
  ASSUME ScreenInvariant, NEW c \in Calls, Succeed(c)
  PROVE  ScreenInvariant'
<1> USE DEF ScreenInvariant
<1>1. calls[c].at = "answered" /\ calls[c].result = "ok" /\ calls[c] \in CallRecords
  BY DEF Succeed, ScreenType
<1>2. CASE calls[c].kind \in Patching
  <2>1. PatchRoute(c) /\ Done(c)
    BY <1>2 DEF Succeed, Patching
  <2> QED
    BY <1>1, <1>2, <2>1, PatchStep
<1>3. CASE calls[c].kind = "create"
  <2> DEFINE n == [NoCall EXCEPT !.at = "sent", !.kind = "optimise", !.plan = calls[c].plan]
  <2>1. /\ activeId' = calls[c].plan /\ Invalidate(calls[c].plan)
        /\ calls' = [calls EXCEPT ![c] = n] /\ UNCHANGED <<plans, routes>>
    BY <1>3 DEF Succeed, Patching, server
  <2>2. n \in CallRecords /\ n.kind = "optimise" /\ calls[c].plan \in Plans \cup {None}
    BY <1>1, NoCallType DEF CallRecords, CallKinds
  <2> HIDE DEF n
  <2>3. calls \in [Calls -> CallRecords] /\ "optimise" \notin RouteKinds
    BY DEF ScreenType, RouteKinds
  <2>4. /\ calls' \in [Calls -> CallRecords]
        /\ \A d \in Calls : calls'[d].at = "sent" /\ calls'[d].kind \in RouteKinds => calls'[d].route \in Routes
    BY <2>1, <2>2, <2>3 DEF ScreenType
  <2>5. /\ ScreenTruth' /\ detailFetch' \in [Plans -> Fetches] /\ UNCHANGED <<list, detail>>
        /\ \A p \in Plans : detailFetch'[p] # NoFetch => detailFetch'[p].at # "none"
    BY <2>1, InvalidateTruth
  <2> QED
    BY <2>1, <2>2, <2>4, <2>5 DEF ScreenType
<1>4. CASE calls[c].kind \notin Patching \cup {"create"}
  <2>1. PICK id : activeId' = id /\ Invalidate(id) /\ id \in {None, activeId} /\ Done(c)
    <3>1. CASE calls[c].kind = "removePlan"
      BY <3>1 DEF Succeed, Patching
    <3>2. CASE calls[c].kind # "removePlan"
      BY <1>4, <3>2 DEF Succeed, Patching
    <3> QED
      BY <3>1, <3>2
  <2>2. /\ ScreenTruth' /\ detailFetch' \in [Plans -> Fetches] /\ UNCHANGED <<list, detail>>
        /\ \A p \in Plans : detailFetch'[p] # NoFetch => detailFetch'[p].at # "none"
    BY <2>1, InvalidateTruth
  <2>3. /\ UNCHANGED <<plans, routes>> /\ calls' \in [Calls -> CallRecords]
        /\ \A d \in Calls : calls'[d].at = "sent" /\ calls'[d].kind \in RouteKinds => calls'[d].route \in Routes
    BY <2>1, DoneFacts
  <2> QED
    BY <2>1, <2>2, <2>3 DEF ScreenType
<1> QED
  BY <1>2, <1>3, <1>4

-----------------------------------------------------------------------------
(* The specification.                                                      *)

LEMMA ScreenInitially == ScreenInit => ScreenInvariant
<1> SUFFICES ASSUME ScreenInit
             PROVE  ScreenInvariant
  OBVIOUS
<1>1. plans \in Seq(Plans)
  <2>1. PICK S \in SUBSET Plans : plans \in SetToSeqs(S)
    BY DEF ScreenInit, SetToAllKPermutations
  <2>2. IsFiniteSet(S)
    BY ScreenAssumption, FS_Subset
  <2>3. Cardinality(S) \in Nat
    BY <2>2, FS_CardinalityType
  <2>4. plans \in [1..Cardinality(S) -> S]
    BY <2>1 DEF SetToSeqs
  <2>5. plans \in [1..Cardinality(S) -> Plans]
    BY <2>4
  <2> QED
    BY <2>3, <2>5
<1>2. routes \in [Plans -> [Routes -> RouteRecords]]
  <2>1. PlannedRoute(1) \in RouteRecords
    BY AbsentIsARoute
  <2>2. [r \in Routes |-> PlannedRoute(1)] \in [Routes -> RouteRecords] /\ NoRoutes \in [Routes -> RouteRecords]
    BY <2>1, AbsentIsARoute DEF NoRoutes
  <2>3. routes = [p \in Plans |-> IF InList(p, plans) THEN [r \in Routes |-> PlannedRoute(1)] ELSE NoRoutes]
    BY DEF ScreenInit
  <2> QED
    BY <2>2, <2>3
<1>3. /\ list = <<>> /\ activeId = None /\ \A c \in Calls : calls[c] = NoCall
      /\ \A p \in Plans : detail[p] = NoData /\ detailFetch[p] = NoFetch
      /\ calls \in [Calls -> CallRecords] /\ detail \in [Plans -> DetailData] /\ detailFetch \in [Plans -> Fetches]
  BY NoCallType, NoFetchType DEF ScreenInit, DetailData
<1>4. ScreenType
  BY <1>1, <1>2, <1>3, NoCallType DEF ScreenType
<1>5. ActivePlan = None
  BY <1>3 DEF ActivePlan, Active, InList
<1>6. ASSUME NEW p \in Plans
      PROVE  PlanTruth(p)
  BY <1>3, <1>5, NoFetchType, ScreenAssumption DEF PlanTruth, FetchIsGood, DetailFollows
<1> QED
  BY <1>4, <1>6 DEF ScreenInvariant, ScreenTruth

LEMMA ScreenStep ==
  ASSUME ScreenInvariant, [ScreenNext]_screen
  PROVE  ScreenInvariant'
<1>1. CASE UNCHANGED screen
  BY <1>1 DEF screen, ScreenInvariant, ScreenType, ScreenTruth, PlanTruth, FetchIsGood, DetailFollows, Good,
              AgreesButForPatches, Rereads, Patches, ActivePlan, Active, InList
<1>2. ASSUME NEW c \in Calls, ClickCreate(c)
      PROVE  ScreenInvariant'
  BY <1>2, SendStep DEF ClickCreate, CallKinds, RouteKinds
<1>3. ASSUME NEW c \in Calls, AddVehicle(c)
      PROVE  ScreenInvariant'
  BY <1>3, SendStep DEF AddVehicle, CallKinds, RouteKinds
<1>4. ASSUME NEW c \in Calls, NEW k \in {"removePlan", "optimise"}, ClickPlan(c, k)
      PROVE  ScreenInvariant'
  BY <1>4, SendStep DEF ClickPlan, CallKinds, RouteKinds
<1>5. ASSUME NEW c \in Calls, NEW r \in Routes, EditOrders(c, r)
      PROVE  ScreenInvariant'
  BY <1>5, SendStep DEF EditOrders, CallKinds, RouteKinds
<1>6. ASSUME NEW c \in Calls, NEW r \in Routes, NEW k \in DOMAIN Needs, Click(c, r, k)
      PROVE  ScreenInvariant'
  <2>1. k \in RouteKinds /\ k \in CallKinds /\ Send(c, k, r)
    BY <1>6, NeedsKinds DEF Click, CallKinds
  <2> QED
    BY <2>1, SendStep
<1>7. ASSUME NEW c \in Calls,
             \/ ServeRoute(c) \/ ServeAddRoute(c) \/ ServeOptimise(c) \/ ServeCreate(c) \/ ServeRemovePlan(c)
             \/ Succeed(c) \/ Fail(c)
      PROVE  ScreenInvariant'
  BY <1>7, ServeRouteStep, ServeAddRouteStep, ServeOptimiseStep, ServeCreateStep, ServeRemovePlanStep, SucceedStep, FailStep
<1>8. ASSUME NEW p \in Plans, SelectPlan(p) \/ GrowOld(p) \/ DetailRead(p) \/ DetailArrives(p)
      PROVE  ScreenInvariant'
  BY <1>8, SelectPlanStep, GrowOldStep, DetailReadStep, DetailArrivesStep
<1>9. CASE ListArrives
  BY <1>9, ListArrivesStep
<1> QED
  BY <1>1, <1>2, <1>3, <1>4, <1>5, <1>6, <1>7, <1>8, <1>9 DEF ScreenNext

LEMMA InvariantRests == ScreenInvariant => RestingScreenIsTrue
<1> SUFFICES ASSUME ScreenInvariant, \A c \in Calls : calls[c] = NoCall,
                    NEW p, p = ActivePlan, p # None, detailFetch[p] = NoFetch, p \notin missed
             PROVE  detail[p] = routes[p]
  BY DEF RestingScreenIsTrue
<1>1. p \in Plans
  <2>1. Active(list, activeId) \in Plans \cup {None}
    BY ActiveType DEF ScreenInvariant, ScreenType
  <2> QED
    BY <2>1 DEF ActivePlan
<1>2. Good(detail[p], p)
  BY <1>1 DEF ScreenInvariant, ScreenTruth, PlanTruth, DetailFollows
<1>3. ~ Rereads(p) /\ \A r : ~ Patches(p, r)
  BY NoCallType DEF Rereads, Patches
<1>4. \A r \in Routes : detail[p][r] = routes[p][r]
  BY <1>2, <1>3 DEF Good, AgreesButForPatches
<1>5. routes[p] \in [Routes -> RouteRecords] /\ detail[p] \in DetailData
  BY <1>1 DEF ScreenInvariant, ScreenType
<1>6. detail[p] = [r \in Routes |-> detail[p][r]]
  BY <1>5 DEF DetailData, NoData
<1> QED
  BY <1>4, <1>5, <1>6

\* With any number of plans, routes and requests, when nothing is under way the plan that
\* PlanningPage.jsx shows has the routes it has on the server, unless an answer was patched
\* into another plan, met a fetch that was read before it, or was overtaken.
THEOREM RestingScreen == ScreenSpec => []RestingScreenIsTrue
<1>1. ScreenSpec => []ScreenInvariant
  BY ScreenInitially, ScreenStep, PTL DEF ScreenSpec
<1> QED
  BY <1>1, InvariantRests, PTL

-----------------------------------------------------------------------------
(* The other screens of MCScreens: IncidentDesk, NoticeList, TripChat and  *)
(* MaintenanceDesk.  One of them is at work; the others stand still.       *)

\* IncidentDesk: a closed incident that a desk still shows, or is about to, is one the desk
\* may not know to be closed; so every click on a closed one was made unaware.
ClickRecords ==
    [desk : Desks \cup {NoOne}, incident : Incidents \cup {NoOne},
     status : {"ACKNOWLEDGED", NoOne} \cup Closed, served : BOOLEAN, unaware : BOOLEAN]
DeskTypes ==
    /\ DOMAIN incident = Incidents
    /\ feed \in [Desks -> [Lists -> SUBSET Incidents]]
    /\ poll \in [Desks -> [Lists -> (SUBSET Incidents) \cup {NoOne}]]
    /\ closedFor \in [Incidents -> SUBSET Desks]
    /\ click \in [Clicks -> ClickRecords]
    /\ \A c \in Clicks : click[c] # NoClick =>
          /\ click[c].incident \in Incidents /\ click[c].desk \in Desks
          /\ click[c].status \in {"ACKNOWLEDGED"} \cup Closed
Stale(d, i) == \E l \in Lists : i \in feed[d][l] \/ (poll[d][l] # NoOne /\ i \in poll[d][l])
ClosedButShown ==
    \A i \in Incidents, d \in Desks : incident[i].status \in Closed /\ Stale(d, i) => d \in closedFor[i]
ClicksAreUnaware == \A c \in Clicks : click[c] # NoClick => click[c].unaware
DeskInvariant == DeskTypes /\ ClosedButShown /\ ClicksAreUnaware

\* NoticeList: the count covers what is unread and the marks that are served and not answered.
CardRecords == [n : Nat, read : BOOLEAN]
NoticeTypes ==
    /\ notices \in Seq(BOOLEAN)
    /\ reached \in 0 .. Len(notices) /\ count \in Nat /\ muddled \in BOOLEAN
    /\ \A i \in DOMAIN cards : cards[i] \in CardRecords /\ cards[i].n <= reached
    /\ mark \in [Marks -> [at : {"none", "sent", "served"}, n : Nat]]
    /\ \A m \in Marks : mark[m].n <= reached
UnreadUpTo(k) == {n \in 1 .. k : ~notices[n]}
ServedMarks == {m \in Marks : mark[m].at = "served" /\ mark[m].n > 0}
LoadCovers ==
    \/ load = <<>>
    \/ \E got : /\ load = <<got>>
                /\ got.count \in Nat /\ got.reached \in reached .. Len(notices)
                /\ got.count >= Cardinality(UnreadUpTo(got.reached))
                /\ \A i \in DOMAIN got.cards : got.cards[i] \in CardRecords /\ got.cards[i].n <= got.reached
CountCovers ==
    ~muddled => \/ UnreadUpTo(reached) = {}
                \/ count >= Cardinality(UnreadUpTo(reached)) + Cardinality(ServedMarks)
AllRead == ~muddled /\ (\E m \in Marks : mark[m].at = "served" /\ mark[m].n = 0) => UnreadUpTo(reached) = {}
NoticeInvariant == NoticeTypes /\ LoadCovers /\ CountCovers /\ AllRead

\* TripChat: counts lag behind the messages, and what is not late is of the tab.
FetchRecords == [at : {"none", "asked", "read"}, got : SUBSET Nat, fresh : BOOLEAN]
AnswerRecords == [tab : Trips \cup {NoChat}, got : SUBSET Nat, reply : BOOLEAN, late : BOOLEAN]
ChatTypes ==
    /\ \E S : messages \in Seq(S)
    /\ unread \in [Trips -> Nat] /\ seen \in [Trips -> Nat]
    /\ unreadPoll = <<>> \/ \E u \in [Trips -> Nat] : unreadPoll = <<u>>
    /\ chat \in Trips \cup {NoChat} /\ tab \in Trips \cup {NoChat}
    /\ listed \in [Trips -> SUBSET Nat]
    /\ chatFetch \in [Trips -> FetchRecords]
    /\ fresh \in BOOLEAN /\ late \in BOOLEAN
    /\ mine \in SUBSET Nat /\ answers \subseteq AnswerRecords
    /\ reply.tab \in Trips \cup {NoChat}
    /\ timer = tab
Written(t) == Cardinality(FromDriver(OfTrip(t)))
CountsLag ==
    \A t \in Trips : /\ unread[t] <= Written(t) /\ seen[t] <= Written(t)
                     /\ \A u \in [Trips -> Nat] : unreadPoll = <<u>> => u[t] <= Written(t)
ListsAreOfMessages ==
    \A t \in Trips : listed[t] \subseteq DOMAIN messages /\ chatFetch[t].got \subseteq DOMAIN messages
OpenChatFollows ==
    chat # NoChat =>
        /\ fresh => Cardinality(FromDriver(listed[chat])) >= seen[chat]
        /\ chatFetch[chat].at = "read" /\ chatFetch[chat].fresh =>
               Cardinality(FromDriver(chatFetch[chat].got)) >= seen[chat]
        /\ fresh /\ chatFetch[chat].at = "read" => chatFetch[chat].fresh
TabFollows ==
    tab # NoChat =>
        /\ ~late => mine \subseteq OfTrip(tab)
        /\ \A a \in answers : ~a.late => a.got \subseteq OfTrip(tab)
ChatInvariant == ChatTypes /\ CountsLag /\ ListsAreOfMessages /\ OpenChatFollows /\ TabFollows

\* MaintenanceDesk: what is not excused agrees with the record, but for a list that is about
\* to be read again.
OrderKinds == {"create", "edit", "approve", "remove"}
AnyStatus == JobStatus \cup {"none", "gone"}
Someone == Assignees \cup {Nobody}
Docs == [status : AnyStatus, driver : Someone, acknowledged : BOOLEAN]
OrderRecords ==
    [kind : OrderKinds \cup {"none"}, at : {"idle", "sent", "served"}, status : AnyStatus, driver : Someone,
     picked : BOOLEAN, excused : BOOLEAN]
FormRecords ==
    [open : BOOLEAN, for : {NewJob, "row"}, status : AnyStatus, driver : Someone, picked : BOOLEAN, excused : BOOLEAN]
JobsTypes ==
    /\ job \in Docs
    /\ jobRow \in [row : Docs, excused : BOOLEAN]
    /\ jobFetch \in [at : {"idle", "asked", "read"}, row : Docs, excused : BOOLEAN]
    /\ jobForm \in FormRecords
    /\ review \in [row : Docs, excused : BOOLEAN]
    /\ order \in [Orders -> OrderRecords]
    /\ \A o \in Orders : order[o] # NoOrder => order[o].kind \in OrderKinds /\ order[o].at \in {"sent", "served"}
RowAgrees(row) == row = NoJob \/ row.status = job.status
UpdateComes == \E o \in Orders : order[o].at = "served"
ListAgrees ==
    /\ jobRow.excused \/ RowAgrees(jobRow.row) \/ UpdateComes \/ jobFetch.at # "idle"
    /\ jobFetch.at = "read" => jobFetch.excused \/ RowAgrees(jobFetch.row) \/ UpdateComes
FormAgrees == jobForm.open /\ jobForm.for # NewJob /\ ~jobForm.excused => jobForm.status = job.status
ReviewAgrees == review # NotReviewing /\ ~review.excused => job.status = "AWAITING_REVIEW"
ChangesAgree ==
    \A o \in Orders : order[o].at = "sent" /\ ~order[o].excused =>
        /\ order[o].kind = "edit" /\ ~order[o].picked => order[o].status = job.status
        /\ order[o].kind = "approve" => job.status = "AWAITING_REVIEW"
JobsInvariant == JobsTypes /\ ListAgrees /\ FormAgrees /\ ReviewAgrees /\ ChangesAgree

-----------------------------------------------------------------------------
(* IncidentDesk.                                                           *)

LEMMA NoClickType == NoClick \in ClickRecords
BY DEF NoClick, ClickRecords

LEMMA DeskInitially == DeskInit => DeskInvariant
<1> SUFFICES ASSUME DeskInit
             PROVE  DeskInvariant
  OBVIOUS
<1>1. \A i \in Incidents : incident[i].status \notin Closed
  BY DEF DeskInit, Unreported, Closed
<1>2. click \in [Clicks -> ClickRecords] /\ \A c \in Clicks : click[c] = NoClick
  BY NoClickType DEF DeskInit
<1>3. DOMAIN incident = Incidents /\ closedFor \in [Incidents -> SUBSET Desks]
  BY DEF DeskInit
<1>4. /\ feed \in [Desks -> [Lists -> SUBSET Incidents]]
      /\ poll \in [Desks -> [Lists -> (SUBSET Incidents) \cup {NoOne}]]
  BY DEF DeskInit
<1> QED
  BY <1>1, <1>2, <1>3, <1>4 DEF DeskInvariant, DeskTypes, ClosedButShown, ClicksAreUnaware

\* One answer under way becomes another.
LEMMA PollsStay ==
  ASSUME NEW d \in Desks, NEW l \in Lists, NEW got \in (SUBSET Incidents) \cup {NoOne},
         poll \in [Desks -> [Lists -> (SUBSET Incidents) \cup {NoOne}]],
         poll' = [poll EXCEPT ![d][l] = got]
  PROVE  /\ poll' \in [Desks -> [Lists -> (SUBSET Incidents) \cup {NoOne}]]
         /\ poll'[d][l] = got
         /\ \A e \in Desks, m \in Lists : e # d \/ m # l => poll'[e][m] = poll[e][m]
<1>1. PICK asked \in [Lists -> (SUBSET Incidents) \cup {NoOne}] : asked = [poll[d] EXCEPT ![l] = got]
  OBVIOUS
<1>2. poll' = [poll EXCEPT ![d] = asked]
  BY <1>1
<1> QED
  BY <1>1, <1>2

LEMMA PollReadKeeps ==
  ASSUME DeskInvariant, NEW d \in Desks, NEW l \in Lists, PollRead(d, l)
  PROVE  DeskInvariant'
<1> USE DEF DeskInvariant
<1>0. Listed(l) \in SUBSET Incidents /\ poll' = [poll EXCEPT ![d][l] = Listed(l)]
  BY DEF PollRead, Listed
<1>1. /\ UNCHANGED <<incident, feed, click, closedFor>>
      /\ poll' \in [Desks -> [Lists -> (SUBSET Incidents) \cup {NoOne}]]
      /\ \A e \in Desks, m \in Lists : poll'[e][m] = poll[e][m] \/ poll'[e][m] = Listed(m)
  BY <1>0, PollsStay DEF PollRead, DeskTypes
<1>2. \A i \in Incidents, m \in Lists : i \in Listed(m) => incident[i].status \notin Closed
  BY DEF Listed, Lists, Closed
<1>3. \A e \in Desks, i \in Incidents : incident[i].status \in Closed /\ Stale(e, i)' => Stale(e, i)
  BY <1>1, <1>2 DEF Stale
<1> QED
  BY <1>1, <1>3 DEF DeskTypes, ClosedButShown, ClicksAreUnaware

\* Whom the history forgets sees the incident no more.
LEMMA PollArrivesKeeps ==
  ASSUME DeskInvariant, NEW d \in Desks, NEW l \in Lists, PollArrives(d, l)
  PROVE  DeskInvariant'
<1> USE DEF DeskInvariant
<1>1. /\ UNCHANGED <<incident, click>> /\ poll[d][l] # NoOne /\ poll[d][l] \in SUBSET Incidents
      /\ feed' = [feed EXCEPT ![d][l] = poll[d][l]]
      /\ poll' = [poll EXCEPT ![d][l] = NoOne]
      /\ closedFor' = [i \in Incidents |->
             IF \E m \in Lists : i \in feed'[d][m] \/ (m # l /\ poll[d][m] # NoOne /\ i \in poll[d][m])
             THEN closedFor[i] ELSE closedFor[i] \ {d}]
  <2>1. poll[d][l] # NoOne /\ poll[d][l] \in SUBSET Incidents
    BY DEF PollArrives, DeskTypes
  <2> QED
    BY <2>1 DEF PollArrives
<1>2. /\ feed' \in [Desks -> [Lists -> SUBSET Incidents]]
      /\ poll' \in [Desks -> [Lists -> (SUBSET Incidents) \cup {NoOne}]]
      /\ closedFor' \in [Incidents -> SUBSET Desks]
  <2>1. feed' \in [Desks -> [Lists -> SUBSET Incidents]]
    BY <1>1 DEF DeskTypes
  <2>2. poll' \in [Desks -> [Lists -> (SUBSET Incidents) \cup {NoOne}]]
    BY <1>1, PollsStay DEF DeskTypes
  <2>3. closedFor' \in [Incidents -> SUBSET Desks]
    BY <1>1 DEF DeskTypes
  <2> QED
    BY <2>1, <2>2, <2>3
<1>3. \A e \in Desks, i \in Incidents : Stale(e, i)' => Stale(e, i)
  BY <1>1 DEF Stale, DeskTypes
<1>4. \A i \in Incidents : Stale(d, i)' =>
          \E m \in Lists : i \in feed'[d][m] \/ (m # l /\ poll[d][m] # NoOne /\ i \in poll[d][m])
  BY <1>1 DEF Stale, DeskTypes
<1>5. \A e \in Desks, i \in Incidents : e \in closedFor[i] /\ Stale(e, i)' => e \in closedFor'[i]
  BY <1>1, <1>4
<1> QED
  BY <1>1, <1>2, <1>3, <1>5 DEF DeskTypes, ClosedButShown, ClicksAreUnaware

LEMMA ClickCardKeeps ==
  ASSUME DeskInvariant, NEW c \in Clicks, NEW d \in Desks, NEW i \in Incidents, NEW s \in Offers(d, i), ClickCard(c, d, i, s)
  PROVE  DeskInvariant'
<1> USE DEF DeskInvariant
<1>1. s \in {"ACKNOWLEDGED"} \cup Closed /\ Stale(d, i)
  BY DEF Offers, Stale, Lists
<1>2. incident[i].status \notin Closed \/ d \in closedFor[i]
  BY <1>1 DEF ClosedButShown
<1>3. PICK u \in BOOLEAN : u = (incident[i].status \notin Closed \/ d \in closedFor[i])
  OBVIOUS
<1>4. PICK new : new = [NoClick EXCEPT !.desk = d, !.incident = i, !.status = s, !.unaware = u]
  OBVIOUS
<1>5. click' = [click EXCEPT ![c] = new] /\ UNCHANGED <<incident, feed, poll, closedFor>>
  BY <1>3, <1>4 DEF ClickCard
<1>6. u
  BY <1>2, <1>3
<1>7. new \in ClickRecords /\ new.desk = d /\ new.incident = i /\ new.status = s /\ new.unaware
  <2>1. new \in ClickRecords /\ new.desk = d /\ new.incident = i /\ new.status = s /\ new.unaware = u
    BY <1>1, <1>4, NoClickType DEF ClickRecords
  <2>2. u = TRUE
    BY <1>6
  <2> QED
    BY <2>1, <2>2
<1>8. /\ click' \in [Clicks -> ClickRecords]
      /\ \A e \in Clicks : click'[e] # NoClick =>
            /\ click'[e].incident \in Incidents /\ click'[e].desk \in Desks
            /\ click'[e].status \in {"ACKNOWLEDGED"} \cup Closed /\ click'[e].unaware
  BY <1>1, <1>5, <1>7 DEF DeskTypes, ClicksAreUnaware
<1> QED
  BY <1>5, <1>8 DEF DeskTypes, ClosedButShown, ClicksAreUnaware, Stale

LEMMA UpdateIncidentKeeps ==
  ASSUME DeskInvariant, NEW c \in Clicks, UpdateIncident(c)
  PROVE  DeskInvariant'
<1> USE DEF DeskInvariant
<1>1. PICK i \in Incidents : i = click[c].incident
  BY DEF UpdateIncident, DeskTypes
<1>2. PICK s \in {"ACKNOWLEDGED"} \cup Closed : s = click[c].status
  BY DEF UpdateIncident, DeskTypes
<1>3. /\ DOMAIN incident' = Incidents /\ incident'[i].status = s
      /\ \A j \in Incidents \ {i} : incident'[j] = incident[j]
  BY <1>1, <1>2 DEF UpdateIncident, DeskTypes
<1>4. /\ closedFor' = [closedFor EXCEPT ![i] = IF s \in Closed THEN Desks ELSE {}]
      /\ click' = [click EXCEPT ![c].served = TRUE]
      /\ UNCHANGED <<feed, poll>>
  BY <1>1, <1>2 DEF UpdateIncident
<1>5. /\ click' \in [Clicks -> ClickRecords] /\ closedFor' \in [Incidents -> SUBSET Desks]
      /\ \A e \in Clicks : click'[e] # NoClick =>
            /\ click'[e].incident \in Incidents /\ click'[e].desk \in Desks
            /\ click'[e].status \in {"ACKNOWLEDGED"} \cup Closed /\ click'[e].unaware
  <2>1. click[c] # NoClick /\ click[c] \in ClickRecords
    BY DEF UpdateIncident, DeskTypes
  <2> QED
    BY <1>4, <2>1 DEF DeskTypes, ClicksAreUnaware, ClickRecords
<1>6. ClosedButShown'
  <2>1. ASSUME NEW j \in Incidents, NEW d \in Desks, incident'[j].status \in Closed, Stale(d, j)'
        PROVE  d \in closedFor'[j]
    <3>1. CASE j = i
      BY <1>3, <1>4, <2>1, <3>1 DEF DeskTypes
    <3>2. CASE j # i
      BY <1>3, <1>4, <2>1, <3>2 DEF DeskTypes, ClosedButShown, Stale
    <3> QED
      BY <3>1, <3>2
  <2> QED
    BY <2>1 DEF ClosedButShown
<1> QED
  BY <1>3, <1>4, <1>5, <1>6 DEF DeskTypes, ClicksAreUnaware

LEMMA UpdatedKeeps ==
  ASSUME DeskInvariant, NEW c \in Clicks, Updated(c)
  PROVE  DeskInvariant'
<1> USE DEF DeskInvariant
<1>1. /\ poll' = [poll EXCEPT ![click[c].desk] = [l \in Lists |-> NoOne]]
      /\ click' = [click EXCEPT ![c] = NoClick]
      /\ UNCHANGED <<incident, feed, closedFor>>
  BY DEF Updated
<1>2. /\ poll' \in [Desks -> [Lists -> (SUBSET Incidents) \cup {NoOne}]]
      /\ \A e \in Desks, m \in Lists : poll'[e][m] = poll[e][m] \/ poll'[e][m] = NoOne
  <2>1. PICK none \in [Lists -> (SUBSET Incidents) \cup {NoOne}] : none = [l \in Lists |-> NoOne]
    OBVIOUS
  <2>2. \A m \in Lists : none[m] = NoOne
    BY <2>1
  <2>3. poll' = [poll EXCEPT ![click[c].desk] = none]
    BY <1>1, <2>1
  <2> QED
    BY <2>2, <2>3 DEF DeskTypes
<1>3. click' \in [Clicks -> ClickRecords] /\ \A e \in Clicks : click'[e] = click[e] \/ click'[e] = NoClick
  BY <1>1 DEF DeskTypes, ClickRecords, NoClick
<1>4. \A e \in Desks, i \in Incidents : Stale(e, i)' => Stale(e, i)
  BY <1>1, <1>2 DEF Stale
<1> QED
  BY <1>1, <1>2, <1>3, <1>4 DEF DeskTypes, ClosedButShown, ClicksAreUnaware

LEMMA DeskStep == DeskInvariant /\ [DeskNext]_desk => DeskInvariant'
<1> SUFFICES ASSUME DeskInvariant, [DeskNext]_desk
             PROVE  DeskInvariant'
  OBVIOUS
<1>1. CASE UNCHANGED desk
  BY <1>1 DEF desk, DeskInvariant, DeskTypes, ClosedButShown, ClicksAreUnaware, Stale
<1>2. ASSUME NEW i \in Incidents, Report(i) PROVE DeskInvariant'
  BY <1>2 DEF Report, DeskInvariant, DeskTypes, ClosedButShown, ClicksAreUnaware, Stale, Closed
<1> QED
  BY <1>1, <1>2, PollReadKeeps, PollArrivesKeeps, ClickCardKeeps, UpdateIncidentKeeps, UpdatedKeeps DEF DeskNext

\* A status is changed by a report, which finds none, or by a click.
LEMMA ClosedByClicks ==
  ASSUME DeskInvariant, [DeskNext]_desk,
         NEW i \in Incidents, incident[i].status \in Closed, incident'[i].status # incident[i].status
  PROVE  \E c \in Clicks : click[c].incident = i /\ click[c].unaware /\ ~click[c].served /\ click'[c].served
<1> USE DEF DeskInvariant
<1>1. incident' # incident
  OBVIOUS
<1>2. ~ \E j \in Incidents : Report(j)
  <2>1. ASSUME NEW j \in Incidents, Report(j) PROVE FALSE
    <3>1. incident[j] = Unreported /\ incident' = [incident EXCEPT ![j].status = "OPEN"]
      BY <2>1 DEF Report
    <3>2. i # j
      BY <3>1 DEF Unreported, Closed
    <3> QED
      BY <3>1, <3>2 DEF DeskTypes
  <2> QED
    BY <2>1
<1>3. PICK c \in Clicks : UpdateIncident(c)
  BY <1>1, <1>2 DEF DeskNext, desk, PollRead, PollArrives, ClickCard, Updated
<1>4. click[c] # NoClick /\ ~click[c].served /\ click[c].unaware /\ click[c] \in ClickRecords
  BY <1>3 DEF UpdateIncident, ClicksAreUnaware, DeskTypes
<1>5. click[c].incident = i
  BY <1>1, <1>3 DEF UpdateIncident, DeskTypes
<1>6. click'[c].served
  BY <1>3, <1>4 DEF UpdateIncident, DeskTypes, ClickRecords
<1> QED
  BY <1>4, <1>5, <1>6

-----------------------------------------------------------------------------
(* MaintenanceDesk.                                                        *)

LEMMA EmptyJobs ==
  /\ NoJob \in Docs /\ GoneJob \in Docs /\ NoOrder \in OrderRecords /\ Shut \in FormRecords
  /\ NotReviewing \in [row : Docs, excused : BOOLEAN]
  /\ NotFetching \in [at : {"idle", "asked", "read"}, row : Docs, excused : BOOLEAN]
  /\ [NotFetching EXCEPT !.at = "asked"] \in [at : {"idle", "asked", "read"}, row : Docs, excused : BOOLEAN]
  /\ NotFetching.at = "idle" /\ [NotFetching EXCEPT !.at = "asked"].at = "asked" /\ NoOrder.at = "idle" /\ ~Shut.open
<1>1. NoJob \in Docs /\ GoneJob \in Docs
  BY DEF NoJob, GoneJob, Docs, AnyStatus, Someone
<1> QED
  BY <1>1 DEF NoOrder, OrderRecords, Shut, FormRecords, NotReviewing, NotFetching, AnyStatus, JobStatus, Someone

LEMMA JobsInitially == JobsInit => JobsInvariant
BY EmptyJobs DEF JobsInit, JobsInvariant, JobsTypes, ListAgrees, FormAgrees, ReviewAgrees, ChangesAgree, RowAgrees, UpdateComes,
       Shut

\* Steps of the list.
LEMMA ListKeeps ==
  ASSUME JobsInvariant, RefreshJobs \/ JobsAreRead \/ JobsArrive \/ JobsFail
  PROVE  JobsInvariant'
<1> USE DEF JobsInvariant
<1>1. UNCHANGED <<job, jobForm, review, order>>
  BY DEF RefreshJobs, JobsAreRead, JobsArrive, JobsFail
<1>2. FormAgrees' /\ ReviewAgrees' /\ ChangesAgree' /\ (UpdateComes' <=> UpdateComes)
      /\ \A row : RowAgrees(row)' <=> RowAgrees(row)
  BY <1>1 DEF FormAgrees, ReviewAgrees, ChangesAgree, UpdateComes, RowAgrees
<1>3. CASE RefreshJobs
  <2>1. jobFetch' = [NotFetching EXCEPT !.at = "asked"] /\ UNCHANGED jobRow
    BY <1>3 DEF RefreshJobs
  <2> QED
    BY <1>1, <1>2, <2>1, EmptyJobs DEF JobsTypes, ListAgrees
<1>4. CASE JobsAreRead
  <2>1. PICK row \in Docs : row = IF job = GoneJob THEN NoJob ELSE job
    BY EmptyJobs DEF JobsTypes
  <2>2. jobFetch.at = "asked" /\ jobFetch' = [at |-> "read", row |-> row, excused |-> FALSE] /\ UNCHANGED jobRow
    BY <1>4, <2>1 DEF JobsAreRead
  <2>3. RowAgrees(row)
    BY <2>1 DEF RowAgrees
  <2>4. jobFetch'.row = row /\ jobFetch'.at = "read"
        /\ jobFetch' \in [at : {"idle", "asked", "read"}, row : Docs, excused : BOOLEAN]
    BY <2>2
  <2> QED
    BY <1>1, <1>2, <2>2, <2>3, <2>4 DEF JobsTypes, ListAgrees
<1>5. CASE JobsArrive
  <2>1. /\ jobFetch.at = "read" /\ jobRow' = [row |-> jobFetch.row, excused |-> jobFetch.excused]
        /\ jobFetch' = NotFetching
    BY <1>5 DEF JobsArrive
  <2>2. jobRow' \in [row : Docs, excused : BOOLEAN] /\ jobRow'.row = jobFetch.row /\ jobRow'.excused = jobFetch.excused
    BY <2>1 DEF JobsTypes
  <2> QED
    BY <1>1, <1>2, <2>1, <2>2, EmptyJobs DEF JobsTypes, ListAgrees
<1>6. CASE JobsFail
  <2>1. jobFetch' = NotFetching /\ jobRow' = [jobRow EXCEPT !.excused = TRUE]
    BY <1>6 DEF JobsFail, Excusing
  <2>2. jobRow' \in [row : Docs, excused : BOOLEAN] /\ jobRow'.excused
    BY <2>1 DEF JobsTypes
  <2> QED
    BY <1>1, <1>2, <2>1, <2>2, EmptyJobs DEF JobsTypes, ListAgrees
<1> QED
  BY <1>3, <1>4, <1>5, <1>6

\* Steps of the form and of the review: what they copy from the list is excused, or nothing
\* is under way and the list agrees.
LEMMA FormKeeps ==
  ASSUME JobsInvariant, OpenNewJob \/ OpenJob \/ CloseJobForm \/ LookAtPhotos \/ CloseReview
  PROVE  JobsInvariant'
<1> USE DEF JobsInvariant
<1>1. UNCHANGED <<job, jobRow, jobFetch, order>>
  BY DEF OpenNewJob, OpenJob, CloseJobForm, LookAtPhotos, CloseReview
<1>2. ListAgrees' /\ ChangesAgree'
  BY <1>1 DEF ListAgrees, ChangesAgree, UpdateComes, RowAgrees
<1>3. PICK unseen \in BOOLEAN : unseen = (jobRow.excused \/ Unseen)
  OBVIOUS
<1>4. ~unseen => RowAgrees(jobRow.row)
  BY <1>3, EmptyJobs DEF Unseen, ListAgrees, UpdateComes, JobsTypes
<1>5. CASE OpenNewJob \/ CloseJobForm
  <2>1. PICK open \in BOOLEAN : jobForm' = [Shut EXCEPT !.open = open]
    <3>1. Shut = [Shut EXCEPT !.open = FALSE]
      <4>1. DOMAIN Shut = {"open", "for", "status", "driver", "picked", "excused"} /\ ~Shut.open
        BY DEF Shut
      <4> QED
        BY <4>1, EmptyJobs DEF FormRecords
    <3> QED
      BY <1>5, <3>1 DEF OpenNewJob, CloseJobForm
  <2>2. jobForm' \in FormRecords /\ jobForm'.for = NewJob /\ UNCHANGED review
    <3>1. Shut.for = NewJob
      BY DEF Shut
    <3> QED
      BY <1>5, <2>1, <3>1, EmptyJobs DEF FormRecords, OpenNewJob, CloseJobForm
  <2> QED
    BY <1>1, <1>2, <2>2 DEF JobsTypes, FormAgrees, ReviewAgrees
<1>6. CASE OpenJob
  <2>1. /\ jobRow.row # NoJob /\ UNCHANGED review
        /\ jobForm' = [open |-> TRUE, for |-> "row", status |-> jobRow.row.status, driver |-> jobRow.row.driver,
                       picked |-> FALSE, excused |-> unseen]
    BY <1>3, <1>6 DEF OpenJob
  <2>2. jobRow.row.status \in AnyStatus /\ jobRow.row.driver \in Someone
    BY DEF JobsTypes, Docs
  <2>3. jobForm' \in FormRecords /\ jobForm'.status = jobRow.row.status /\ jobForm'.excused = unseen
    BY <2>1, <2>2 DEF FormRecords
  <2> QED
    BY <1>1, <1>2, <1>4, <2>1, <2>3 DEF JobsTypes, FormAgrees, ReviewAgrees, RowAgrees
<1>7. CASE LookAtPhotos
  <2>1. /\ jobRow.row.status = "AWAITING_REVIEW" /\ UNCHANGED jobForm
        /\ review' = [row |-> jobRow.row, excused |-> unseen]
    BY <1>3, <1>7 DEF LookAtPhotos
  <2>2. review' \in [row : Docs, excused : BOOLEAN] /\ review'.excused = unseen
    BY <2>1 DEF JobsTypes
  <2>3. NoJob.status # "AWAITING_REVIEW"
    BY DEF NoJob
  <2> QED
    BY <1>1, <1>2, <1>4, <2>1, <2>2, <2>3 DEF JobsTypes, FormAgrees, ReviewAgrees, RowAgrees
<1>8. CASE CloseReview
  <2>1. review' = NotReviewing /\ UNCHANGED jobForm
    BY <1>8 DEF CloseReview
  <2> QED
    BY <1>1, <1>2, <2>1, EmptyJobs DEF JobsTypes, FormAgrees, ReviewAgrees
<1> QED
  BY <1>5, <1>6, <1>7, <1>8

\* A press of the office that sends what its copy says.
LEMMA PressKeeps ==
  ASSUME JobsInvariant, NEW o \in Orders, NEW what \in OrderRecords, Pressed(o, what),
         what.kind \in OrderKinds, what.at = "sent",
         what.kind = "edit" /\ ~what.picked /\ ~what.excused => what.status = job.status,
         what.kind = "approve" /\ ~what.excused => job.status = "AWAITING_REVIEW",
         review' \in {review, NotReviewing}
  PROVE  JobsInvariant'
<1> USE DEF JobsInvariant
<1>1. /\ UNCHANGED <<job, jobRow, jobFetch, jobForm>>
      /\ order[o] = NoOrder /\ order' = [order EXCEPT ![o] = what]
  BY DEF Pressed
<1>2. UpdateComes => UpdateComes'
  BY <1>1, EmptyJobs DEF UpdateComes, JobsTypes
<1>3. review' \in [row : Docs, excused : BOOLEAN]
  BY EmptyJobs DEF JobsTypes
<1>4. ChangesAgree'
  BY <1>1 DEF ChangesAgree, JobsTypes
<1> QED
  BY <1>1, <1>2, <1>3, <1>4 DEF JobsTypes, ListAgrees, FormAgrees, ReviewAgrees, RowAgrees

LEMMA OfficeKeeps ==
  ASSUME JobsInvariant, NEW o \in Orders, SubmitJob(o) \/ ApproveJob(o) \/ RemoveJob(o)
  PROVE  JobsInvariant'
<1> USE DEF JobsInvariant
<1>1. CASE SubmitJob(o)
  <2>1. PICK s \in {jobForm.status} \cup Picks, d \in {jobForm.driver} \cup Assignees :
          Pressed(o, [kind |-> IF jobForm.for = NewJob THEN "create" ELSE "edit", at |-> "sent", status |-> s,
                      driver |-> d, picked |-> s # jobForm.status, excused |-> jobForm.excused])
    BY <1>1 DEF SubmitJob
  <2>2. PICK kind \in OrderKinds : kind = IF jobForm.for = NewJob THEN "create" ELSE "edit"
    BY DEF OrderKinds
  <2>3. PICK picked \in BOOLEAN : picked = (s # jobForm.status)
    OBVIOUS
  <2>4. PICK what : what = [kind |-> kind, at |-> "sent", status |-> s, driver |-> d, picked |-> picked, excused |-> jobForm.excused]
    OBVIOUS
  <2>5. Pressed(o, what)
    BY <2>1, <2>2, <2>3, <2>4
  <2>6. s \in AnyStatus /\ d \in Someone /\ jobForm.excused \in BOOLEAN
    BY MaintenanceDeskAssumption DEF JobsTypes, FormRecords, AnyStatus, Someone
  <2>7. /\ what \in OrderRecords /\ what.kind = kind /\ what.at = "sent" /\ what.status = s
        /\ what.picked = picked /\ what.excused = jobForm.excused
    BY <2>4, <2>6 DEF OrderRecords
  <2>8. review' = review /\ jobForm.open
    BY <1>1 DEF SubmitJob
  <2>9. what.kind = "edit" /\ ~what.picked /\ ~what.excused => what.status = job.status
    BY <2>2, <2>3, <2>7, <2>8 DEF FormAgrees
  <2>10. what.kind # "approve"
    BY <2>2, <2>7
  <2> QED
    BY <2>5, <2>7, <2>8, <2>9, <2>10, PressKeeps
<1>2. ASSUME NEW e \in BOOLEAN
      PROVE  /\ Approval(e) \in OrderRecords /\ Approval(e).kind = "approve" /\ Approval(e).at = "sent"
             /\ Approval(e).excused = e
  BY <1>2, EmptyJobs DEF Approval, OrderRecords, OrderKinds, AnyStatus, JobStatus
<1>3. CASE ApproveJob(o)
  <2>1. CASE /\ Uncovered /\ jobRow.row.status = "AWAITING_REVIEW"
             /\ Pressed(o, Approval(jobRow.excused \/ Unseen))
             /\ UNCHANGED review
    <3>1. PICK unseen \in BOOLEAN : unseen = (jobRow.excused \/ Unseen)
      OBVIOUS
    <3>2. ~unseen => RowAgrees(jobRow.row)
      BY <3>1, EmptyJobs DEF Unseen, ListAgrees, UpdateComes, JobsTypes
    <3>3. ~unseen => job.status = "AWAITING_REVIEW"
      BY <2>1, <3>2 DEF RowAgrees, NoJob
    <3>4. PICK what : what = Approval(unseen)
      OBVIOUS
    <3>5. Pressed(o, what)
      BY <2>1, <3>1, <3>4
    <3> QED
      BY <1>2, <2>1, <3>3, <3>4, <3>5, PressKeeps DEF OrderKinds
  <2>2. CASE /\ review # NotReviewing
             /\ Pressed(o, Approval(review.excused))
             /\ review' = NotReviewing
    <3>1. PICK e \in BOOLEAN : e = review.excused
      BY DEF JobsTypes
    <3>2. PICK what : what = Approval(e)
      OBVIOUS
    <3>3. Pressed(o, what)
      BY <2>2, <3>1, <3>2
    <3>4. ~e => job.status = "AWAITING_REVIEW"
      BY <2>2, <3>1 DEF ReviewAgrees
    <3> QED
      BY <1>2, <2>2, <3>2, <3>3, <3>4, PressKeeps DEF OrderKinds
  <2> QED
    BY <1>3, <2>1, <2>2 DEF ApproveJob
<1>4. CASE RemoveJob(o)
  <2>1. PICK what : what = [NoOrder EXCEPT !.kind = "remove", !.at = "sent"]
    OBVIOUS
  <2>2. Pressed(o, what) /\ review' = review
    BY <1>4, <2>1 DEF RemoveJob
  <2>3. what \in OrderRecords /\ what.kind = "remove" /\ what.at = "sent"
    BY <2>1, EmptyJobs DEF OrderRecords, OrderKinds
  <2> QED
    BY <2>2, <2>3, PressKeeps DEF OrderKinds
<1> QED
  BY <1>1, <1>3, <1>4

\* What was taken from the record before it changed is excused.
TakenAreExcused ==
    /\ jobForm' \in FormRecords /\ (jobForm'.open => jobForm'.excused)
    /\ review' \in [row : Docs, excused : BOOLEAN] /\ (review' # NotReviewing => review'.excused)

LEMMA TakenFacts == JobsTypes /\ TakenExcused => TakenAreExcused
<1> SUFFICES ASSUME JobsTypes, TakenExcused
             PROVE  TakenAreExcused
  OBVIOUS
<1>1. jobForm' \in FormRecords /\ (jobForm'.open => jobForm'.excused)
  BY DEF JobsTypes, TakenExcused, Excusing, FormRecords
<1>2. review' \in [row : Docs, excused : BOOLEAN] /\ (review' # NotReviewing => review'.excused)
  BY DEF JobsTypes, TakenExcused, Excusing
<1> QED
  BY <1>1, <1>2 DEF TakenAreExcused

\* The record changes while everything else in the office is excused.
LEMMA ServeOrderKeeps ==
  ASSUME JobsInvariant, NEW o \in Orders, ServeOrder(o)
  PROVE  JobsInvariant'
<1> USE DEF JobsInvariant
<1>1. order[o].at = "sent" /\ order[o] # NoOrder /\ order[o] \in OrderRecords
  BY EmptyJobs DEF ServeOrder, JobsTypes
<1>2. job' \in Docs
  <2>1. CreatedJob(o) \in Docs /\ EditedJob(o) \in Docs
    BY <1>1, EmptyJobs DEF CreatedJob, EditedJob, Docs, OrderRecords, JobsTypes
  <2> QED
    BY <1>1, <2>1, EmptyJobs DEF ServeOrder
<1>3. UNCHANGED <<jobRow, jobFetch>> /\ TakenExcused
  BY DEF ServeOrder
<1>4. order' = [p \in Orders |-> CASE p = o -> [order[p] EXCEPT !.at = "served"]
                                   [] p # o /\ order[p] # NoOrder -> Excusing(order[p])
                                   [] OTHER -> NoOrder]
  BY DEF ServeOrder
<1>5. order'[o] \in OrderRecords /\ order'[o].at = "served" /\ order'[o].kind = order[o].kind
  BY <1>1, <1>4 DEF OrderRecords
<1>6. ASSUME NEW p \in Orders, p # o
      PROVE  /\ order'[p] \in OrderRecords
             /\ order'[p] # NoOrder => /\ order'[p].kind = order[p].kind /\ order'[p].at = order[p].at
                                       /\ order[p] # NoOrder /\ order'[p].excused
  <2>1. CASE order[p] = NoOrder
    BY <1>4, <1>6, <2>1, EmptyJobs
  <2>2. CASE order[p] # NoOrder
    <3>1. order'[p] = [order[p] EXCEPT !.excused = TRUE] /\ order[p] \in OrderRecords
      BY <1>4, <1>6, <2>2 DEF Excusing, JobsTypes
    <3> QED
      BY <2>2, <3>1 DEF OrderRecords
  <2> QED
    BY <2>1, <2>2
<1>7. order' \in [Orders -> OrderRecords]
  BY <1>4, <1>5, <1>6
<1>8. \A p \in Orders : order'[p] # NoOrder => order'[p].kind \in OrderKinds /\ order'[p].at \in {"sent", "served"}
  BY <1>1, <1>5, <1>6 DEF JobsTypes
<1>9. TakenAreExcused
  BY <1>3, TakenFacts
<1>10. ChangesAgree'
  <2>1. \A p \in Orders : order'[p].at = "sent" => order'[p].excused
    BY <1>5, <1>6, EmptyJobs
  <2> QED
    BY <2>1 DEF ChangesAgree
<1>11. UpdateComes'
  BY <1>5 DEF UpdateComes
<1> QED
  BY <1>2, <1>3, <1>7, <1>8, <1>9, <1>10, <1>11
     DEF JobsTypes, ListAgrees, FormAgrees, ReviewAgrees, TakenAreExcused

\* The answer has the list read again.
LEMMA OrderSucceedsKeeps ==
  ASSUME JobsInvariant, NEW o \in Orders, OrderSucceeds(o)
  PROVE  JobsInvariant'
<1> USE DEF JobsInvariant
<1>1. order[o].kind \in Refetched
  BY EmptyJobs DEF OrderSucceeds, JobsTypes, OrderKinds, Refetched
<1>2. /\ jobFetch' = [NotFetching EXCEPT !.at = "asked"]
      /\ jobForm' = jobForm \/ jobForm' = Shut
      /\ order' = [order EXCEPT ![o] = NoOrder]
      /\ UNCHANGED <<job, jobRow, review>>
  BY <1>1 DEF OrderSucceeds
<1>3. /\ order' \in [Orders -> OrderRecords]
      /\ \A p \in Orders : order'[p] = order[p] \/ order'[p] = NoOrder
  BY <1>2, EmptyJobs DEF JobsTypes
<1> QED
  BY <1>2, <1>3, EmptyJobs DEF JobsTypes, ListAgrees, FormAgrees, ReviewAgrees, ChangesAgree

\* What was read before is excused.
ReadsAreExcused ==
    /\ jobRow' = Excusing(jobRow)
    /\ jobFetch' = IF jobFetch.at = "read" THEN Excusing(jobFetch) ELSE jobFetch

LEMMA ReadsFacts ==
  ASSUME JobsTypes, ReadsAreExcused
  PROVE  /\ jobRow' \in [row : Docs, excused : BOOLEAN] /\ jobRow'.excused
         /\ jobFetch' \in [at : {"idle", "asked", "read"}, row : Docs, excused : BOOLEAN]
         /\ jobFetch'.at = "read" => jobFetch'.excused
BY DEF JobsTypes, ReadsAreExcused, Excusing

LEMMA OrderFailsKeeps ==
  ASSUME JobsInvariant, NEW o \in Orders, OrderFails(o)
  PROVE  JobsInvariant'
<1> USE DEF JobsInvariant
<1>1. ReadsAreExcused /\ order' = [order EXCEPT ![o] = NoOrder] /\ UNCHANGED <<job, jobForm, review>>
  BY DEF OrderFails, ReadsAreExcused
<1>2. /\ order' \in [Orders -> OrderRecords]
      /\ \A p \in Orders : order'[p] = order[p] \/ order'[p] = NoOrder
  BY <1>1, EmptyJobs DEF JobsTypes
<1> QED
  BY <1>1, <1>2, ReadsFacts, EmptyJobs DEF JobsTypes, ListAgrees, FormAgrees, ReviewAgrees, ChangesAgree

LEMMA ServePhoneKeeps ==
  ASSUME JobsInvariant, ServePhone
  PROVE  JobsInvariant'
<1> USE DEF JobsInvariant
<1>1. CASE job' = job
  <2>1. UNCHANGED <<job, jobRow, jobFetch, jobForm, review, order>>
    BY <1>1 DEF ServePhone
  <2> QED
    BY <2>1 DEF JobsTypes, ListAgrees, FormAgrees, ReviewAgrees, ChangesAgree, UpdateComes, RowAgrees
<1>2. CASE job' # job
  <2>1. /\ ReadsAreExcused /\ TakenExcused
        /\ order' = [o \in Orders |-> IF order[o] # NoOrder THEN Excusing(order[o]) ELSE NoOrder]
    BY <1>2 DEF ServePhone, ReadsAreExcused
  <2>2. job' \in Docs
    BY DEF ServePhone, JobAfter, JobsTypes, Docs, AnyStatus, JobStatus
  <2>3. ASSUME NEW p \in Orders
        PROVE  /\ order'[p] \in OrderRecords
               /\ order'[p] # NoOrder => /\ order'[p].kind = order[p].kind /\ order'[p].at = order[p].at
                                         /\ order[p] # NoOrder /\ order'[p].excused
    <3>1. CASE order[p] = NoOrder
      BY <2>1, <3>1, EmptyJobs
    <3>2. CASE order[p] # NoOrder
      <4>1. order'[p] = [order[p] EXCEPT !.excused = TRUE] /\ order[p] \in OrderRecords
        BY <2>1, <3>2 DEF Excusing, JobsTypes
      <4> QED
        BY <3>2, <4>1 DEF OrderRecords
    <3> QED
      BY <3>1, <3>2
  <2>4. order' \in [Orders -> OrderRecords]
    BY <2>1, <2>3
  <2>5. \A p \in Orders : order'[p] # NoOrder => order'[p].kind \in OrderKinds /\ order'[p].at \in {"sent", "served"}
    BY <2>3 DEF JobsTypes
  <2>6. \A p \in Orders : order'[p].at = "sent" => order'[p].excused
    BY <2>3, EmptyJobs
  <2>7. TakenAreExcused
    BY <2>1, TakenFacts
  <2> QED
    BY <2>1, <2>2, <2>4, <2>5, <2>6, <2>7, ReadsFacts
       DEF JobsTypes, ListAgrees, FormAgrees, ReviewAgrees, ChangesAgree, TakenAreExcused
<1> QED
  BY <1>1, <1>2

LEMMA JobsStep == JobsInvariant /\ [JobsNext]_jobs => JobsInvariant'
<1> SUFFICES ASSUME JobsInvariant, [JobsNext]_jobs
             PROVE  JobsInvariant'
  OBVIOUS
<1>1. CASE UNCHANGED <<job, jobRow, jobFetch, jobForm, review, order>>
  BY <1>1 DEF JobsInvariant, JobsTypes, ListAgrees, FormAgrees, ReviewAgrees, ChangesAgree, UpdateComes, RowAgrees
<1>2. CASE OpenJobScreen \/ LeaveJobScreen \/ TakePhoto \/ PressJob("acknowledge") \/ PressJob("complete")
           \/ PhoneAnswered \/ PhoneFails \/ UNCHANGED jobs
  BY <1>1, <1>2 DEF OpenJobScreen, LeaveJobScreen, TakePhoto, PressJob, PhoneAnswered, PhoneFails, jobs
<1>3. CASE RefreshJobs \/ JobsAreRead \/ JobsArrive \/ JobsFail
  BY <1>3, ListKeeps
<1>4. CASE OpenNewJob \/ OpenJob \/ CloseJobForm \/ LookAtPhotos \/ CloseReview
  BY <1>4, FormKeeps
<1>5. CASE \E o \in Orders : \/ SubmitJob(o) \/ ApproveJob(o) \/ RemoveJob(o)
                             \/ ServeOrder(o) \/ OrderSucceeds(o) \/ OrderFails(o)
  BY <1>5, OfficeKeeps, ServeOrderKeeps, OrderSucceedsKeeps, OrderFailsKeeps
<1>6. CASE ServePhone
  BY <1>6, ServePhoneKeeps
<1> QED
  BY <1>2, <1>3, <1>4, <1>5, <1>6 DEF JobsNext

\* A change that is not excused does what the office meant.
LEMMA MeantByTheOffice ==
  ASSUME JobsInvariant, [JobsNext]_jobs,
         NEW o \in Orders, order[o].at = "sent", order'[o].at = "served", ~order[o].excused
  PROVE  /\ order[o].kind = "edit" /\ ~order[o].picked => job'.status = job.status
         /\ order[o].kind = "approve" => job.status = "AWAITING_REVIEW"
<1> USE DEF JobsInvariant
<1>1. order[o] # NoOrder /\ order[o] \in OrderRecords
  BY EmptyJobs DEF JobsTypes
<1>2. order'[o].at # order[o].at
  OBVIOUS
<1>3. ASSUME NEW p \in Orders, NEW what, Pressed(p, what)
      PROVE  FALSE
  BY <1>1, <1>2, <1>3 DEF Pressed, JobsTypes
<1>4. ASSUME NEW p \in Orders, OrderSucceeds(p) \/ OrderFails(p)
      PROVE  FALSE
  <2>1. order' = [order EXCEPT ![p] = NoOrder]
    BY <1>4 DEF OrderSucceeds, OrderFails
  <2> QED
    BY <1>2, <2>1, EmptyJobs DEF JobsTypes
<1>5. ASSUME NEW p \in Orders, ServeOrder(p), p # o
      PROVE  FALSE
  <2>1. order'[o] = [order[o] EXCEPT !.excused = TRUE]
    BY <1>1, <1>5 DEF ServeOrder, Excusing
  <2> QED
    BY <1>1, <1>2, <2>1 DEF OrderRecords
<1>6. ASSUME ServePhone
      PROVE  FALSE
  <2>1. order'[o] = order[o] \/ order'[o] = [order[o] EXCEPT !.excused = TRUE]
    BY <1>1, <1>6 DEF ServePhone, Excusing
  <2> QED
    BY <1>1, <1>2, <2>1 DEF OrderRecords
<1>7. order' # order
  BY <1>2
<1>8. ServeOrder(o)
  BY <1>3, <1>4, <1>5, <1>6, <1>7
     DEF JobsNext, jobs, RefreshJobs, JobsAreRead, JobsArrive, JobsFail, OpenNewJob, OpenJob, CloseJobForm, LookAtPhotos,
         CloseReview, SubmitJob, ApproveJob, RemoveJob, OpenJobScreen, LeaveJobScreen, TakePhoto, PressJob, PhoneAnswered,
         PhoneFails
<1>9. order[o].kind = "edit" => job'.status = order[o].status
  <2>1. order[o].kind = "edit" => job' = EditedJob(o)
    BY <1>8 DEF ServeOrder
  <2> QED
    BY <2>1 DEF EditedJob, JobsTypes, Docs
<1> QED
  BY <1>9 DEF ChangesAgree

-----------------------------------------------------------------------------
(* NoticeList.                                                             *)

LEMMA UnreadIsFinite ==
  ASSUME NEW k \in Nat
  PROVE  IsFiniteSet(UnreadUpTo(k)) /\ Cardinality(UnreadUpTo(k)) \in Nat
<1>1. IsFiniteSet(1 .. k)
  BY FS_Interval
<1>2. UnreadUpTo(k) \subseteq 1 .. k
  BY DEF UnreadUpTo
<1> QED
  BY <1>1, <1>2, FS_Subset, FS_CardinalityType

LEMMA ServedIsFinite == IsFiniteSet(ServedMarks) /\ Cardinality(ServedMarks) \in Nat
<1>1. ServedMarks \subseteq Marks /\ IsFiniteSet(Marks)
  BY NoticeAssumption DEF ServedMarks
<1> QED
  BY <1>1, FS_Subset, FS_CardinalityType

LEMMA NoticesInitially == NoticesInit => NoticeInvariant
<1> SUFFICES ASSUME NoticesInit
             PROVE  NoticeInvariant
  OBVIOUS
<1>1. NoticeTypes
  <2>1. notices \in Seq(BOOLEAN) /\ Len(notices) = 0 /\ DOMAIN cards = {}
    BY DEF NoticesInit
  <2>2. mark \in [Marks -> [at : {"none", "sent", "served"}, n : Nat]] /\ \A m \in Marks : mark[m].n = 0
    BY DEF NoticesInit, NoMark
  <2>3. reached = 0 /\ count = 0 /\ muddled = FALSE
    BY DEF NoticesInit
  <2>4. reached \in 0 .. Len(notices) /\ count \in Nat
    BY <2>1, <2>3
  <2>7. muddled \in BOOLEAN
    BY <2>3
  <2>5. \A i \in DOMAIN cards : cards[i] \in CardRecords /\ cards[i].n <= reached
    BY <2>1
  <2>6. \A m \in Marks : mark[m].n <= reached
    BY <2>2, <2>3
  <2> QED
    BY <2>1, <2>2, <2>4, <2>5, <2>6, <2>7 DEF NoticeTypes
<1>2. UnreadUpTo(reached) = {}
  BY DEF NoticesInit, UnreadUpTo
<1> QED
  BY <1>1, <1>2 DEF NoticesInit, NoticeInvariant, LoadCovers, CountCovers, AllRead

\* While nothing is marked and the list stays, what covers the count still does.
LEMMA CoversStay ==
  ASSUME CountCovers, AllRead, mark' = mark, reached' = reached, count' = count, muddled' = muddled,
         UnreadUpTo(reached)' = UnreadUpTo(reached), ServedMarks' = ServedMarks
  PROVE  CountCovers' /\ AllRead'
BY DEF CountCovers, AllRead

LEMMA LoadStays ==
  ASSUME LoadCovers, load' = load, reached' = reached, Len(notices) \in Nat, Len(notices') \in Nat, Len(notices) <= Len(notices'),
         reached \in Nat,
         \A k \in 0 .. Len(notices) : UnreadUpTo(k)' \subseteq UnreadUpTo(k)
  PROVE  LoadCovers'
<1>1. CASE load = <<>>
  BY <1>1 DEF LoadCovers
<1>2. ASSUME NEW got, load = <<got>>, got.count \in Nat, got.reached \in reached .. Len(notices),
             got.count >= Cardinality(UnreadUpTo(got.reached)),
             \A i \in DOMAIN got.cards : got.cards[i] \in CardRecords /\ got.cards[i].n <= got.reached
      PROVE  LoadCovers'
  <2>1. PICK k \in 0 .. Len(notices) : k = got.reached
    BY <1>2
  <2>2. Cardinality(UnreadUpTo(k)') <= Cardinality(UnreadUpTo(k)) /\ Cardinality(UnreadUpTo(k)') \in Nat
    <3>1. UnreadUpTo(k)' \subseteq UnreadUpTo(k) /\ IsFiniteSet(UnreadUpTo(k))
      BY UnreadIsFinite
    <3> QED
      BY <3>1, FS_Subset, FS_CardinalityType
  <2>3. Cardinality(UnreadUpTo(k)) \in Nat
    BY UnreadIsFinite
  <2>4. got.count >= Cardinality(UnreadUpTo(k)')
    BY <1>2, <2>1, <2>2, <2>3
  <2>5. got.count >= Cardinality({n \in 1 .. got.reached : ~notices'[n]})
    BY <2>1, <2>4 DEF UnreadUpTo
  <2>6. got.reached \in reached' .. Len(notices')
    BY <1>2
  <2>7. load' = <<got>>
    BY <1>2
  <2> QED
    BY <1>2, <2>5, <2>6, <2>7 DEF LoadCovers, UnreadUpTo
<1> QED
  BY <1>1, <1>2 DEF LoadCovers

LEMMA NotifyKeeps ==
  ASSUME NoticeInvariant, Notify
  PROVE  NoticeInvariant'
<1> USE DEF NoticeInvariant
<1>1. /\ notices' = Append(notices, FALSE) /\ notices \in Seq(BOOLEAN) /\ reached \in 0 .. Len(notices)
      /\ UNCHANGED <<cards, count, load, mark, reached, muddled>>
  BY DEF Notify, NoticeTypes
<1>2. /\ notices' \in Seq(BOOLEAN) /\ Len(notices') = Len(notices) + 1 /\ Len(notices) \in Nat
      /\ \A n \in 1 .. Len(notices) : notices'[n] = notices[n]
  BY <1>1
<1>3. \A k \in 0 .. Len(notices) : UnreadUpTo(k)' = UnreadUpTo(k)
  BY <1>2 DEF UnreadUpTo
<1>4. ServedMarks' = ServedMarks
  BY <1>1 DEF ServedMarks
<1>5. UnreadUpTo(reached)' = UnreadUpTo(reached)
  <2>1. PICK k \in 0 .. Len(notices) : k = reached
    BY <1>1
  <2>2. UnreadUpTo(k)' = UnreadUpTo(k)
    BY <1>3
  <2> QED
    BY <1>1, <2>1, <2>2 DEF UnreadUpTo
<1>6. NoticeTypes'
  BY <1>1, <1>2 DEF NoticeTypes
<1>7. LoadCovers'
  BY <1>1, <1>2, <1>3, LoadStays
<1> QED
  BY <1>1, <1>4, <1>5, <1>6, <1>7, CoversStay

LEMMA ReadListKeeps ==
  ASSUME NoticeInvariant, ReadList
  PROVE  NoticeInvariant'
<1> USE DEF NoticeInvariant
<1>1. /\ notices \in Seq(BOOLEAN) /\ reached \in 0 .. Len(notices) /\ Len(notices) \in Nat
      /\ UNCHANGED <<notices, cards, count, mark, reached, muddled>>
  BY DEF ReadList, NoticeTypes
<1>2. PICK listedCards : listedCards = [i \in 1 .. (IF Len(notices) < CardsShown THEN Len(notices) ELSE CardsShown) |->
                              LET n == Len(notices) + 1 - i IN [n |-> n, read |-> notices[n]]]
  OBVIOUS
<1>3. PICK amid : amid = \E m \in Marks : mark[m].at = "served"
  OBVIOUS
<1>4. PICK got : got = [cards |-> listedCards, count |-> UnreadOf(notices), reached |-> Len(notices), amid |-> amid]
  OBVIOUS
<1>5. load' = <<got>>
  BY <1>2, <1>3, <1>4 DEF ReadList
<1>6. got.cards = listedCards /\ got.count = UnreadOf(notices) /\ got.reached = Len(notices)
  BY <1>4
<1>7. UnreadOf(notices) = Cardinality(UnreadUpTo(Len(notices)))
  <2>1. DOMAIN notices = 1 .. Len(notices)
    BY <1>1
  <2> QED
    BY <2>1 DEF UnreadOf, UnreadUpTo
<1>8. UnreadOf(notices) \in Nat
  BY <1>1, <1>7, UnreadIsFinite
<1>9. \A i \in DOMAIN listedCards : listedCards[i] \in CardRecords /\ listedCards[i].n <= Len(notices)
  <2>1. ASSUME NEW i \in DOMAIN listedCards
        PROVE  listedCards[i] \in CardRecords /\ listedCards[i].n <= Len(notices)
    <3>1. i \in 1 .. Len(notices)
      BY <1>1, <1>2, NoticeAssumption
    <3>2. PICK n \in 1 .. Len(notices) : n = Len(notices) + 1 - i
      BY <1>1, <3>1
    <3>3. listedCards[i] = [n |-> n, read |-> notices[n]]
      BY <1>2, <3>2
    <3>4. notices[n] \in BOOLEAN
      BY <1>1, <3>2
    <3> QED
      BY <1>1, <3>2, <3>3, <3>4 DEF CardRecords
  <2> QED
    BY <2>1
<1>10. LoadCovers'
  <2>1. got.reached \in reached .. Len(notices)
    BY <1>1, <1>6
  <2>2. got.count >= Cardinality(UnreadUpTo(got.reached))
    BY <1>6, <1>7, <1>8
  <2>3. \A i \in DOMAIN got.cards : got.cards[i] \in CardRecords /\ got.cards[i].n <= got.reached
    BY <1>6, <1>9
  <2>4. got.count \in Nat
    BY <1>6, <1>8
  <2> QED
    BY <1>1, <1>5, <2>1, <2>2, <2>3, <2>4 DEF LoadCovers, UnreadUpTo
<1> QED
  BY <1>1, <1>10 DEF NoticeTypes, CountCovers, AllRead, UnreadUpTo, ServedMarks

\* A list that is read while a mark is served is excused; else it counts what is unread.
LEMMA ListLoadedKeeps ==
  ASSUME NoticeInvariant, ListLoaded
  PROVE  NoticeInvariant'
<1> USE DEF NoticeInvariant
<1>1. PICK got : /\ load = <<got>>
                 /\ got.count \in Nat /\ got.reached \in reached .. Len(notices)
                 /\ got.count >= Cardinality(UnreadUpTo(got.reached))
                 /\ \A i \in DOMAIN got.cards : got.cards[i] \in CardRecords /\ got.cards[i].n <= got.reached
  BY DEF ListLoaded, LoadCovers
<1>2. Head(load) = got
  BY <1>1
<1>3. PICK astride \in BOOLEAN : astride = (got.amid \/ \E m \in Marks : mark[m].at = "served")
  OBVIOUS
<1>4. /\ cards' = got.cards /\ count' = got.count /\ reached' = got.reached /\ muddled' = astride
      /\ load' = <<>> /\ UNCHANGED <<notices, mark>>
  BY <1>2, <1>3 DEF ListLoaded
<1>5. reached \in Nat /\ Len(notices) \in Nat /\ reached' \in Nat /\ reached <= reached'
  BY <1>1, <1>4 DEF NoticeTypes
<1>6. NoticeTypes'
  BY <1>1, <1>4, <1>5 DEF NoticeTypes
<1>7. ASSUME ~ muddled'
      PROVE  count' >= Cardinality(UnreadUpTo(reached)') + Cardinality(ServedMarks')
  <2>1. ServedMarks' = {}
    BY <1>3, <1>4, <1>7 DEF ServedMarks
  <2>2. Cardinality(ServedMarks') = 0
    BY <2>1, FS_EmptySet
  <2>3. UnreadUpTo(reached)' = UnreadUpTo(got.reached)
    BY <1>4 DEF UnreadUpTo
  <2>4. Cardinality(UnreadUpTo(got.reached)) \in Nat
    BY <1>4, <1>5, UnreadIsFinite
  <2> QED
    BY <1>1, <1>4, <2>2, <2>3, <2>4
<1>8. AllRead'
  BY <1>3, <1>4 DEF AllRead
<1> QED
  BY <1>4, <1>6, <1>7, <1>8 DEF LoadCovers, CountCovers

\* A press sends the number of a card of the list.
LEMMA PressesKeep ==
  ASSUME NoticeInvariant, NEW m \in Marks, NEW k \in 0 .. reached,
         mark[m] = NoMark, mark' = [mark EXCEPT ![m] = [at |-> "sent", n |-> k]],
         UNCHANGED <<notices, cards, count, load, reached, muddled>>
  PROVE  NoticeInvariant'
<1> USE DEF NoticeInvariant
<1>1. reached \in Nat /\ k \in Nat /\ k <= reached
  BY DEF NoticeTypes
<1>2. NoticeTypes'
  BY <1>1 DEF NoticeTypes
<1>3. ServedMarks' = ServedMarks
  BY DEF ServedMarks, NoticeTypes, NoMark
<1>4. AllRead'
  BY DEF AllRead, NoticeTypes, UnreadUpTo
<1> QED
  BY <1>2, <1>3, <1>4 DEF LoadCovers, CountCovers, UnreadUpTo

LEMMA PressKeepsNotices ==
  ASSUME NoticeInvariant, NEW m \in Marks, PressAll(m) \/ \E i \in DOMAIN cards : PressCard(m, i)
  PROVE  NoticeInvariant'
<1>1. CASE PressAll(m)
  <2>1. 0 \in 0 .. reached
    BY DEF NoticeInvariant, NoticeTypes
  <2> QED
    BY <1>1, <2>1, PressesKeep DEF PressAll
<1>2. ASSUME NEW i \in DOMAIN cards, PressCard(m, i)
      PROVE  NoticeInvariant'
  <2>1. cards[i].n \in 0 .. reached
    BY DEF NoticeInvariant, NoticeTypes, CardRecords
  <2> QED
    BY <1>2, <2>1, PressesKeep DEF PressCard
<1> QED
  BY <1>1, <1>2

LEMMA MarkServedKeeps ==
  ASSUME NoticeInvariant, NEW m \in Marks, MarkServed(m)
  PROVE  NoticeInvariant'
<1> USE DEF NoticeInvariant
<1>1. PICK k \in 0 .. reached : k = mark[m].n
  BY DEF NoticeTypes
<1>2. /\ notices \in Seq(BOOLEAN) /\ Len(notices) \in Nat /\ reached \in 0 .. Len(notices) /\ reached \in Nat
      /\ mark[m].at = "sent" /\ mark' = [mark EXCEPT ![m].at = "served"]
      /\ notices' = [n \in DOMAIN notices |-> notices[n] \/ k \in {0, n}]
      /\ UNCHANGED <<cards, count, load, reached>>
  BY <1>1 DEF MarkServed, NoticeTypes
<1>3. PICK again \in BOOLEAN : again = (k > 0 /\ notices[k])
  OBVIOUS
<1>4. muddled' = (muddled \/ again) /\ muddled \in BOOLEAN
  BY <1>1, <1>3 DEF MarkServed, NoticeTypes
<1>5. DOMAIN notices = 1 .. Len(notices)
  BY <1>2
<1>6. notices' \in Seq(BOOLEAN) /\ Len(notices') = Len(notices)
  <2>1. notices' \in [1 .. Len(notices) -> BOOLEAN]
    BY <1>2, <1>5
  <2> QED
    BY <1>2, <2>1
<1>7. \A n \in 1 .. Len(notices) : notices'[n] <=> (notices[n] \/ k = 0 \/ k = n)
  BY <1>2, <1>5
<1>8. mark' \in [Marks -> [at : {"none", "sent", "served"}, n : Nat]]
      /\ mark'[m].at = "served" /\ mark'[m].n = k /\ \A l \in Marks \ {m} : mark'[l] = mark[l]
  BY <1>1, <1>2 DEF NoticeTypes
<1>9. NoticeTypes'
  BY <1>1, <1>2, <1>4, <1>6, <1>8 DEF NoticeTypes
<1>10. \A j \in 0 .. Len(notices) : UnreadUpTo(j)' \subseteq UnreadUpTo(j)
  BY <1>2, <1>7 DEF UnreadUpTo
<1>11. LoadCovers'
  BY <1>2, <1>6, <1>10, LoadStays
<1>12. CASE k = 0
  <2>1. UnreadUpTo(reached)' = {}
    BY <1>2, <1>7, <1>12 DEF UnreadUpTo
  <2> QED
    BY <1>9, <1>11, <2>1 DEF CountCovers, AllRead
<1>13. CASE k > 0
  <2>1. ASSUME ~ muddled'
        PROVE  count' >= Cardinality(UnreadUpTo(reached)') + Cardinality(ServedMarks')
    <3>1. ~ muddled /\ ~ notices[k]
      BY <1>3, <1>4, <1>13, <2>1
    <3>2. k \in UnreadUpTo(reached) /\ UnreadUpTo(reached)' = UnreadUpTo(reached) \ {k}
      BY <1>2, <1>7, <1>13, <3>1 DEF UnreadUpTo
    <3>3. m \notin ServedMarks /\ ServedMarks' = ServedMarks \cup {m}
      BY <1>2, <1>8, <1>13 DEF ServedMarks
    <3>4. Cardinality(UnreadUpTo(reached)') = Cardinality(UnreadUpTo(reached)) - 1
      BY <1>2, <3>2, UnreadIsFinite, FS_RemoveElement
    <3>5. Cardinality(ServedMarks') = Cardinality(ServedMarks) + 1
      BY <3>3, ServedIsFinite, FS_AddElement
    <3>6. count >= Cardinality(UnreadUpTo(reached)) + Cardinality(ServedMarks)
      BY <3>1, <3>2 DEF CountCovers
    <3>7. Cardinality(UnreadUpTo(reached)) \in Nat /\ Cardinality(ServedMarks) \in Nat /\ count \in Nat
      BY <1>2, UnreadIsFinite, ServedIsFinite DEF NoticeTypes
    <3> QED
      BY <1>2, <3>4, <3>5, <3>6, <3>7
  <2>2. AllRead'
    <3>1. UnreadUpTo(reached)' \subseteq UnreadUpTo(reached)
      BY <1>2, <1>7 DEF UnreadUpTo
    <3>2. \A l \in Marks : mark'[l].at = "served" /\ mark'[l].n = 0 => mark[l] = mark'[l]
      BY <1>8, <1>13
    <3> QED
      BY <1>4, <3>1, <3>2 DEF AllRead
  <2> QED
    BY <1>9, <1>11, <2>1, <2>2 DEF CountCovers
<1> QED
  BY <1>1, <1>2, <1>12, <1>13

\* An answer takes off the count at most what the service had taken off the unread.
LEMMA MarkEndsKeeps ==
  ASSUME NoticeInvariant, NEW m \in Marks, MarkAnswered(m) \/ MarkFails(m)
  PROVE  NoticeInvariant'
<1> USE DEF NoticeInvariant
<1>1. /\ mark' = [mark EXCEPT ![m] = NoMark] /\ UNCHANGED <<notices, load, reached, muddled>>
      /\ reached \in Nat /\ count \in Nat
  BY DEF MarkAnswered, MarkFails, NoticeTypes
<1>2. /\ mark' \in [Marks -> [at : {"none", "sent", "served"}, n : Nat]]
      /\ mark'[m] = NoMark /\ \A l \in Marks \ {m} : mark'[l] = mark[l]
  BY <1>1 DEF NoticeTypes, NoMark
<1>3. /\ count' \in Nat
      /\ \A i \in DOMAIN cards' : cards'[i] \in CardRecords /\ cards'[i].n <= reached
  <2>1. CASE MarkFails(m)
    BY <2>1 DEF MarkFails, NoticeTypes
  <2>2. CASE MarkAnswered(m) /\ mark[m].n = 0
    <3>1. cards' = [i \in DOMAIN cards |-> [cards[i] EXCEPT !.read = TRUE]] /\ count' = 0
      BY <2>2 DEF MarkAnswered
    <3> QED
      BY <3>1 DEF NoticeTypes, CardRecords
  <2>3. CASE MarkAnswered(m) /\ mark[m].n # 0
    <3>1. /\ cards' = [i \in DOMAIN cards |-> [cards[i] EXCEPT !.read = @ \/ cards[i].n = mark[m].n]]
          /\ count' = Lowered(count)
      BY <2>3 DEF MarkAnswered
    <3>2. ASSUME NEW i \in DOMAIN cards'
          PROVE  cards'[i] \in CardRecords /\ cards'[i].n <= reached
      <4>1. i \in DOMAIN cards /\ cards[i] \in CardRecords /\ cards[i].n <= reached
        BY <3>1, <3>2 DEF NoticeTypes
      <4>2. PICK read \in BOOLEAN : read = (cards[i].read \/ cards[i].n = mark[m].n)
        OBVIOUS
      <4>3. cards'[i] = [cards[i] EXCEPT !.read = read]
        BY <3>1, <4>1, <4>2
      <4> QED
        BY <4>1, <4>3 DEF CardRecords
    <3>3. count' \in Nat
      BY <1>1, <3>1 DEF Lowered
    <3> QED
      BY <3>2, <3>3
  <2> QED
    BY <2>1, <2>2, <2>3
<1>4. NoticeTypes'
  BY <1>1, <1>2, <1>3 DEF NoticeTypes, NoMark
<1>5. LoadCovers'
  BY <1>1 DEF LoadCovers, UnreadUpTo
<1>6. UnreadUpTo(reached)' = UnreadUpTo(reached)
  BY <1>1 DEF UnreadUpTo
<1>7. ServedMarks' = ServedMarks \ {m}
  BY <1>2 DEF ServedMarks, NoMark
<1>8. CountCovers'
  <2>1. CASE muddled \/ UnreadUpTo(reached) = {}
    BY <1>1, <1>6, <2>1 DEF CountCovers
  <2>2. CASE ~ muddled /\ UnreadUpTo(reached) # {}
    <3>1. count >= Cardinality(UnreadUpTo(reached)) + Cardinality(ServedMarks)
      BY <2>2 DEF CountCovers
    <3>2. Cardinality(UnreadUpTo(reached)) \in Nat /\ Cardinality(ServedMarks) \in Nat
      BY <1>1, UnreadIsFinite, ServedIsFinite
    <3>3. CASE m \in ServedMarks
      <4>1. Cardinality(ServedMarks') = Cardinality(ServedMarks) - 1 /\ Cardinality(ServedMarks) > 0
        <5>1. Cardinality(ServedMarks') = Cardinality(ServedMarks) - 1
          BY <1>7, <3>3, ServedIsFinite, FS_RemoveElement
        <5>2. Cardinality(ServedMarks') \in Nat
          BY <1>7, ServedIsFinite, FS_Subset, FS_CardinalityType
        <5> QED
          BY <3>2, <5>1, <5>2
      <4>2. count' >= count - 1
        BY <1>1, <3>3 DEF MarkAnswered, MarkFails, Lowered, ServedMarks
      <4> QED
        BY <1>1, <1>3, <1>6, <3>1, <3>2, <4>1, <4>2 DEF CountCovers
    <3>4. CASE m \notin ServedMarks /\ count' = count
      <4>1. ServedMarks' = ServedMarks
        BY <1>7, <3>4
      <4> QED
        BY <1>1, <1>6, <3>1, <3>4, <4>1 DEF CountCovers
    <3>5. CASE m \notin ServedMarks /\ count' # count
      <4>1. mark[m].at = "served" /\ mark[m].n = 0
        BY <3>5 DEF MarkAnswered, MarkFails, ServedMarks, NoticeTypes
      <4> QED
        BY <2>2, <4>1 DEF AllRead
    <3> QED
      BY <3>3, <3>4, <3>5
  <2> QED
    BY <2>1, <2>2
<1>9. AllRead'
  BY <1>1, <1>2, <1>6 DEF AllRead, NoMark
<1> QED
  BY <1>4, <1>5, <1>8, <1>9

LEMMA NoticesStep == NoticeInvariant /\ [NoticesNext]_noticeList => NoticeInvariant'
<1> SUFFICES ASSUME NoticeInvariant, [NoticesNext]_noticeList
             PROVE  NoticeInvariant'
  OBVIOUS
<1>1. CASE UNCHANGED noticeList
  BY <1>1 DEF noticeList, NoticeInvariant, NoticeTypes, LoadCovers, CountCovers, AllRead, UnreadUpTo, ServedMarks
<1>2. CASE Focus
  BY <1>2 DEF Focus, NoticeInvariant, NoticeTypes, LoadCovers, CountCovers, AllRead, UnreadUpTo, ServedMarks
<1>3. CASE LoadFails
  BY <1>3 DEF LoadFails, NoticeInvariant, NoticeTypes, LoadCovers, CountCovers, AllRead, UnreadUpTo, ServedMarks
<1> QED
  BY <1>1, <1>2, <1>3, NotifyKeeps, ReadListKeeps, ListLoadedKeeps, PressKeepsNotices, MarkServedKeeps, MarkEndsKeeps
     DEF NoticesNext

LEMMA CountHides == NoticeInvariant => CountHidesNothing
<1> SUFFICES ASSUME NoticeInvariant, ~ muddled
             PROVE  count >= Cardinality(UnreadUpTo(reached))
  BY DEF CountHidesNothing, UnreadUpTo
<1>1. count \in Nat /\ reached \in Nat
  BY DEF NoticeInvariant, NoticeTypes
<1>2. Cardinality(UnreadUpTo(reached)) \in Nat /\ Cardinality(ServedMarks) \in Nat
  BY <1>1, UnreadIsFinite, ServedIsFinite
<1>3. CASE UnreadUpTo(reached) = {}
  BY <1>1, <1>3, FS_EmptySet
<1> QED
  BY <1>1, <1>2, <1>3 DEF NoticeInvariant, CountCovers

-----------------------------------------------------------------------------
(* TripChat.                                                               *)

\* Messages are appended: what was written stays, and more may be written.
Grows ==
    /\ Len(messages) \in Nat /\ Len(messages') \in Nat /\ Len(messages) <= Len(messages')
    /\ DOMAIN messages = 1 .. Len(messages) /\ DOMAIN messages' = 1 .. Len(messages')
    /\ \A i \in 1 .. Len(messages) : messages'[i] = messages[i]

LEMMA WriteGrows ==
  ASSUME NEW t, NEW from, \E S : messages \in Seq(S), Write(t, from)
  PROVE  Grows /\ \E S : messages' \in Seq(S)
<1>1. PICK S : messages \in Seq(S)
  OBVIOUS
<1>2. PICK m : m = [trip |-> t, from |-> from]
  OBVIOUS
<1>3. PICK T : T = S \cup {m}
  OBVIOUS
<1>4. messages \in Seq(T) /\ m \in T /\ messages' = Append(messages, m)
  <2>1. messages \in Seq(T)
    BY <1>1, <1>3
  <2> QED
    BY <1>2, <1>3, <2>1 DEF Write
<1> QED
  BY <1>4 DEF Grows

LEMMA SameGrows == (\E S : messages \in Seq(S)) /\ UNCHANGED messages => Grows /\ \E S : messages' \in Seq(S)
<1> SUFFICES ASSUME NEW S, messages \in Seq(S), UNCHANGED messages
             PROVE  Grows /\ messages' \in Seq(S)
  OBVIOUS
<1> QED
  BY DEF Grows

LEMMA WrittenGrows ==
  ASSUME Grows, NEW t
  PROVE  /\ OfTrip(t) \subseteq OfTrip(t)' /\ OfTrip(t)' \subseteq DOMAIN messages'
         /\ DOMAIN messages \subseteq DOMAIN messages'
         /\ \A A \in SUBSET DOMAIN messages : FromDriver(A)' = FromDriver(A)
         /\ Written(t) \in Nat /\ Written(t)' \in Nat /\ Written(t) <= Written(t)'
<1>1. /\ OfTrip(t) \subseteq OfTrip(t)' /\ OfTrip(t)' \subseteq DOMAIN messages' /\ OfTrip(t) \subseteq DOMAIN messages
      /\ DOMAIN messages \subseteq DOMAIN messages'
  BY DEF Grows, OfTrip
<1>2. \A A \in SUBSET DOMAIN messages : FromDriver(A)' = FromDriver(A)
  BY DEF Grows, FromDriver
<1>3. FromDriver(OfTrip(t)) \subseteq FromDriver(OfTrip(t))' /\ FromDriver(OfTrip(t))' \subseteq 1 .. Len(messages')
  BY <1>1 DEF Grows, FromDriver
<1>4. IsFiniteSet(1 .. Len(messages'))
  <2>1. PICK n \in Nat : n = Len(messages')
    BY DEF Grows
  <2>2. IsFiniteSet(1 .. n)
    BY FS_Interval
  <2> QED
    BY <2>1, <2>2
<1>5. IsFiniteSet(FromDriver(OfTrip(t))')
  BY <1>3, <1>4, FS_Subset
<1> QED
  BY <1>1, <1>2, <1>3, <1>5, FS_Subset, FS_CardinalityType DEF Written

LEMMA ChatInitially == ChatInit => ChatInvariant
<1> SUFFICES ASSUME ChatInit
             PROVE  ChatInvariant
  OBVIOUS
<1>1. NoChatFetch \in FetchRecords /\ NoReply.tab = NoChat
  BY DEF NoChatFetch, FetchRecords, NoReply
<1>2. /\ messages = <<>> /\ <<>> \in Seq({}) /\ DOMAIN messages = {} /\ unreadPoll = <<>>
      /\ unread = [t \in Trips |-> 0] /\ seen = [t \in Trips |-> 0]
  BY DEF ChatInit
<1>3. ChatTypes
  <2>1. \E S : messages \in Seq(S)
    BY <1>2
  <2>2. fresh \in BOOLEAN /\ late \in BOOLEAN
    BY DEF ChatInit
  <2>3. unread \in [Trips -> Nat] /\ seen \in [Trips -> Nat]
    BY <1>2
  <2>4. listed \in [Trips -> SUBSET Nat] /\ chatFetch \in [Trips -> FetchRecords]
    BY <1>1 DEF ChatInit
  <2>5. /\ chat = NoChat /\ tab = NoChat /\ timer = NoChat /\ mine = {} /\ answers = {} /\ reply.tab = NoChat
    BY <1>1 DEF ChatInit
  <2> QED
    BY <1>2, <2>1, <2>2, <2>3, <2>4, <2>5 DEF ChatTypes
<1>4. \A t \in Trips : Written(t) = 0
  <2>1. \A t \in Trips : FromDriver(OfTrip(t)) = {}
    BY <1>2 DEF FromDriver, OfTrip
  <2> QED
    BY <2>1, FS_EmptySet DEF Written
<1>5. CountsLag
  BY <1>2, <1>4 DEF CountsLag
<1>6. ListsAreOfMessages
  BY DEF ChatInit, ListsAreOfMessages, NoChatFetch
<1> QED
  BY <1>3, <1>5, <1>6 DEF ChatInit, ChatInvariant, OpenChatFollows, TabFollows

\* Steps that leave the messages and the dispatcher's page alone.
LEMMA DeskSideStays ==
  ASSUME ChatInvariant, Grows, \E S : messages' \in Seq(S), UNCHANGED deskSide,
         tab' \in Trips \cup {NoChat}, timer' = tab', late' \in BOOLEAN, mine' \in SUBSET Nat, answers' \subseteq AnswerRecords,
         reply'.tab \in Trips \cup {NoChat}, TabFollows'
  PROVE  ChatInvariant'
<1> USE DEF ChatInvariant
<1>1. ChatTypes'
  BY DEF ChatTypes, deskSide
<1>2. CountsLag'
  <2>1. ASSUME NEW t \in Trips
        PROVE  /\ unread'[t] <= Written(t)' /\ seen'[t] <= Written(t)'
               /\ \A u \in [Trips -> Nat] : unreadPoll' = <<u>> => u[t] <= Written(t)'
    <3>1. Written(t) \in Nat /\ Written(t)' \in Nat /\ Written(t) <= Written(t)'
      BY WrittenGrows
    <3>2. unread[t] \in Nat /\ seen[t] \in Nat
      BY DEF ChatTypes
    <3> QED
      BY <3>1, <3>2 DEF CountsLag, deskSide
  <2> QED
    BY <2>1 DEF CountsLag
<1>3. ListsAreOfMessages'
  BY WrittenGrows DEF ListsAreOfMessages, deskSide
<1>4. OpenChatFollows'
  <2>1. ASSUME chat # NoChat
        PROVE  /\ FromDriver(listed[chat])' = FromDriver(listed[chat])
               /\ FromDriver(chatFetch[chat].got)' = FromDriver(chatFetch[chat].got)
    <3>1. PICK a \in SUBSET DOMAIN messages : a = listed[chat]
      BY <2>1 DEF ListsAreOfMessages, ChatTypes
    <3>2. PICK b \in SUBSET DOMAIN messages : b = chatFetch[chat].got
      BY <2>1 DEF ListsAreOfMessages, ChatTypes
    <3>3. listed'[chat'] = a /\ chatFetch'[chat'].got = b
      BY <3>1, <3>2 DEF deskSide
    <3>4. FromDriver(a)' = FromDriver(a) /\ FromDriver(b)' = FromDriver(b)
      BY WrittenGrows
    <3> QED
      BY <3>1, <3>2, <3>3, <3>4 DEF FromDriver
  <2> QED
    BY <2>1 DEF OpenChatFollows, deskSide
<1> QED
  BY <1>1, <1>2, <1>3, <1>4

LEMMA MyTab ==
  ASSUME ChatTypes, NEW t \in Trips \cup {NoChat}
  PROVE  /\ MyMessages(t) \in SUBSET Nat
         /\ t # NoChat => MyMessages(t) = OfTrip(t)
<1>1. DOMAIN messages \subseteq Nat
  <2>1. PICK S : messages \in Seq(S)
    BY DEF ChatTypes
  <2> QED
    BY <2>1
<1> QED
  BY <1>1 DEF MyMessages, Oldest, OfTrip

LEMMA AskingType ==
  ASSUME ChatTypes, NEW t \in Trips \cup {NoChat}, NEW r \in BOOLEAN, NEW l \in BOOLEAN
  PROVE  /\ Asking(t, r, l) \in AnswerRecords
         /\ Asking(t, r, l).late = l /\ Asking(t, r, l).got = MyMessages(t)
BY MyTab DEF Asking, AnswerRecords

\* The driver's side.
LEMMA DriverKeeps ==
  ASSUME ChatInvariant,
         \/ DriverPolls \/ PressSend \/ ReplyLoads \/ ReplyFails
         \/ \E a \in answers : AnswerArrives(a)
         \/ \E t \in MyTrips : ChooseTab(t)
  PROVE  ChatInvariant'
<1> USE DEF ChatInvariant
<1>1. UNCHANGED <<messages, deskSide>>
  BY DEF DriverPolls, PressSend, ReplyLoads, ReplyFails, AnswerArrives, ChooseTab, driverSideButReply
<1>2. Grows /\ \E S : messages' \in Seq(S)
  BY <1>1, SameGrows DEF ChatTypes
<1>3. \A t : OfTrip(t)' = OfTrip(t)
  BY <1>1 DEF OfTrip
<1>4. /\ tab \in Trips \cup {NoChat} /\ timer = tab /\ late \in BOOLEAN /\ mine \in SUBSET Nat /\ answers \subseteq AnswerRecords
      /\ reply.tab \in Trips \cup {NoChat}
  BY DEF ChatTypes
<1>5. CASE DriverPolls
  <2>1. /\ answers' = answers \cup {Asking(timer, FALSE, FALSE)} /\ UNCHANGED <<tab, mine, timer, reply, late>>
    BY <1>5 DEF DriverPolls
  <2>2. /\ Asking(timer, FALSE, FALSE) \in AnswerRecords
        /\ tab # NoChat => Asking(timer, FALSE, FALSE).got = OfTrip(tab)
    BY <1>4, AskingType, MyTab
  <2>3. TabFollows'
    BY <1>3, <2>1, <2>2 DEF TabFollows
  <2> QED
    BY <1>1, <1>2, <1>4, <2>1, <2>2, <2>3, DeskSideStays
<1>6. CASE PressSend
  <2>1. reply'.tab = tab /\ UNCHANGED <<tab, mine, timer, answers, late>>
    BY <1>6 DEF PressSend
  <2>2. TabFollows'
    BY <1>3, <2>1 DEF TabFollows
  <2> QED
    BY <1>1, <1>2, <1>4, <2>1, <2>2, DeskSideStays
<1>7. CASE ReplyLoads
  <2>1. PICK isLate \in BOOLEAN : isLate = (reply.tab # tab)
    OBVIOUS
  <2>2. /\ answers' = answers \cup {Asking(reply.tab, TRUE, isLate)} /\ UNCHANGED <<tab, mine, timer, late>>
        /\ reply' = [reply EXCEPT !.at = "loading"]
    BY <1>7, <2>1 DEF ReplyLoads
  <2>3. /\ Asking(reply.tab, TRUE, isLate) \in AnswerRecords /\ Asking(reply.tab, TRUE, isLate).late = isLate
        /\ ~isLate /\ tab # NoChat => Asking(reply.tab, TRUE, isLate).got = OfTrip(tab)
    BY <1>4, <2>1, AskingType, MyTab
  <2>4. TabFollows'
    BY <1>3, <2>2, <2>3 DEF TabFollows
  <2>5. reply'.tab \in Trips \cup {NoChat}
    BY <1>4, <2>2 DEF ChatTypes
  <2> QED
    BY <1>1, <1>2, <1>4, <2>2, <2>3, <2>4, <2>5, DeskSideStays
<1>8. CASE ReplyFails
  <2>1. reply' = NoReply /\ UNCHANGED <<tab, mine, timer, answers, late>>
    BY <1>8 DEF ReplyFails, driverSideButReply
  <2>2. reply'.tab = NoChat
    BY <2>1 DEF NoReply
  <2>3. TabFollows'
    BY <1>3, <2>1 DEF TabFollows
  <2> QED
    BY <1>1, <1>2, <1>4, <2>1, <2>2, <2>3, DeskSideStays
<1>9. ASSUME NEW a \in answers, AnswerArrives(a)
      PROVE  ChatInvariant'
  <2>1. /\ answers' = answers \ {a} /\ mine' = a.got /\ late' = a.late /\ UNCHANGED <<tab, timer>>
        /\ reply' = reply \/ reply' = NoReply
    BY <1>9 DEF AnswerArrives
  <2>2. a.got \in SUBSET Nat /\ a.late \in BOOLEAN
    BY <1>4 DEF AnswerRecords
  <2>3. reply'.tab \in Trips \cup {NoChat}
    BY <1>4, <2>1 DEF NoReply
  <2>4. TabFollows'
    BY <1>3, <2>1 DEF TabFollows
  <2> QED
    BY <1>1, <1>2, <1>4, <2>1, <2>2, <2>3, <2>4, DeskSideStays
<1>10. ASSUME NEW t \in MyTrips, ChooseTab(t)
       PROVE  ChatInvariant'
  <2>1. /\ tab' = t /\ timer' = t /\ late' = TRUE /\ answers' = {[a EXCEPT !.late = TRUE] : a \in answers}
        /\ UNCHANGED <<mine, reply>>
    BY <1>10 DEF ChooseTab, TimerFor
  <2>2. \A a \in answers : [a EXCEPT !.late = TRUE] \in AnswerRecords /\ [a EXCEPT !.late = TRUE].late
    BY <1>4 DEF AnswerRecords
  <2>3. answers' \subseteq AnswerRecords /\ \A a \in answers' : a.late
    BY <2>1, <2>2
  <2>4. TabFollows'
    BY <2>1, <2>3 DEF TabFollows
  <2>5. t \in Trips
    BY ChatAssumption
  <2> QED
    BY <1>1, <1>2, <1>4, <2>1, <2>3, <2>4, <2>5, DeskSideStays
<1> QED
  BY <1>5, <1>6, <1>7, <1>8, <1>9, <1>10

LEMMA StoredKeeps ==
  ASSUME ChatInvariant, ReplyIsStored \/ \E t \in MyTrips \cup {NoChat} : OpenScreen(t)
  PROVE  ChatInvariant'
<1> USE DEF ChatInvariant
<1>1. \E S : messages \in Seq(S)
  BY DEF ChatTypes
<1>2. CASE ReplyIsStored
  <2>1. Write(reply.trip, "DRIVER") /\ reply' = [reply EXCEPT !.at = "stored"] /\ UNCHANGED <<deskSide, driverSideButReply>>
    BY <1>2 DEF ReplyIsStored
  <2>2. Grows /\ \E S : messages' \in Seq(S)
    BY <1>1, <2>1, WriteGrows
  <2>3. \A t : OfTrip(t) \subseteq OfTrip(t)'
    BY <2>2, WrittenGrows
  <2>4. UNCHANGED <<tab, mine, timer, answers, late>> /\ reply'.tab = reply.tab
    BY <2>1 DEF driverSideButReply
  <2>5. TabFollows'
    BY <2>3, <2>4 DEF TabFollows
  <2>6. UNCHANGED deskSide
    BY <2>1
  <2> QED
    BY <2>2, <2>4, <2>5, <2>6, DeskSideStays DEF ChatTypes
<1>3. ASSUME NEW t \in MyTrips \cup {NoChat}, OpenScreen(t)
      PROVE  ChatInvariant'
  <2>1. /\ tab' = t /\ timer' = t /\ mine' = {} /\ answers' = {} /\ reply' = NoReply /\ late' = FALSE /\ UNCHANGED deskSide
        /\ UNCHANGED messages \/ Write(reply.trip, "DRIVER")
    BY <1>3 DEF OpenScreen
  <2>2. Grows /\ \E S : messages' \in Seq(S)
    BY <1>1, <2>1, SameGrows, WriteGrows
  <2>3. t \in Trips \cup {NoChat} /\ reply'.tab = NoChat
    BY <2>1, ChatAssumption DEF NoReply
  <2>4. TabFollows'
    BY <2>1 DEF TabFollows
  <2> QED
    BY <2>1, <2>2, <2>3, <2>4, DeskSideStays
<1> QED
  BY <1>2, <1>3

\* Steps of the dispatcher's page leave the driver's side alone.
LEMMA DriverSideStays ==
  ASSUME ChatInvariant, Grows, \E S : messages' \in Seq(S), UNCHANGED driverSide,
         unread' \in [Trips -> Nat], seen' \in [Trips -> Nat],
         unreadPoll' = <<>> \/ \E u \in [Trips -> Nat] : unreadPoll' = <<u>>,
         chat' \in Trips \cup {NoChat}, listed' \in [Trips -> SUBSET Nat], chatFetch' \in [Trips -> FetchRecords],
         fresh' \in BOOLEAN, CountsLag', ListsAreOfMessages', OpenChatFollows'
  PROVE  ChatInvariant'
<1> USE DEF ChatInvariant
<1>1. ChatTypes'
  BY DEF ChatTypes, driverSide
<1>2. TabFollows'
  BY WrittenGrows DEF TabFollows, driverSide
<1> QED
  BY <1>1, <1>2

LEMMA UnchangedCounts ==
  ASSUME ChatInvariant, UNCHANGED <<messages, unread, unreadPoll, seen>>
  PROVE  CountsLag'
BY DEF ChatInvariant, CountsLag, Written, OfTrip, FromDriver

LEMMA PollKeeps ==
  ASSUME ChatInvariant, UnreadRead \/ UnreadArrives
  PROVE  ChatInvariant'
<1> USE DEF ChatInvariant
<1>1. UNCHANGED <<messages, seen, chat, listed, chatFetch, fresh, driverSide>>
  BY DEF UnreadRead, UnreadArrives
<1>2. Grows /\ \E S : messages' \in Seq(S)
  BY <1>1, SameGrows DEF ChatTypes
<1>3. \A t : Written(t)' = Written(t)
  BY <1>1 DEF Written, OfTrip, FromDriver
<1>4. ListsAreOfMessages' /\ OpenChatFollows'
  BY <1>1 DEF ListsAreOfMessages, OpenChatFollows, FromDriver
<1>5. /\ seen' \in [Trips -> Nat] /\ chat' \in Trips \cup {NoChat} /\ listed' \in [Trips -> SUBSET Nat]
      /\ chatFetch' \in [Trips -> FetchRecords] /\ fresh' \in BOOLEAN /\ unread \in [Trips -> Nat]
      /\ unreadPoll = <<>> \/ \E u \in [Trips -> Nat] : unreadPoll = <<u>>
  BY <1>1 DEF ChatTypes
<1>6. CASE UnreadRead
  <2>1. \A t \in Trips : Written(t) \in Nat
    BY <1>2, WrittenGrows
  <2>2. PICK v \in [Trips -> Nat] : v = UnreadCounts /\ \A t \in Trips : v[t] = Written(t)
    <3>1. UnreadCounts = [t \in Trips |-> Written(t)]
      BY DEF UnreadCounts, Written
    <3>2. PICK v : v = [t \in Trips |-> Written(t)]
      OBVIOUS
    <3>3. \A t \in Trips : v[t] = Written(t)
      BY <3>2
    <3>4. v \in [Trips -> Nat]
      BY <2>1, <3>2
    <3> QED
      BY <3>1, <3>2, <3>3, <3>4
  <2>3. unreadPoll' = <<v>> /\ unread' = unread
    BY <1>6, <2>2 DEF UnreadRead
  <2>4. \A u : unreadPoll' = <<u>> => u = v
    BY <2>3
  <2>5. CountsLag'
    BY <1>1, <1>3, <2>1, <2>2, <2>3, <2>4 DEF CountsLag
  <2> QED
    BY <1>1, <1>2, <1>4, <1>5, <2>3, <2>5, DriverSideStays
<1>7. CASE UnreadArrives
  <2>1. unreadPoll # <<>> /\ unread' = Head(unreadPoll) /\ unreadPoll' = <<>>
    BY <1>7 DEF UnreadArrives
  <2>2. PICK u \in [Trips -> Nat] : unreadPoll = <<u>>
    BY <1>5, <2>1
  <2>3. unread' = u
    BY <2>1, <2>2
  <2>4. \A v : unreadPoll' # <<v>>
    BY <2>1
  <2>5. CountsLag'
    BY <1>1, <1>3, <2>2, <2>3, <2>4 DEF CountsLag
  <2> QED
    BY <1>1, <1>2, <1>4, <1>5, <2>1, <2>3, <2>5, DriverSideStays
<1> QED
  BY <1>6, <1>7

\* What is taken off the badge has been written; what is still to arrive does not count.
LEMMA OpenKeeps ==
  ASSUME ChatInvariant, NEW t \in Trips, OpenChat(t)
  PROVE  ChatInvariant'
<1> USE DEF ChatInvariant
<1>1. /\ chat' = t /\ seen' = [seen EXCEPT ![t] = unread[t]] /\ fresh' = FALSE
      /\ UNCHANGED <<messages, unread, unreadPoll, listed, driverSide>>
  BY DEF OpenChat
<1>2. chatFetch[t] \in FetchRecords
  BY DEF ChatTypes
<1>3. PICK f : f = IF chatFetch[t].at = "none" THEN [chatFetch[t] EXCEPT !.at = "asked"] ELSE [chatFetch[t] EXCEPT !.fresh = FALSE]
  OBVIOUS
<1>4. chatFetch' = [chatFetch EXCEPT ![t] = f]
  BY <1>3 DEF OpenChat
<1>5. f \in FetchRecords /\ f.got = chatFetch[t].got /\ (f.at = "read" => ~f.fresh)
  BY <1>2, <1>3 DEF FetchRecords
<1>6. /\ chatFetch' \in [Trips -> FetchRecords] /\ chatFetch'[t] = f
      /\ \A s \in Trips \ {t} : chatFetch'[s] = chatFetch[s]
  BY <1>4, <1>5 DEF ChatTypes
<1>7. Grows /\ \E S : messages' \in Seq(S)
  BY <1>1, SameGrows DEF ChatTypes
<1>8. CountsLag'
  <2>1. \A s : Written(s)' = Written(s)
    BY <1>1 DEF Written, OfTrip, FromDriver
  <2>2. \A s \in Trips : seen'[s] = seen[s] \/ (s = t /\ seen'[s] = unread[s])
    BY <1>1 DEF ChatTypes
  <2> QED
    BY <1>1, <2>1, <2>2 DEF CountsLag
<1>9. ListsAreOfMessages'
  BY <1>1, <1>5, <1>6 DEF ListsAreOfMessages
<1>10. OpenChatFollows'
  BY <1>1, <1>5, <1>6 DEF OpenChatFollows
<1>11. /\ seen' \in [Trips -> Nat] /\ listed' \in [Trips -> SUBSET Nat] /\ unread' \in [Trips -> Nat] /\ fresh' \in BOOLEAN
       /\ unreadPoll' = <<>> \/ \E u \in [Trips -> Nat] : unreadPoll' = <<u>>
  BY <1>1 DEF ChatTypes
<1> QED
  BY <1>1, <1>6, <1>7, <1>8, <1>9, <1>10, <1>11, DriverSideStays

LEMMA CloseKeeps ==
  ASSUME ChatInvariant, CloseChat
  PROVE  ChatInvariant'
<1> USE DEF ChatInvariant
<1>1. /\ chat' = NoChat /\ seen' = [seen EXCEPT ![chat] = unread[chat]] /\ fresh' = FALSE
      /\ UNCHANGED <<messages, unread, unreadPoll, listed, chatFetch, driverSide>>
  BY DEF CloseChat
<1>2. Grows /\ \E S : messages' \in Seq(S)
  BY <1>1, SameGrows DEF ChatTypes
<1>3. CountsLag'
  <2>1. \A s : Written(s)' = Written(s)
    BY <1>1 DEF Written, OfTrip, FromDriver
  <2>2. \A s \in Trips : seen'[s] = seen[s] \/ seen'[s] = unread[s]
    BY <1>1 DEF ChatTypes
  <2> QED
    BY <1>1, <2>1, <2>2 DEF CountsLag
<1>4. ListsAreOfMessages' /\ OpenChatFollows'
  BY <1>1 DEF ListsAreOfMessages, OpenChatFollows
<1>5. /\ seen' \in [Trips -> Nat] /\ listed' \in [Trips -> SUBSET Nat] /\ unread' \in [Trips -> Nat] /\ fresh' \in BOOLEAN
      /\ unreadPoll' = <<>> \/ \E u \in [Trips -> Nat] : unreadPoll' = <<u>>
      /\ chatFetch' \in [Trips -> FetchRecords]
  <2>1. seen' \in [Trips -> Nat]
    BY <1>1 DEF ChatTypes, CloseChat
  <2> QED
    BY <1>1, <2>1 DEF ChatTypes
<1> QED
  BY <1>1, <1>2, <1>3, <1>4, <1>5, DriverSideStays

LEMMA ChatReadKeeps ==
  ASSUME ChatInvariant, NEW t \in Trips, ChatRead(t)
  PROVE  ChatInvariant'
<1> USE DEF ChatInvariant
<1>1. PICK open \in BOOLEAN : open = (chat = t)
  OBVIOUS
<1>2. PICK f : f = [at |-> "read", got |-> OfTrip(t), fresh |-> open]
  OBVIOUS
<1>3. /\ chatFetch' = [chatFetch EXCEPT ![t] = f]
      /\ UNCHANGED <<messages, unread, unreadPoll, seen, chat, listed, fresh, driverSide>>
  BY <1>1, <1>2 DEF ChatRead
<1>4. Grows /\ \E S : messages' \in Seq(S)
  BY <1>3, SameGrows DEF ChatTypes
<1>5. OfTrip(t) \subseteq DOMAIN messages /\ DOMAIN messages \subseteq Nat
  BY <1>4 DEF OfTrip, Grows
<1>6. f \in FetchRecords /\ f.got = OfTrip(t)
  BY <1>2, <1>5 DEF FetchRecords
<1>7. /\ chatFetch' \in [Trips -> FetchRecords] /\ chatFetch'[t] = f
      /\ \A s \in Trips \ {t} : chatFetch'[s] = chatFetch[s]
  BY <1>3, <1>6 DEF ChatTypes
<1>8. ListsAreOfMessages'
  BY <1>3, <1>5, <1>6, <1>7 DEF ListsAreOfMessages
<1>9. OpenChatFollows'
  <2>1. \A A : FromDriver(A)' = FromDriver(A)
    BY <1>3 DEF FromDriver
  <2>2. chat = t => Cardinality(FromDriver(f.got)) >= seen[t]
    <3>1. Written(t) \in Nat /\ seen[t] \in Nat /\ seen[t] <= Written(t)
      BY <1>4, WrittenGrows DEF CountsLag, ChatTypes
    <3> QED
      BY <1>6, <3>1 DEF Written
  <2>3. ASSUME chat # NoChat
        PROVE  /\ fresh' => Cardinality(FromDriver(listed[chat])') >= seen'[chat']
               /\ chatFetch'[chat'].at = "read" /\ chatFetch'[chat'].fresh =>
                     Cardinality(FromDriver(chatFetch[chat].got)') >= seen'[chat']
               /\ fresh' /\ chatFetch'[chat'].at = "read" => chatFetch'[chat'].fresh
    <3>1. PICK a : a = listed[chat]
      OBVIOUS
    <3>2. PICK b : b = chatFetch'[chat].got
      OBVIOUS
    <3>3. fresh => Cardinality(FromDriver(a)) >= seen[chat]
      BY <2>3, <3>1 DEF OpenChatFollows
    <3>4. chatFetch'[chat].at = "read" /\ chatFetch'[chat].fresh => Cardinality(FromDriver(b)) >= seen[chat]
      <4>1. CASE chat = t
        <5>1. b = f.got
          BY <1>7, <3>2, <4>1
        <5> QED
          BY <2>2, <4>1, <5>1
      <4>2. CASE chat # t
        <5>1. chatFetch'[chat] = chatFetch[chat] /\ b = chatFetch[chat].got
          BY <1>7, <2>3, <3>2, <4>2 DEF ChatTypes
        <5> QED
          BY <2>3, <5>1 DEF OpenChatFollows
      <4> QED
        BY <4>1, <4>2
    <3>5. fresh /\ chatFetch'[chat].at = "read" => chatFetch'[chat].fresh
      <4>1. CASE chat = t
        <5>1. f.fresh
          BY <1>1, <1>2, <4>1
        <5> QED
          BY <1>7, <4>1, <5>1
      <4>2. CASE chat # t
        <5>1. chatFetch'[chat] = chatFetch[chat]
          BY <1>7, <2>3, <4>2 DEF ChatTypes
        <5> QED
          BY <2>3, <5>1 DEF OpenChatFollows
      <4> QED
        BY <4>1, <4>2
    <3>6. FromDriver(a)' = FromDriver(a) /\ FromDriver(b)' = FromDriver(b)
      BY <2>1
    <3>7. fresh' = fresh /\ chat' = chat /\ seen' = seen /\ listed'[chat'] = a /\ chatFetch'[chat'].got = b
      BY <1>3, <3>1, <3>2
    <3> QED
      BY <3>3, <3>4, <3>5, <3>6, <3>7 DEF FromDriver
  <2> QED
    BY <1>3, <2>3 DEF OpenChatFollows
<1>10. CountsLag'
  BY <1>3, UnchangedCounts
<1>11. /\ seen' \in [Trips -> Nat] /\ listed' \in [Trips -> SUBSET Nat] /\ unread' \in [Trips -> Nat] /\ fresh' \in BOOLEAN
       /\ unreadPoll' = <<>> \/ \E u \in [Trips -> Nat] : unreadPoll' = <<u>>
       /\ chat' \in Trips \cup {NoChat}
  BY <1>3 DEF ChatTypes
<1> QED
  BY <1>3, <1>4, <1>7, <1>8, <1>9, <1>10, <1>11, DriverSideStays

LEMMA ChatArrivesKeeps ==
  ASSUME ChatInvariant, NEW t \in Trips, ChatArrives(t)
  PROVE  ChatInvariant'
<1> USE DEF ChatInvariant
<1>1. PICK c \in FetchRecords : c = chatFetch[t]
  BY DEF ChatTypes
<1>2. PICK g \in SUBSET Nat : g = chatFetch[t].got /\ g = c.got
  BY <1>1 DEF FetchRecords
<1>3. PICK f : f = IF chat = t THEN [NoChatFetch EXCEPT !.at = "asked"] ELSE NoChatFetch
  OBVIOUS
<1>4. /\ listed' = [listed EXCEPT ![t] = g] /\ chatFetch' = [chatFetch EXCEPT ![t] = f]
      /\ chatFetch[t].at = "read"
      /\ UNCHANGED <<messages, unread, unreadPoll, seen, chat, driverSide>>
  BY <1>2, <1>3 DEF ChatArrives
<1>5. f \in FetchRecords /\ f.got = {} /\ f.at # "read"
  BY <1>3 DEF FetchRecords, NoChatFetch
<1>6. /\ chatFetch' \in [Trips -> FetchRecords] /\ chatFetch'[t] = f
      /\ \A s \in Trips \ {t} : chatFetch'[s] = chatFetch[s]
  BY <1>4, <1>5 DEF ChatTypes
<1>7. /\ listed' \in [Trips -> SUBSET Nat] /\ listed'[t] = g
      /\ \A s \in Trips \ {t} : listed'[s] = listed[s]
  BY <1>2, <1>4 DEF ChatTypes
<1>8. Grows /\ \E S : messages' \in Seq(S)
  BY <1>4, SameGrows DEF ChatTypes
<1>9. ListsAreOfMessages'
  BY <1>2, <1>4, <1>5, <1>6, <1>7 DEF ListsAreOfMessages
<1>10. fresh' \in BOOLEAN /\ (fresh' => fresh \/ (chat = t /\ chatFetch[t].fresh))
  <2>1. fresh \in BOOLEAN
    BY DEF ChatTypes
  <2>2. fresh' = (fresh \/ (chat = t /\ chatFetch[t].fresh))
    BY DEF ChatArrives
  <2> QED
    BY <2>1, <2>2
<1>11. ASSUME chat # NoChat
       PROVE  /\ fresh' => Cardinality(FromDriver(listed[chat])') >= seen'[chat]
              /\ chatFetch'[chat].at = "read" => chat # t
  <2>1. PICK a : a = listed'[chat]
    OBVIOUS
  <2>2. fresh' => Cardinality(FromDriver(a)) >= seen[chat]
    <3>1. CASE chat = t
      <4>1. a = chatFetch[chat].got
        BY <1>2, <1>7, <2>1, <3>1
      <4>2. fresh' => chatFetch[chat].fresh
        BY <1>4, <1>10, <1>11, <3>1 DEF OpenChatFollows
      <4> QED
        BY <1>4, <1>11, <3>1, <4>1, <4>2 DEF OpenChatFollows
    <3>2. CASE chat # t
      <4>1. a = listed[chat]
        BY <1>7, <1>11, <2>1, <3>2 DEF ChatTypes
      <4> QED
        BY <1>10, <1>11, <3>2, <4>1 DEF OpenChatFollows
    <3> QED
      BY <3>1, <3>2
  <2>3. FromDriver(a)' = FromDriver(a)
    BY <1>4 DEF FromDriver
  <2>4. chatFetch'[chat].at = "read" => chat # t
    BY <1>5, <1>6
  <2> QED
    BY <1>4, <1>10, <2>1, <2>2, <2>3, <2>4 DEF FromDriver
<1>12. OpenChatFollows'
  <2>1. ASSUME chat # NoChat, chatFetch'[chat].at = "read"
        PROVE  /\ chatFetch'[chat].fresh => Cardinality(FromDriver(chatFetch[chat].got)') >= seen'[chat]
               /\ fresh' => chatFetch'[chat].fresh
    <3>1. chat # t /\ chatFetch'[chat] = chatFetch[chat]
      BY <1>6, <1>11, <2>1 DEF ChatTypes
    <3>2. PICK b : b = chatFetch[chat].got
      OBVIOUS
    <3>3. /\ chatFetch[chat].fresh => Cardinality(FromDriver(b)) >= seen[chat]
          /\ fresh => chatFetch[chat].fresh
      BY <2>1, <3>1, <3>2 DEF OpenChatFollows
    <3>4. FromDriver(b)' = FromDriver(b)
      BY <1>4 DEF FromDriver
    <3> QED
      BY <1>4, <1>10, <3>1, <3>2, <3>3, <3>4 DEF FromDriver
  <2> QED
    BY <1>4, <1>11, <2>1 DEF OpenChatFollows, FromDriver
<1>13. CountsLag'
  BY <1>4, UnchangedCounts
<1>14. /\ seen' \in [Trips -> Nat] /\ unread' \in [Trips -> Nat] /\ fresh' \in BOOLEAN
       /\ unreadPoll' = <<>> \/ \E u \in [Trips -> Nat] : unreadPoll' = <<u>>
       /\ chat' \in Trips \cup {NoChat}
  BY <1>4, <1>10 DEF ChatTypes
<1> QED
  BY <1>4, <1>6, <1>7, <1>8, <1>9, <1>12, <1>13, <1>14, DriverSideStays

LEMMA DispatcherKeeps ==
  ASSUME ChatInvariant, DispatcherWrites
  PROVE  ChatInvariant'
<1> USE DEF ChatInvariant
<1>1. PICK f : f = [NoChatFetch EXCEPT !.at = "asked"]
  OBVIOUS
<1>2. /\ chat \in Trips /\ Write(chat, "DISPATCHER") /\ chatFetch' = [chatFetch EXCEPT ![chat] = f]
      /\ UNCHANGED <<unread, unreadPoll, seen, chat, listed, fresh, driverSide>>
  BY <1>1 DEF DispatcherWrites, ChatTypes
<1>3. f \in FetchRecords /\ f.got = {} /\ f.at # "read"
  BY <1>1 DEF FetchRecords, NoChatFetch
<1>4. /\ chatFetch' \in [Trips -> FetchRecords] /\ chatFetch'[chat] = f
      /\ \A s \in Trips \ {chat} : chatFetch'[s] = chatFetch[s]
  BY <1>2, <1>3 DEF ChatTypes
<1>5. Grows /\ \E S : messages' \in Seq(S)
  BY <1>2, WriteGrows DEF ChatTypes
<1>6. /\ seen' \in [Trips -> Nat] /\ unread' \in [Trips -> Nat] /\ fresh' \in BOOLEAN
      /\ unreadPoll' = <<>> \/ \E u \in [Trips -> Nat] : unreadPoll' = <<u>>
      /\ chat' \in Trips \cup {NoChat} /\ listed' \in [Trips -> SUBSET Nat]
  BY <1>2 DEF ChatTypes
<1>7. CountsLag'
  <2>1. ASSUME NEW t \in Trips
        PROVE  /\ unread'[t] <= Written(t)' /\ seen'[t] <= Written(t)'
               /\ \A u \in [Trips -> Nat] : unreadPoll' = <<u>> => u[t] <= Written(t)'
    <3>1. Written(t) \in Nat /\ Written(t)' \in Nat /\ Written(t) <= Written(t)'
      BY <1>5, WrittenGrows
    <3>2. unread[t] \in Nat /\ seen[t] \in Nat
      BY DEF ChatTypes
    <3> QED
      BY <1>2, <3>1, <3>2 DEF CountsLag
  <2> QED
    BY <2>1 DEF CountsLag
<1>8. ListsAreOfMessages'
  <2>1. DOMAIN messages \subseteq DOMAIN messages'
    BY <1>5, WrittenGrows
  <2> QED
    BY <1>2, <1>3, <1>4, <2>1 DEF ListsAreOfMessages
<1>9. OpenChatFollows'
  <2>1. PICK a \in SUBSET DOMAIN messages : a = listed[chat]
    BY <1>2 DEF ListsAreOfMessages
  <2>2. fresh => Cardinality(FromDriver(a)) >= seen[chat]
    BY <1>2, <2>1, ChatAssumption DEF OpenChatFollows
  <2>3. FromDriver(a)' = FromDriver(a)
    BY <1>5, WrittenGrows
  <2>4. fresh' = fresh /\ chat' = chat /\ seen' = seen /\ listed'[chat'] = a
    BY <1>2, <2>1
  <2>5. fresh' => Cardinality(FromDriver(listed[chat])') >= seen'[chat']
    BY <2>1, <2>2, <2>3, <2>4 DEF FromDriver
  <2>6. chatFetch'[chat'].at # "read"
    BY <1>2, <1>3, <1>4
  <2> QED
    BY <2>5, <2>6 DEF OpenChatFollows, FromDriver
<1> QED
  BY <1>2, <1>4, <1>5, <1>6, <1>7, <1>8, <1>9, DriverSideStays

LEMMA ChatStep == ChatInvariant /\ [ChatNext]_chatting => ChatInvariant'
<1> SUFFICES ASSUME ChatInvariant, [ChatNext]_chatting
             PROVE  ChatInvariant'
  OBVIOUS
<1>1. CASE UNCHANGED chatting
  BY <1>1 DEF chatting, ChatInvariant, ChatTypes, CountsLag, Written, ListsAreOfMessages, OpenChatFollows,
              TabFollows, OfTrip, FromDriver
<1>2. CASE UnreadRead \/ UnreadArrives
  BY <1>2, PollKeeps
<1>3. CASE CloseChat \/ DispatcherWrites
  BY <1>3, CloseKeeps, DispatcherKeeps
<1>4. ASSUME NEW t \in Trips, OpenChat(t) \/ ChatRead(t) \/ ChatArrives(t)
      PROVE  ChatInvariant'
  BY <1>4, OpenKeeps, ChatReadKeeps, ChatArrivesKeeps
<1>5. CASE \/ DriverPolls \/ PressSend \/ ReplyLoads \/ ReplyFails
           \/ \E a \in answers : AnswerArrives(a)
           \/ \E t \in MyTrips : ChooseTab(t)
  BY <1>5, DriverKeeps
<1>6. CASE ReplyIsStored \/ \E t \in MyTrips \cup {NoChat} : OpenScreen(t)
  BY <1>6, StoredKeeps
<1> QED
  BY <1>1, <1>2, <1>3, <1>4, <1>5, <1>6 DEF ChatNext

LEMMA ChatsShow == ChatInvariant => ChatsShowTheirTrip
BY DEF ChatInvariant, OpenChatFollows, TabFollows, ChatsShowTheirTrip

-----------------------------------------------------------------------------
(* MCScreens: the part at work keeps its invariant, the others stand still. *)

ScreensInvariant == DeskInvariant /\ ChatInvariant /\ NoticeInvariant /\ JobsInvariant

LEMMA ScreensInitially == MCInit => ScreensInvariant
BY DeskInitially, ChatInitially, NoticesInitially, JobsInitially DEF MCInit, ScreensInvariant

LEMMA OneAtWork ==
  [MCNext]_<<screen, map, desk, chatting, noticeList, jobs, part>> =>
      [DeskNext]_desk /\ [ChatNext]_chatting /\ [NoticesNext]_noticeList /\ [JobsNext]_jobs
BY DEF MCNext

LEMMA ScreensStep ==
  ScreensInvariant /\ [MCNext]_<<screen, map, desk, chatting, noticeList, jobs, part>> => ScreensInvariant'
BY OneAtWork, DeskStep, ChatStep, NoticesStep, JobsStep DEF ScreensInvariant

LEMMA ScreensStay == MCSpec => []ScreensInvariant
BY ScreensInitially, ScreensStep, PTL DEF MCSpec

\* With any number of trips and messages, cards and requests, what a chat that has loaded
\* takes off the badge (MonitoringPage.jsx 438-463) is in its list, the driver's screen shows
\* the messages of the trip that is chosen, and the count of NotificationsScreen.jsx is
\* nought only when there is nothing unread above what the list has read.
THEOREM HonestCounts == MCSpec => []CountsAreHonest
<1>1. ScreensInvariant => CountsAreHonest
  BY ChatsShow, CountHides DEF ScreensInvariant, CountsAreHonest
<1> QED
  BY <1>1, ScreensStay, PTL

\* With any number of desks, incidents and requests, a closed incident changes only by a
\* click of one who could not know it closed (MonitoringPage.jsx 634-716), and what the
\* office saves or approves writes over none of the changes of its own that it has been told
\* of (MaintenanceTab.jsx 129-180).
THEOREM UndoneOnlyUnaware == MCSpec => UndoneUnaware
<1>1. ScreensInvariant /\ [MCNext]_<<screen, map, desk, chatting, noticeList, jobs, part>> =>
        [\A i \in Incidents : incident[i].status \in Closed /\ incident'[i].status # incident[i].status =>
            \E c \in Clicks : click[c].incident = i /\ click[c].unaware /\ ~click[c].served /\ click'[c].served]_desk
  BY OneAtWork, ClosedByClicks DEF ScreensInvariant
<1>2. ScreensInvariant /\ [MCNext]_<<screen, map, desk, chatting, noticeList, jobs, part>> =>
        [\A o \in Orders : order[o].at = "sent" /\ order'[o].at = "served" /\ ~order[o].excused =>
            /\ order[o].kind = "edit" /\ ~order[o].picked => job'.status = job.status
            /\ order[o].kind = "approve" => job.status = "AWAITING_REVIEW"]_jobs
  BY OneAtWork, MeantByTheOffice DEF ScreensInvariant
<1> QED
  BY <1>1, <1>2, ScreensStay, PTL DEF MCSpec, UndoneUnaware, ClosedReopensUnaware, OfficeKnowsItsOwnWork

=============================================================================
