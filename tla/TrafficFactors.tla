---------------------------- MODULE TrafficFactors ----------------------------
(***************************************************************************)
(* The traffic factors of one organisation: trafficFactorService.js with   *)
(* its nightly job and the reports of traffic jams that tripController.js  *)
(* passes on.                                                              *)
(*                                                                         *)
(* External: MongoDB returns documents in the order they were inserted,    *)
(* and saving one that was deleted fails.                                  *)
(***************************************************************************)
EXTENDS TrafficTable

CONSTANTS Reports,    \* slots for jam reports being served
          Jammed,     \* the zones jams are reported in
          Histories,  \* the samples of deviations (minutes) an hour can have
          Ttl,        \* ttlMinutes of a jam
          LastTick     \* bound: the clock
ASSUME TrafficAssumption == Ttl \in Nat /\ LastTick \in Nat /\ Jammed \subseteq 1 .. 3

Lowest == 500
Highest == 3000
JamFactor == 1600

VARIABLES factors,   \* the TrafficFactor documents, oldest first
          made,      \* documents made so far
          clock,
          job,       \* where the background job is
          report,    \* of each jam report: [at, zone, id, until]
          build,     \* the table being built for a plan: [at, cut, table]
          promised,  \* history: until when an answered report holds, per zone
          disputed   \* history: zones in which reports overlapped, or one met its jam's end

traffic == <<factors, made, clock, job, report, build, promised, disputed>>

Defaults ==
    << <<"HOUR", 1, 1, 2, 1600>>, <<"HOUR", 2, 2, 3, 1100>>, <<"DOW", 0, 0, 0, 1050>>,
       <<"ZONE", 1, 0, 2, 1400>>, <<"ZONE", 2, 2, 5, 1100>>, <<"ZONE", 3, 5, 9999, 900>> >>
NotReporting == [at |-> "idle", zone |-> 0, id |-> 0, until |-> 0]
NoTable == [at |-> "idle", cut |-> 0, table |-> <<>>]

TrafficInit ==
    /\ factors = <<>> /\ made = 0 /\ clock = 1
    /\ job = "counting"
    /\ report = [r \in Reports |-> NotReporting]
    /\ build = NoTable
    /\ promised = [z \in Zones |-> 0]
    /\ disputed = {}

IsStored(id) == \E i \in DOMAIN factors : factors[i].id = id
Jams(z) == {f \in ToSet(factors) : Temporary(f) /\ f.at = z}

-----------------------------------------------------------------------------
(* The background job: defaults for an organisation without records, then  *)
(* every day what the trips of the last 30 days show.                      *)

CountRecords ==
    /\ job = "counting"
    /\ job' = IF factors = <<>> THEN "seeding" ELSE "learning"
    /\ UNCHANGED <<factors, made, clock, report, build, promised, disputed>>

Seed ==
    /\ job = "seeding"
    /\ factors' = factors \o [i \in DOMAIN Defaults |->
                     LET d == Defaults[i] IN Factor(made + i, d[1], d[2], d[3], d[4], d[5], 0)]
    /\ made' = made + Len(Defaults)
    /\ job' = "learning"
    /\ UNCHANGED <<clock, report, build, promised, disputed>>

Within(x) == IF x < Lowest THEN Lowest ELSE IF x > Highest THEN Highest ELSE x
\* 30 minutes between two stops is what a deviation is measured against.
Ratio(minutes) == Within(1000 + (minutes * 1000) \div 30)
UpperQuartile(sample) ==
    Ratio(SortSeq(sample, LAMBDA a, b : a < b)[(Len(sample) * 3) \div 4 + 1])
Average(factor, ratio) == Within((7 * factor + 3 * ratio + 5) \div 10)

\* Each hour with three samples or more; a stored hour matches itself.
RecomputeFromHistory ==
    /\ job = "learning"
    /\ \E seen \in [Hours -> Histories] :
          factors' = [i \in DOMAIN factors |->
             IF factors[i].scope = "HOUR" /\ Len(seen[factors[i].at]) >= 3
             THEN [factors[i] EXCEPT !.factor = Average(@, UpperQuartile(seen[factors[i].at]))]
             ELSE factors[i]]
    /\ job' = "idle"
    /\ UNCHANGED <<made, clock, report, build, promised, disputed>>

NextDay ==
    /\ job = "idle" /\ job' = "learning"
    /\ UNCHANGED <<factors, made, clock, report, build, promised, disputed>>

RestartJob ==
    /\ job = "idle" /\ job' = "counting"
    /\ report' = [r \in Reports |-> NotReporting] /\ build' = NoTable
    /\ UNCHANGED <<factors, made, clock, promised, disputed>>

-----------------------------------------------------------------------------
(* addCrowdsourceTraffic: a driver reports a jam.                          *)

Reporting(z) == {r \in Reports : report[r].at /= "idle" /\ report[r].zone = z}

ReportLooks(r, z) ==
    /\ report[r].at = "idle"
    /\ LET known == {f \in Jams(z) : f.until > clock}
       IN report' = [report EXCEPT ![r] =
             [at |-> IF known = {} THEN "create" ELSE "refresh", zone |-> z, until |-> clock + Ttl,
              id |-> IF known = {} THEN 0 ELSE (CHOOSE f \in known : \A g \in known : f.id <= g.id).id]]
    /\ disputed' = IF Reporting(z) = {} THEN disputed ELSE disputed \cup {z}
    /\ UNCHANGED <<factors, made, clock, job, build, promised>>

Answered(r) ==
    /\ report' = [report EXCEPT ![r] = NotReporting]
    /\ promised' = [promised EXCEPT ![report[r].zone] = IF @ > report[r].until THEN @ ELSE report[r].until]

ReportCreates(r) ==
    /\ report[r].at = "create"
    \* ZoneRadiusKmFrom and ZoneRadiusKmTo are not set: 0 and 9999 in the table.
    /\ factors' = Append(factors, Factor(made + 1, "ZONE", report[r].zone, 0, 9999, JamFactor, report[r].until))
    /\ made' = made + 1
    /\ Answered(r)
    /\ UNCHANGED <<clock, job, build, disputed>>

\* Mutant: the jam that is known keeps its end.
ExtendedNot(f, until) == f

Extended(f, until) == [f EXCEPT !.factor = IF @ > JamFactor THEN @ ELSE JamFactor, !.until = until]

ReportRefreshes(r) ==
    /\ report[r].at = "refresh"
    /\ IsStored(report[r].id)
    /\ factors' = [i \in DOMAIN factors |->
                     IF factors[i].id = report[r].id THEN Extended(factors[i], report[r].until) ELSE factors[i]]
    /\ Answered(r)
    /\ UNCHANGED <<made, clock, job, build, disputed>>

\* The jam ended and was purged in between: save fails, the caller ignores it.
ReportFails(r) ==
    /\ report[r].at = "refresh"
    /\ ~IsStored(report[r].id)
    /\ report' = [report EXCEPT ![r] = NotReporting]
    /\ disputed' = disputed \cup {report[r].zone}
    /\ UNCHANGED <<factors, made, clock, job, build, promised>>

-----------------------------------------------------------------------------
(* buildFactorTable, which removes what is over and reads the rest.        *)

InForce(f) == ~Temporary(f) \/ f.until >= clock

\* deleteMany of the others.
Remaining(fs) ==
    LET kept[n \in 0 .. Len(fs)] ==
            IF n = 0 THEN <<>> ELSE IF InForce(fs[n]) THEN Append(kept[n - 1], fs[n]) ELSE kept[n - 1]
    IN  kept[Len(fs)]

BuildPurges ==
    /\ build.at = "idle"
    /\ factors' = Remaining(factors)
    /\ build' = [NoTable EXCEPT !.at = "reading", !.cut = clock]
    /\ UNCHANGED <<made, clock, job, report, promised, disputed>>

BuildReads ==
    /\ build.at = "reading"
    /\ build' = [build EXCEPT !.at = "built", !.table = factors]
    /\ UNCHANGED <<factors, made, clock, job, report, promised, disputed>>

BuildDone ==
    /\ build.at = "built" /\ build' = NoTable
    /\ UNCHANGED <<factors, made, clock, job, report, promised, disputed>>

\* A request takes less time than a jam lasts.
TickClock ==
    /\ clock < LastTick /\ clock' = clock + 1
    /\ \A r \in Reports : report[r].at = "idle" \/ report[r].until > clock + 1
    /\ UNCHANGED <<factors, made, job, report, build, promised>>
    \* A jam that ends while a report found it running is gone for that report.
    /\ disputed' = disputed \cup {report[r].zone : r \in
                      {r \in Reports : report[r].at = "refresh"
                          /\ \E f \in ToSet(factors) : f.id = report[r].id /\ f.until <= clock + 1}}

TrafficNext ==
    \/ CountRecords \/ Seed \/ RecomputeFromHistory \/ NextDay \/ RestartJob
    \/ BuildPurges \/ BuildReads \/ BuildDone \/ TickClock
    \/ \E r \in Reports : \/ \E z \in Jammed : ReportLooks(r, z)
                          \/ ReportCreates(r) \/ ReportRefreshes(r) \/ ReportFails(r)

TrafficSpec == TrafficInit /\ [][TrafficNext]_traffic

-----------------------------------------------------------------------------
\* A jam report (tripController.js:375, trafficFactorService.js:147) is in the records
\* from its answer until its time is over, unless reports of its zone overlapped or the
\* jam it extended ended meanwhile; and no table a plan is timed with holds a jam that
\* was over when its building began.
JamsRunTheirTime ==
    /\ \A z \in Zones \ disputed : promised[z] > clock => \E f \in Jams(z) : f.until >= promised[z]
    /\ \A i \in DOMAIN build.table : Temporary(build.table[i]) => build.table[i].until >= build.cut

\* trafficFactorService.js:139 says of a reported jam that it raises its zone's factor for
\* a while: the legs of a zone with a jam cost at least the jam's factor, those of the
\* other zones what they cost without it.  The code violates it (README, section 5).
JamRaisesItsZone ==
    \A leg \in 0 .. 6 :
       LET jammed == \E f \in ToSet(build.table) : Temporary(f) /\ f.at = ZoneOf(leg)
           usual == SelectSeq(build.table, LAMBDA f : ~Temporary(f))
       IN IF jammed THEN ZoneFactor(build.table, leg) >= JamFactor
                    ELSE ZoneFactor(build.table, leg) = ZoneFactor(usual, leg)
=============================================================================
