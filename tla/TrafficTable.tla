----------------------------- MODULE TrafficTable -----------------------------
(***************************************************************************)
(* The table of traffic factors a plan is timed with, and the lookups in   *)
(* it: buildFactorTable of trafficFactorService.js, lookupTrafficFactor of *)
(* the planner and TrafficModel of the optimizer service.                  *)
(*                                                                         *)
(* Factors are per mille, distances in units of 5 km.  Days of the week    *)
(* have one factor, the one of the day that is planned.                    *)
(***************************************************************************)
EXTENDS Integers, Sequences, SequencesExt

Zones == 1 .. 3
\* Urban below 8 km, suburban below 25 km, highway.
ZoneOf(leg) == IF leg < 2 THEN 1 ELSE IF leg < 5 THEN 2 ELSE 3
Hours == 1 .. 2

\* until is 0 for what is not temporary.
Factor(id, scope, at, from, to, factor, until) ==
    [id |-> id, scope |-> scope, at |-> at, from |-> from, to |-> to, factor |-> factor, until |-> until]
Temporary(f) == f.until > 0

Scoped(table, scope) == SelectSeq(table, LAMBDA f : f.scope = scope)
\* Sorted by where they begin; the sort is stable.
ByStart(fs) == FlattenSeq([i \in 1 .. 24 |-> SelectSeq(fs, LAMBDA f : f.from = i - 1)])
FirstOr1000(fs) == IF fs = <<>> THEN 1000 ELSE Head(fs).factor

HourFactor(table, h) ==
    FirstOr1000(SelectSeq(ByStart(Scoped(table, "HOUR")), LAMBDA f : f.from <= h /\ h < f.to))
DowFactor(table) == LET days == Scoped(table, "DOW") IN IF days = <<>> THEN 1000 ELSE Last(days).factor
ZoneFactor(table, leg) ==
    FirstOr1000(SelectSeq(ByStart(Scoped(table, "ZONE")), LAMBDA f : f.from <= leg /\ leg < f.to))
TotalFactor(table, h, leg) ==
    (((HourFactor(table, h) * DowFactor(table)) \div 1000) * ZoneFactor(table, leg)) \div 1000
=============================================================================
