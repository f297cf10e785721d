----------------------------- MODULE DailyTotals -----------------------------
(***************************************************************************)
(* The daily totals of the audience (AnalyticsAggregatorService): every    *)
(* midnight a job counts the raw rows of the day before into daily_stat,   *)
(* catches up the days a former job has missed or a former version has not *)
(* measured, and purges the raw rows older than the retention.  The job    *)
(* may not run, and may stop at any of its steps.                          *)
(*                                                                         *)
(* One visitor a day is enough to tell a total that is whole from one that *)
(* is not: a day has no visit or one, early (before the time of day at     *)
(* which the purge runs), later, or in the last millisecond, with or       *)
(* without a conversion event.                                             *)
(***************************************************************************)
EXTENDS Naturals, FiniteSets

CONSTANTS
    Retention,        \* RETENTION_DAYS, 30 in the code
    OldestBackfill,   \* BACKFILL_OLDEST_DAY, 29
    NewestBackfill,   \* BACKFILL_NEWEST_DAY, 2
    Deployment,       \* the day this version replaces the former one
    LastDay,          \* bound on the days explored
    Instants,         \* bound: the times of day of the visits explored
    MaxVisits,        \* bound on the visits
    MaxMissed,        \* bound on the days the former version has no total of
    Null,             \* a column that is not measured
    None              \* no row, no visit

VARIABLES
    today,       \* the current UTC day
    visit,       \* the visit of each day, ever: [at, converts], or None
    viewKept,    \* the days whose page_view row is still there
    eventKept,   \* the days whose analytics_event row is still there
    stat,        \* the daily_stat row of each day, or None
    job,         \* the step of the job of today, or "off"
    cursor,      \* the next day the catch-up looks at
    late,        \* the days whose visit was committed after midnight
    caughtUp     \* the days with a visit that were within the reach of a catch-up
                 \* that was completed

vars == <<today, visit, viewKept, eventKept, stat, job, cursor, late, caughtUp>>

Days == 0..LastDay
Visit == [at : Instants, converts : BOOLEAN]
Total == [sessions : 0..1, measured : BOOLEAN, conversions : {0, 1, Null}]
FormerTotal == [sessions : 0..1, measured : {FALSE}, conversions : {Null}]

ASSUME TotalsAssumption ==
    /\ Retention \in Nat /\ OldestBackfill \in Nat /\ NewestBackfill \in Nat
    /\ 1 <= NewestBackfill /\ NewestBackfill <= OldestBackfill /\ OldestBackfill < Retention
    /\ Deployment \in Nat /\ LastDay \in Nat /\ Deployment <= LastDay
    /\ MaxVisits \in Nat /\ MaxMissed \in Nat
    /\ Instants \subseteq {"early", "later", "last"}
    /\ Null \notin Nat
    /\ None \notin Nat /\ None \notin BOOLEAN /\ None \notin Visit \cup Total

\* The visits of a day.
Truth(d) == IF visit[d] = None THEN 0 ELSE 1

\* created_at < 23:59:59.999.
BeforeEnd(d) == visit[d].at # "last"

\* What a purge that runs on a day removes.
Old(now, d) == d + Retention < now \/ (d + Retention = now /\ visit[d].at = "early")

\* The former version has counted its days, short perhaps, or missed them,
\* without the engagement and without conversion events; it has purged too.
Init ==
    /\ today = Deployment
    /\ \E former \in [0..(Deployment - 1) -> {None} \cup {v \in Visit : ~v.converts}] :
          /\ Cardinality({d \in DOMAIN former : former[d] # None}) <= MaxVisits
          /\ visit = [d \in Days |-> IF d < Deployment THEN former[d] ELSE None]
    /\ viewKept = {d \in Days : visit[d] # None /\ ~Old(Deployment, d)}
    /\ eventKept = {}
    /\ \E former \in [0..(Deployment - 1) -> {None} \cup FormerTotal] :
          /\ \A d \in DOMAIN former : former[d] # None => former[d].sessions <= Truth(d)
          /\ Cardinality({d \in DOMAIN former : former[d] = None}) <= MaxMissed
          /\ stat = [d \in Days |-> IF d < Deployment THEN former[d] ELSE None]
    /\ job = "off"
    /\ cursor = 0
    /\ late = {}
    /\ caughtUp = {}

-----------------------------------------------------------------------------
\* track: the rows of a visit, dated by the start of their insertion.  Midnight
\* may fall before its end, which the job of the new day outlasts.
Track(d, v) ==
    /\ \/ d = today
       \/ d = today - 1 /\ d >= Deployment /\ job # "off" /\ v.at = "later"
    /\ visit[d] = None
    /\ Cardinality({e \in Days : visit[e] # None}) < MaxVisits
    /\ visit' = [visit EXCEPT ![d] = v]
    /\ viewKept' = viewKept \cup {d}
    /\ eventKept' = IF v.converts THEN eventKept \cup {d} ELSE eventKept
    /\ late' = IF d = today THEN late ELSE late \cup {d}
    /\ UNCHANGED <<today, stat, job, cursor, caughtUp>>

\* Midnight: the job of the new day starts, unless the server is down.
Midnight(started) ==
    /\ job = "off"
    /\ today < LastDay
    /\ today' = today + 1
    /\ job' = IF started THEN "yesterday" ELSE "off"
    /\ UNCHANGED <<visit, viewKept, eventKept, stat, cursor, late, caughtUp>>

-----------------------------------------------------------------------------
\* Mutant: only the raw rows are looked at.
ConversionsInRawRows(d, events) == \E e \in events : e <= d

\* conversionsMeasured: an event of the new kinds was seen that day or before,
\* in the raw rows or in the total of an earlier day.
ConversionsMeasured(d, events) ==
    \/ \E e \in events : e < d \/ (e = d /\ BeforeEnd(d))
    \/ \E e \in Days : e < d /\ stat[e] # None /\ stat[e].conversions # Null

\* Mutant: a visit with an event counts twice, as a join of the tables would.
CountJoined(d, kept) == Cardinality({d} \cap viewKept) + Cardinality({d} \cap eventKept)

Count(d, kept) == IF d \in kept /\ BeforeEnd(d) THEN 1 ELSE 0

\* What a query of the job sees of some rows: it may have been answered before
\* a visit of yesterday whose insertion ended late.
Belated == late \cap {today - 1}
Seen(kept) == {kept, kept \ Belated}

\* computeAggregates over the raw rows of a day: three queries at the same time.
Aggregates(d) ==
    {[sessions |-> Count(d, views),
      measured |-> TRUE,
      conversions |-> IF ConversionsMeasured(d, past) THEN Count(d, events) ELSE Null] :
        views \in Seen(viewKept), events \in Seen(eventKept), past \in Seen(eventKept)}

Max0(n, m) == IF n < m THEN 0 ELSE n - m

FirstCatchUpTooOld(now) == Max0(now, Retention + 1)         \* mutant
FirstCatchUpTooYoung(now) == Max0(now, OldestBackfill - 1)  \* mutant

\* The oldest day of the window of the catch-up.
FirstCatchUp(now) == Max0(now, OldestBackfill)

\* runAggregation(yesterday): its row is written, whatever was there.
AggregateYesterday ==
    /\ job = "yesterday"
    /\ \E total \in Aggregates(today - 1) : stat' = [stat EXCEPT ![today - 1] = total]
    /\ job' = "catch-up"
    /\ cursor' = FirstCatchUp(today)
    /\ UNCHANGED <<today, visit, viewKept, eventKept, late, caughtUp>>

\* Mutant: the totals of an existing row are recomputed.
BackfilledAnew(d, total) == total

\* backfillDay: an absent row is created; of an existing one only the columns
\* never measured are filled, and only if the raw rows give the same visits.
Backfilled(d, total) ==
    IF stat[d] = None \/ stat[d].sessions = total.sessions THEN total ELSE stat[d]

\* One day of the window that is not measured yet, the oldest first.
CatchUpDay ==
    /\ job = "catch-up"
    /\ cursor + NewestBackfill <= today
    /\ \E total \in Aggregates(cursor) :
          stat' = IF stat[cursor] # None /\ stat[cursor].measured THEN stat
                  ELSE [stat EXCEPT ![cursor] = Backfilled(cursor, total)]
    /\ cursor' = cursor + 1
    /\ UNCHANGED <<today, visit, viewKept, eventKept, job, late, caughtUp>>

CatchUpEnds ==
    /\ job = "catch-up"
    /\ cursor + NewestBackfill > today
    /\ job' = "purge views"
    /\ cursor' = 0
    /\ caughtUp' = caughtUp \cup
         {d \in Days : visit[d] # None /\ d < today /\ today <= d + OldestBackfill}
    /\ UNCHANGED <<today, visit, viewKept, eventKept, stat, late>>

PurgeViews ==
    /\ job = "purge views"
    /\ viewKept' = {d \in viewKept : ~Old(today, d)}
    /\ job' = "purge events"
    /\ UNCHANGED <<today, visit, eventKept, stat, cursor, late, caughtUp>>

PurgeEvents ==
    /\ job = "purge events"
    /\ eventKept' = {d \in eventKept : ~Old(today, d)}
    /\ job' = "off"
    /\ UNCHANGED <<today, visit, viewKept, stat, cursor, late, caughtUp>>

\* The job stops: a query fails, or the server is restarted.  Nothing runs it
\* again before the next midnight.
JobStops ==
    /\ job # "off"
    /\ job' = "off"
    /\ cursor' = 0
    /\ UNCHANGED <<today, visit, viewKept, eventKept, stat, late, caughtUp>>

Next ==
    \/ \E d \in Days, v \in Visit : Track(d, v)
    \/ \E started \in BOOLEAN : Midnight(started)
    \/ AggregateYesterday
    \/ CatchUpDay \/ CatchUpEnds
    \/ PurgeViews \/ PurgeEvents
    \/ JobStops

Spec == Init /\ [][Next]_vars

-----------------------------------------------------------------------------
TypeOK ==
    /\ today \in Days
    /\ visit \in [Days -> Visit \cup {None}]
    /\ viewKept \subseteq {d \in Days : visit[d] # None}
    /\ eventKept \subseteq {d \in Days : visit[d] # None /\ visit[d].converts}
    /\ stat \in [Days -> Total \cup {None}]
    /\ job \in {"off", "yesterday", "catch-up", "purge views", "purge events"}
    /\ cursor \in Days
    /\ late \subseteq Days
    /\ caughtUp \subseteq Days

\* The visits no total of this version counts: those of the last millisecond,
\* and those whose insertion had begun before midnight and ended after it.
Uncounted(d) == visit[d] # None /\ (d \in late \/ ~BeforeEnd(d))

\* A total this version has measured counts the whole day: the catch-up never
\* reads a day a purge has begun to empty, the former version's included.
\* Only the visits around midnight escape it.
TotalsAreWhole ==
    \A d \in Days : stat[d] # None /\ stat[d].measured =>
        stat[d].sessions = Truth(d) \/ (Uncounted(d) /\ stat[d].sessions = 0)

\* A total that is stored never changes again, the former version's included:
\* raw rows that are incomplete by now do not rewrite history.
TotalsAreKept ==
    [][\A d \in Days : stat[d] # None =>
          stat'[d] # None /\ stat'[d].sessions = stat[d].sessions]_vars

\* No job has caught up in the days that left one a chance to count day d.
Outage(d) == d \notin caughtUp

\* A visit of this version's days is purged once it is counted, or after as many days without a
\* complete job as the catch-up reaches back.
PurgedOnceCounted ==
    \A d \in Deployment..LastDay :
        visit[d] # None /\ d \notin viewKept => stat[d] # None \/ Outage(d)

\* Conversions are null exactly until the first event, whatever the order in
\* which the days were aggregated and whatever was purged since.
NullUntilFirstEvent ==
    \A d \in Days : stat[d] # None /\ stat[d].measured =>
        LET first == {e \in 0..d : visit[e] # None /\ visit[e].converts} IN
        /\ stat[d].conversions # Null => first # {}
        /\ stat[d].conversions = Null => \A e \in first : e = d /\ Uncounted(e)
=============================================================================
