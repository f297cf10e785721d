----------------------------- MODULE Statistics -----------------------------
(***************************************************************************)
(* The overview and the chart of the audience (AnalyticsStatsService) over *)
(* the totals of DailyTotals: complete days from daily_stat, the current   *)
(* day from the raw rows, in several queries between which visits arrive,  *)
(* midnight passes and the job of the new day runs.                        *)
(*                                                                         *)
(* The detail lists (visits by page, events by entity, downloads of the CV) *)
(* are each read from the raw rows by one query: they are operators of the *)
(* state.                                                                  *)
(*                                                                         *)
(* What a request reads does not depend on its range, which only filters   *)
(* it: the answers are operators of the range and of what was read.        *)
(***************************************************************************)
EXTENDS DailyTotals, Sequences, FiniteSetsExt

CONSTANTS
    RawRetention,   \* RAW_RETENTION_DAYS, 30 in the code: the days the lists promise
    TimelineDays,   \* 30 in the code: the days of the list of the downloads
    AskedOn         \* bound: the days on which requests are made

VARIABLES
    asked,     \* the request in progress: [asks, now], or None
    stored,    \* the daily_stat rows it has read, or None
    live,      \* what it has counted of the current day, by query, and the day
               \* a chart has counted
    certain    \* history: the days with a visit to be counted, when it was asked

request == <<asked, stored, live, certain>>
statVars == <<vars, request>>

Queries == {"visits", "events", "measured"}
Request == [asks : {"overview", "chart"}, now : Days]

ASSUME RequestAssumption ==
    /\ None \notin Request
    /\ RawRetention \in Nat /\ TimelineDays \in Nat
    /\ RawRetention <= Retention /\ RawRetention <= TimelineDays

NothingRead == [visits |-> None, events |-> None, measured |-> None, of |-> None]

StatInit ==
    /\ Init
    /\ asked = None
    /\ stored = None
    /\ live = NothingRead
    /\ certain = {}

-----------------------------------------------------------------------------
\* overview, chart: the current day is taken once, before the first query.
Ask(asks) ==
    /\ asked = None /\ today \in AskedOn
    /\ asked' = [asks |-> asks, now |-> today]
    /\ certain' = {d \in 0..(today - 1) : stat[d] # None /\ stat[d].sessions = 1}
                    \cup {d \in viewKept : d = today /\ BeforeEnd(d)}
    /\ UNCHANGED <<vars, stored, live>>

ReadStored ==
    /\ asked # None /\ stored = None
    /\ stored' = stat
    /\ UNCHANGED <<vars, asked, live, certain>>

\* The day whose raw rows the overview counts: the one it has begun with.
OverviewDay == asked.now

\* computeAggregates: three queries at the same time.
CountLive(q) ==
    /\ asked # None /\ asked.asks = "overview" /\ stored # None
    /\ live[q] = None
    /\ LET d == OverviewDay
           result == [visits |-> Count(d, viewKept),
                      events |-> Count(d, eventKept),
                      measured |-> ConversionsMeasured(d, eventKept)]
       IN  live' = [live EXCEPT ![q] = result[q]]
    /\ UNCHANGED <<vars, asked, stored, certain>>

\* The chart reads the clock again, after its first query: the day it counts
\* may be the one after the day it began with.
CountToday ==
    /\ asked # None /\ asked.asks = "chart" /\ stored # None
    /\ live.visits = None
    /\ live' = [live EXCEPT !.visits = Count(today, viewKept), !.of = today]
    /\ UNCHANGED <<vars, asked, stored, certain>>

Answered ==
    /\ asked # None /\ stored # None /\ live.visits # None
    /\ asked.asks = "overview" => \A q \in Queries : live[q] # None

\* The answer is sent, or a query fails.
Leave ==
    /\ asked # None
    /\ asked' = None
    /\ stored' = None
    /\ live' = NothingRead
    /\ certain' = {}
    /\ UNCHANGED vars

\* A request lasts less than a day.
TotalsStep ==
    /\ Next
    /\ asked # None => today' <= asked.now + 1
    /\ UNCHANGED request

StatNext ==
    \/ TotalsStep
    \/ \E asks \in {"overview", "chart"} : Ask(asks)
    \/ ReadStored
    \/ \E q \in Queries : CountLive(q)
    \/ CountToday
    \/ Leave

StatSpec == StatInit /\ [][StatNext]_statVars

-----------------------------------------------------------------------------
\* Mutant: every row of the range.
LastStoredDayAsAsked(to) == to

\* The last complete day of a range, when the request was made.
LastStoredDay(to) == IF to < asked.now THEN to ELSE asked.now - 1

\* The day of a set that has n - 1 before it.
Nth(dates, n) == CHOOSE d \in dates : Cardinality({e \in dates : e < d}) = n - 1

StoredTotal(d) ==
    [date |-> d, sessions |-> stored[d].sessions, measured |-> stored[d].measured,
     conversions |-> stored[d].conversions]

StoredDates(from, last) == {d \in Days : from <= d /\ d <= last /\ stored[d] # None}

\* The rows of a range, the oldest first.
RowsOf(from, last) ==
    LET dates == StoredDates(from, last)
    IN  [i \in 1..Cardinality(dates) |-> StoredTotal(Nth(dates, i))]

LiveTotal ==
    [date |-> asked.now, sessions |-> live.visits, measured |-> TRUE,
     conversions |-> IF live.measured THEN live.events ELSE Null]

OverviewDays(from, to) ==
    RowsOf(from, LastStoredDay(to))
        \o IF from <= asked.now /\ asked.now <= to THEN <<LiveTotal>> ELSE <<>>

\* sum, of the numbers picked from some of the rows: a null adds nothing.
Total0(n) == IF n = Null THEN 0 ELSE n
SumOf(numbers, at) == MapThenSumSet(LAMBDA i : Total0(numbers[i]), at)

\* The date of the first of the rows kept by a filter.
FirstDate(days, at) == IF at = {} THEN None ELSE days[Min(at)].date

\* Mutant: a day the purge has emptied.
OldestRawDayTooOld == Max0(asked.now, RawRetention + 1)

\* The oldest day whose raw rows the overview says it has: RAW_RETENTION_DAYS
\* is not the RETENTION_DAYS of the purge, but a constant of this file.
OldestRawDay == Max0(asked.now, RawRetention)

\* summarizeOverview: the rows are sums over all the days, or over those that
\* a filter keeps, by their position.
Overview(from, to) ==
    LET days == OverviewDays(from, to)
        sessions == [i \in DOMAIN days |-> days[i].sessions]
        conversions == [i \in DOMAIN days |-> days[i].conversions]
        engaged == {i \in DOMAIN days : days[i].measured}
        converted == {i \in DOMAIN days : days[i].conversions # Null}
    IN  [sessions |-> SumOf(sessions, DOMAIN days),
         measuredSessions |-> SumOf(sessions, engaged),
         measuredSince |-> FirstDate(days, engaged),
         conversions |-> SumOf(conversions, converted),
         convertedSince |-> FirstDate(days, converted),
         detailSince |-> IF from > OldestRawDay THEN from ELSE OldestRawDay]

\* Mutant: <= instead of <.
LastChartDayIncluded(to) == IF to = asked.now THEN asked.now ELSE to

\* The last row of the chart: before the current day if the range ends with it.
LastChartDay(to) == IF to = asked.now THEN asked.now - 1 ELSE to

Chart(from, to) ==
    RowsOf(from, LastChartDay(to))
        \o IF to = asked.now THEN <<[date |-> asked.now, sessions |-> live.visits]>> ELSE <<>>

-----------------------------------------------------------------------------
\* The days of a range, none when its dates are in the wrong order; only the
\* last one lacks its last millisecond.
InRange(d, from, to) == from <= d /\ d <= to /\ (d = to => BeforeEnd(d))

\* metrics: the visits of a column that is not null.
VisitsListed(from, to) == {d \in viewKept : InRange(d, from, to)}

\* entityCounts, events.
EventsListed(from, to) == {d \in eventKept : InRange(d, from, to)}

\* cvDownloads: the last 30 days, whatever the range.
Timeline == EventsListed(Max0(today, TimelineDays), today)

-----------------------------------------------------------------------------
\* The types of the totals and of the request.
TypesOK ==
    /\ TypeOK
    /\ asked \in Request \cup {None}
    /\ stored = None \/ stored \in [Days -> Total \cup {None}]
    /\ live \in [visits : {0, 1, None}, events : {0, 1, None},
                 measured : BOOLEAN \cup {None}, of : Days \cup {None}]
    /\ certain \subseteq Days

Visited(from, to) == {d \in from..to : visit[d] # None}
Converted(from, to) == {d \in Visited(from, to) : visit[d].converts}
Between(n, days, others) == Cardinality(days) <= n /\ n <= Cardinality(others)

\* Every visit of the range is counted once.
CountedOnce(from, to, overview) ==
    Between(overview.sessions, certain \cap (from..to), Visited(from, to))

\* From convertedSince on no day of the answer lacks its conversions, and
\* their sum is that of its days, but for the events of a visit that is late:
\* the job may have counted it without them.
NoGapSince(from, to, overview) ==
    LET days == OverviewDays(from, to)
        since == overview.convertedSince
    IN  IF since = None THEN overview.conversions = 0
        ELSE /\ \A i \in DOMAIN days : days[i].date >= since => days[i].conversions # Null
             /\ Between(overview.conversions, (certain \ late) \cap Converted(since, to),
                        Converted(from, to))

\* From measuredSince on every day of this version counts in the rates.
RatesAreWhole(to, overview) ==
    LET since == overview.measuredSince
    IN  since # None /\ since >= Deployment =>
            overview.measuredSessions >= Cardinality(certain \cap (since..to))

\* From detailSince on, and until midnight, the lists hold what there was, but
\* for the first instants of the oldest raw day and the last of the range.
DetailKept(to, overview) ==
    LET since == overview.detailSince
    IN  today = asked.now =>
            \A d \in Visited(since, to) :
                visit[d].at = "later" =>
                    /\ d \in VisitsListed(since, to)
                    /\ visit[d].converts => d \in EventsListed(since, to) \cap Timeline

\* An overview tells the truth of its range, although midnight and the job may
\* fall between its queries and days were purged, missed or measured late.
OverviewIsTrue ==
    Answered /\ asked.asks = "overview" =>
        \A from, to \in Days :
            \A overview \in {Overview(from, to)} :
                /\ CountedOnce(from, to, overview) /\ NoGapSince(from, to, overview)
                /\ RatesAreWhole(to, overview) /\ DetailKept(to, overview)

\* A chart has one point a day, and it is that of the day, unless midnight fell
\* between its queries: the last point is then that of the day after.
ChartIsTrue ==
    Answered /\ asked.asks = "chart" =>
        \A from, to \in Days :
            LET points == Chart(from, to) IN
            /\ \A i, j \in DOMAIN points : points[i].date = points[j].date => i = j
            /\ \A i \in DOMAIN points :
                  live.of = asked.now \/ points[i].date # asked.now =>
                      Between(points[i].sessions, certain \cap {points[i].date},
                              Visited(points[i].date, points[i].date))
=============================================================================
