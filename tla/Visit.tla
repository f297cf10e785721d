-------------------------------- MODULE Visit --------------------------------
(***************************************************************************)
(* The visits of the audience as the tracker writes them                   *)
(* (AnalyticsTrackerService) and as they are counted: by computeAggregates *)
(* for the daily totals and the overview, by chart for the current day, by *)
(* referrersByVisit for the list of the sources.                           *)
(* A visit is the fingerprint of a device on one UTC day.  A page view is  *)
(* looked up and inserted in two statements; the day may end in between.   *)
(***************************************************************************)
EXTENDS Naturals, FiniteSets, FiniteSetsExt

CONSTANTS
    Beacons,       \* the requests that may run at the same time
    Devices,       \* what the fingerprint is made of, besides the day
    Pages,         \* the paths of the site
    Hosts,         \* the hosts of referrers, without www., the site's own too
    Site,          \* the host of the site
    Rows,          \* bound: page_view rows, numbered in the order of created_at
    Days,          \* the days explored, in order: 0..n
    Limit,         \* how many sources the caller asks for
    Threshold,     \* ENGAGED_DURATION_SECONDS
    MaxDuration,   \* bound: a duration that is longer counts as this one
    Nothing        \* no row; a duration that is not known

VARIABLES
    day,           \* the current UTC day
    views,         \* the page_view row of each id, or Nothing
    events,        \* engagement events: [visit, day]
    step,          \* where each request is
    event,         \* what it was sent
    found,         \* the row it has found, or Nothing
    doubled        \* days on which a page view was inserted beside its like

vars == <<day, views, events, step, event, found, doubled>>

Url == [page : Pages, anchor : BOOLEAN]
Fingerprint == [device : Devices, day : Days]

\* No visible time is as good as a time that is not known.
Duration == (1..MaxDuration) \cup {Nothing}
Source == Hosts \cup {Nothing}
View == [visit : Fingerprint, url : Url, day : Days, source : Source, duration : Duration]
Event == [kind : {"view", "duration"}, visit : Fingerprint, url : Url]
            \cup [kind : {"engagement"}, visit : Fingerprint]
NoEvent == Nothing

VisitAssumption ==
    /\ Rows \subseteq Nat /\ IsFiniteSet(Rows)
    /\ Days \subseteq Nat /\ 0 \in Days
    /\ MaxDuration \in Nat \ {0} /\ Threshold \in Nat
    /\ Limit \in Nat \ {0}
    /\ Nothing \notin Nat \cup Rows \cup View \cup Event

Init ==
    /\ day = 0
    /\ views = [r \in Rows |-> Nothing]
    /\ events = {}
    /\ step = [b \in Beacons |-> "idle"]
    /\ event = [b \in Beacons |-> NoEvent]
    /\ found = [b \in Beacons |-> Nothing]
    /\ doubled = {}

Goto(b, phase) == step' = [step EXCEPT ![b] = phase]

Answer(b) ==
    /\ Goto(b, "idle")
    /\ event' = [event EXCEPT ![b] = NoEvent]
    /\ found' = [found EXCEPT ![b] = Nothing]

\* withoutFragment.
WithoutFragment(url) == [url EXCEPT !.anchor = FALSE]

Views == {r \in Rows : views[r] # Nothing}

\* normalizeReferrer: a navigation inside the site has no source.
NormalizeReferrer(referrer) == IF referrer = Site THEN Nothing ELSE referrer

\* The rows of the page in the visit, since the start of its day.
SameView(b) ==
    {r \in Views : /\ views[r].visit = event[b].visit
                   /\ views[r].url = event[b].url
                   /\ views[r].day >= event[b].visit.day}

-----------------------------------------------------------------------------
\* track: neither a robot nor a private address nor an administration page;
\* the fingerprint is that of the day.
Track(b, kind, device, url) ==
    /\ step[b] = "idle"
    /\ event' = [event EXCEPT ![b] = [kind |-> kind, url |-> WithoutFragment(url),
                                      visit |-> [device |-> device, day |-> day]]]
    /\ Goto(b, "select")
    /\ UNCHANGED <<day, views, events, found, doubled>>

\* track, of a custom event: its row does not hold its page.
TrackEvent(b, device) ==
    /\ step[b] = "idle"
    /\ event' = [event EXCEPT ![b] = [kind |-> "engagement",
                                      visit |-> [device |-> device, day |-> day]]]
    /\ Goto(b, "insert event")
    /\ UNCHANGED <<day, views, events, found, doubled>>

\* A duration is added to the row of its page, to one of them if there are
\* two; a view is inserted if it has no row; otherwise nothing is written.
FindView(b) ==
    /\ step[b] = "select"
    /\ \/ /\ event[b].kind = "duration"
          /\ \E r \in SameView(b) : found' = [found EXCEPT ![b] = r]
          /\ Goto(b, "add")
          /\ UNCHANGED event
       \/ /\ event[b].kind = "view" /\ SameView(b) = {}
          /\ Goto(b, "insert")
          /\ UNCHANGED <<event, found>>
       \/ /\ IF event[b].kind = "view" THEN SameView(b) # {} ELSE SameView(b) = {}
          /\ Answer(b)
    /\ UNCHANGED <<day, views, events, doubled>>

InsertView(b) ==
    /\ step[b] = "insert"
    /\ Rows # Views
    /\ \E referrer \in Source, duration \in Duration :
          views' = [views EXCEPT ![Min(Rows \ Views)] =
                      [visit |-> event[b].visit, url |-> event[b].url, day |-> day,
                       source |-> NormalizeReferrer(referrer), duration |-> duration]]
    /\ doubled' = doubled \cup {views[r].day : r \in SameView(b)}
    /\ Answer(b)
    /\ UNCHANGED <<day, events>>

Known(duration) == IF duration = Nothing THEN 0 ELSE duration

\* Mutant: the duration of the last beacon.
Replaced(duration, seconds) == seconds

\* COALESCE(duration, 0) + seconds, computed by the database.
Added(duration, seconds) == Min({MaxDuration, Known(duration) + seconds})

AddDuration(b) ==
    /\ step[b] = "add"
    /\ \E seconds \in 1..MaxDuration :
          views' = [views EXCEPT ![found[b]].duration = Added(@, seconds)]
    /\ Answer(b)
    /\ UNCHANGED <<day, events, doubled>>

\* insertCustomEvent, of an engagement type.
InsertEvent(b) ==
    /\ step[b] = "insert event"
    /\ events' = events \cup {[visit |-> event[b].visit, day |-> day]}
    /\ Answer(b)
    /\ UNCHANGED <<day, views, doubled>>

\* An error is logged and swallowed; or the process stops.
TrackFails(b) ==
    /\ step[b] # "idle"
    /\ Answer(b)
    /\ UNCHANGED <<day, views, events, doubled>>

Midnight ==
    /\ day + 1 \in Days
    /\ day' = day + 1
    /\ UNCHANGED <<views, events, step, event, found, doubled>>

Next ==
    \/ \E b \in Beacons, device \in Devices :
          \/ \E kind \in {"view", "duration"}, url \in Url : Track(b, kind, device, url)
          \/ TrackEvent(b, device)
    \/ \E b \in Beacons :
          \/ FindView(b) \/ InsertView(b) \/ AddDuration(b)
          \/ InsertEvent(b) \/ TrackFails(b)
    \/ Midnight

Spec == Init /\ [][Next]_vars

-----------------------------------------------------------------------------
\* loadSessionFacts: the rows created on a day, grouped by fingerprint.
VisitsOn(d) == {views[r].visit : r \in {v \in Views : views[v].day = d}}
RowsOn(d, visit) == {r \in Views : views[r].day = d /\ views[r].visit = visit}
PagesOn(d, visit) == {views[r].url.page : r \in RowsOn(d, visit)}
DurationOn(d, visit) == MapThenSumSet(LAMBDA r : Known(views[r].duration), RowsOn(d, visit))
EngagedOn(d, visit) == [visit |-> visit, day |-> d] \in events

\* summarizeSessions: one page, no engagement, less visible time than the
\* threshold, an unknown time being none.
RealBounce(d, visit) ==
    /\ Cardinality(PagesOn(d, visit)) = 1
    /\ ~EngagedOn(d, visit)
    /\ DurationOn(d, visit) < Threshold

\* The page views of a day in the overview, and in the chart of that day.
OverviewPageviews(d) ==
    Cardinality(UNION {{visit} \X PagesOn(d, visit) : visit \in VisitsOn(d)})
ChartPageviews(d) == Cardinality({r \in Views : views[r].day = d})

\* referrersByVisit: one row a visit over the range...
VisitsBetween(from, to) == UNION {VisitsOn(d) : d \in from..to}
RowsBetween(from, to, visit) == UNION {RowsOn(d, visit) : d \in from..to}

\* Mutant: the source of every page.
SourcesOf(from, to, visit) == {views[r].source : r \in RowsBetween(from, to, visit)}

\* ...under its first external source, or none.
SourceOf(from, to, visit) ==
    LET external == {r \in RowsBetween(from, to, visit) : views[r].source # Nothing}
    IN  {IF external = {} THEN Nothing ELSE views[Min(external)].source}

Sources(from, to) ==
    UNION {{visit} \X SourceOf(from, to, visit) : visit \in VisitsBetween(from, to)}

\* GROUP BY name ORDER BY count DESC LIMIT: the first names, and what they
\* count together.
Names(from, to) == UNION {SourceOf(from, to, visit) : visit \in VisitsBetween(from, to)}
Listed(from, to, list) == {counted \in Sources(from, to) : counted[2] \in list}
Lists(from, to) ==
    LET names == Names(from, to)
        visits(name) == Cardinality(Listed(from, to, {name}))
    IN  {list \in SUBSET names :
            /\ Cardinality(list) = IF Cardinality(names) <= Limit THEN Cardinality(names) ELSE Limit
            /\ \A name \in list, other \in names \ list : visits(name) >= visits(other)}

\* The sessions of a range in the overview, day by day.
Sessions(from, to) == UNION {{d} \X VisitsOn(d) : d \in from..to}

-----------------------------------------------------------------------------
TypeOK ==
    /\ day \in Days
    /\ views \in [Rows -> View \cup {Nothing}]
    /\ events \subseteq [visit : Fingerprint, day : Days]
    /\ step \in [Beacons -> {"idle", "select", "insert", "add", "insert event"}]
    /\ event \in [Beacons -> Event \cup {NoEvent}]
    /\ found \in [Beacons -> Rows \cup {Nothing}]
    /\ doubled \subseteq Days

\* Real bounces only ever decrease: a visit that was engaged stays engaged,
\* although its durations arrive in several simultaneous beacons, its page may
\* have two rows, and midnight may fall between a look-up and its write.
EngagementKept ==
    [][\A d \in Days : \A visit \in VisitsOn(d) :
          ~RealBounce(d, visit) => visit \in VisitsOn(d)' /\ ~RealBounce(d, visit)']_vars

\* The chart counts the rows of the day, the overview the pages of its visits:
\* they agree, unless two simultaneous views of one page were both inserted.
ChartAgrees == \A d \in Days \ doubled : ChartPageviews(d) = OverviewPageviews(d)

\* The sources of a range count its visits, as the overview does day by day: a
\* visit counts once although several pages of it name a source, and together
\* the listed sources count every visit exactly when the limit cuts none off.
\* The exception is a midnight between the look-ups of a visit and its writes,
\* which leaves rows of it on two days.
SourcesAgree ==
    \A to \in Days : \A from \in 0..to :
        (\A d, e \in from..to : d < e => VisitsOn(d) \cap VisitsOn(e) = {}) =>
            \A list \in Lists(from, to) :
                LET listed == Cardinality(Listed(from, to, list))
                    sessions == Cardinality(Sessions(from, to))
                IN  /\ listed <= sessions
                    /\ listed = sessions <=> Cardinality(Names(from, to)) <= Limit

CountsAgree == ChartAgrees /\ SourcesAgree
=============================================================================
