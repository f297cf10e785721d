-------------------------- MODULE DailyTotalsProofs --------------------------
(***************************************************************************)
(* Theorems of DailyTotals, for any retention, any window of the catch-up  *)
(* and any number of days and visits, and of the requests of Statistics    *)
(* that read the totals while the job writes them.                         *)
(*                                                                         *)
(* The job of a day writes the totals of days that no purge has reached,   *)
(* because its window is shorter than the retention; and it purges only    *)
(* after a catch-up, whose totals remember what the purge removes.  An     *)
(* answer is true because what it has read is kept: totals only grow, and  *)
(* the raw rows of its day outlive it.                                     *)
(***************************************************************************)
EXTENDS Statistics, FiniteSetTheorems, NaturalsInduction, TLAPS

\* The job runs on a day after the deployment.
JobFollowsDeployment ==
    /\ today >= Deployment
    /\ job # "off" => today > Deployment

\* The days whose total is not due yet have none.
NotWrittenYet ==
    \A d \in Days : d >= today \/ (job = "yesterday" /\ d = today - 1) => stat[d] = None

\* What tells the totals and the events of the former version from this one's.
FormerIsKnown ==
    /\ \A d \in Days : stat[d] # None /\ ~stat[d].measured =>
          d < Deployment /\ stat[d].conversions = Null
    /\ \A d \in Days : visit[d] # None /\ visit[d].converts => d >= Deployment

\* Raw rows that are gone are as old as the retention.
PurgedIsOld ==
    \A d \in Days : visit[d] # None /\ d \notin viewKept => d + Retention <= today

\* The days the job of today has to write, and those it has written.
Writing == job \in {"yesterday", "catch-up"}
InWindow(d) == d + OldestBackfill >= today

CatchesUp ==
    /\ job = "catch-up" =>
          /\ InWindow(cursor)
          /\ stat[today - 1] # None
          /\ \A d \in Days : InWindow(d) /\ d < cursor => stat[d] # None
    /\ job \in {"purge views", "purge events"} =>
          \A d \in Days : InWindow(d) /\ d + NewestBackfill <= today => stat[d] # None

\* A day that was caught up has a total.
CaughtUpIsCounted == \A d \in caughtUp : stat[d] # None

\* An event that was purged has left its mark in a total older than any day
\* that is still to be written.
PurgedIsRemembered ==
    \A e \in Days : visit[e] # None /\ visit[e].converts /\ e \notin eventKept =>
        \E w \in Days :
           /\ e < w /\ stat[w] # None /\ stat[w].conversions # Null
           /\ w + OldestBackfill <= today
           /\ Writing => w + OldestBackfill < today

TotalsInv ==
    /\ TypeOK
    /\ JobFollowsDeployment /\ NotWrittenYet /\ FormerIsKnown /\ PurgedIsOld
    /\ CatchesUp /\ PurgedIsRemembered
    /\ TotalsAreWhole /\ NullUntilFirstEvent

-----------------------------------------------------------------------------
\* The days are numbers.
LEMMA DaysAreNumbers ==
  /\ Retention \in Nat /\ OldestBackfill \in Nat /\ NewestBackfill \in Nat
  /\ 1 <= NewestBackfill /\ NewestBackfill <= OldestBackfill /\ OldestBackfill < Retention
  /\ Deployment \in Days
  /\ \A d \in Days : d \in Nat /\ 0..d \subseteq Days
  /\ \A d \in Days, n \in Nat : n <= d => n \in Days
  BY TotalsAssumption DEF TotalsAssumption, Days

\* The totals a job computes are totals.
LEMMA AggregatesTyped ==
  ASSUME NEW d \in Days, NEW total \in Aggregates(d)
  PROVE  /\ total \in Total
         /\ total # None
         /\ total.measured
         /\ \/ total.sessions = Count(d, viewKept)
            \/ total.sessions = Count(d, viewKept \ Belated)
         /\ total.conversions # Null =>
               /\ \/ total.conversions = Count(d, eventKept)
                  \/ total.conversions = Count(d, eventKept \ Belated)
               /\ ConversionsMeasured(d, eventKept)
         /\ total.conversions = Null => ~ConversionsMeasured(d, eventKept \ Belated)
<1>1. PICK views \in Seen(viewKept), events \in Seen(eventKept), past \in Seen(eventKept) :
         total = [sessions |-> Count(d, views),
                  measured |-> TRUE,
                  conversions |-> IF ConversionsMeasured(d, past) THEN Count(d, events) ELSE Null]
  BY DEF Aggregates
<1> DEFINE s == Count(d, views)
           c == IF ConversionsMeasured(d, past) THEN Count(d, events) ELSE Null
<1>2. s \in 0..1 /\ Count(d, events) \in 0..1
  BY DEF Count
<1>3. /\ c \in {0, 1, Null}
      /\ c = Null <=> ~ConversionsMeasured(d, past)
      /\ c # Null => c = Count(d, events)
  BY <1>2, TotalsAssumption DEF TotalsAssumption
<1>4. /\ views = viewKept \/ views = viewKept \ Belated
      /\ events = eventKept \/ events = eventKept \ Belated
      /\ past = eventKept \/ past = eventKept \ Belated
  BY DEF Seen
<1>5. /\ ConversionsMeasured(d, past) => ConversionsMeasured(d, eventKept)
      /\ ~ConversionsMeasured(d, past) => ~ConversionsMeasured(d, eventKept \ Belated)
  <2>1. \A few, many : few \subseteq many /\ ConversionsMeasured(d, few) => ConversionsMeasured(d, many)
    BY DEF ConversionsMeasured
  <2>2. /\ past \subseteq eventKept /\ eventKept \ Belated \subseteq past
    BY <1>4
  <2> QED BY <2>1, <2>2
<1>6. total.sessions = s /\ total.measured /\ total.conversions = c
  BY <1>1
<1>7. s = Count(d, viewKept) \/ s = Count(d, viewKept \ Belated)
  BY <1>4
<1>8. c # Null => c = Count(d, eventKept) \/ c = Count(d, eventKept \ Belated)
  BY <1>3, <1>4
<1>e. total = [sessions |-> s, measured |-> TRUE, conversions |-> c]
  BY <1>1
<1> HIDE DEF s, c
<1>9. total \in Total
  BY <1>2, <1>3, <1>e DEF Total, s
<1>10. total # None
  BY <1>9, TotalsAssumption DEF TotalsAssumption
<1> QED BY <1>3, <1>5, <1>6, <1>7, <1>8, <1>9, <1>10

\* A total the catch-up writes: the one it computes, beside the sessions that
\* were there; or the one that was there, if it counts other visits.
LEMMA BackfilledTyped ==
  ASSUME TypeOK, NEW d \in Days, NEW total \in Aggregates(d)
  PROVE  /\ Backfilled(d, total) \in Total
         /\ stat[d] # None => Backfilled(d, total).sessions = stat[d].sessions
         /\ Backfilled(d, total) = total
            \/ (stat[d] # None /\ Backfilled(d, total) = stat[d])
  BY AggregatesTyped DEF Backfilled, TypeOK

\* The totals of the former version, and the rows it has left.
LEMMA TotalsInit == Init => TotalsInv /\ CaughtUpIsCounted
<1> SUFFICES ASSUME Init PROVE TotalsInv /\ CaughtUpIsCounted
  OBVIOUS
<1> USE TotalsAssumption DEF TotalsAssumption, Days
<1>1. PICK former \in [0..(Deployment - 1) -> {None} \cup {v \in Visit : ~v.converts}] :
         visit = [d \in Days |-> IF d < Deployment THEN former[d] ELSE None]
  BY DEF Init
<1>2. PICK total \in [0..(Deployment - 1) -> {None} \cup FormerTotal] :
         /\ \A d \in DOMAIN total : total[d] # None => total[d].sessions <= Truth(d)
         /\ stat = [d \in Days |-> IF d < Deployment THEN total[d] ELSE None]
  BY DEF Init
<1>3. ASSUME NEW d \in Days
      PROVE  /\ visit[d] = None \/ (visit[d] \in Visit /\ ~visit[d].converts)
             /\ stat[d] = None \/ (stat[d] \in FormerTotal /\ d < Deployment)
  BY <1>1, <1>2
<1>4. FormerTotal \subseteq Total
  BY DEF FormerTotal, Total
<1>5. ASSUME NEW d \in Days, stat[d] # None
      PROVE  ~stat[d].measured /\ stat[d].conversions = Null
  BY <1>3, <1>5 DEF FormerTotal
<1>6. TypeOK
  <2>1. visit \in [Days -> Visit \cup {None}] /\ stat \in [Days -> Total \cup {None}]
    BY <1>1, <1>2, <1>3, <1>4
  <2> QED BY <2>1 DEF Init, TypeOK
<1>7. JobFollowsDeployment /\ NotWrittenYet
  BY <1>3 DEF Init, JobFollowsDeployment, NotWrittenYet
<1>8. FormerIsKnown
  BY <1>3, <1>5 DEF FormerIsKnown
<1>9. PurgedIsOld
  BY DEF Init, PurgedIsOld, Old
<1>10. CatchesUp /\ CaughtUpIsCounted
  BY DEF Init, CatchesUp, CaughtUpIsCounted
<1>11. PurgedIsRemembered
  BY <1>3 DEF PurgedIsRemembered
<1>12. TotalsAreWhole /\ NullUntilFirstEvent
  BY <1>5 DEF TotalsAreWhole, NullUntilFirstEvent
<1> QED BY <1>6, <1>7, <1>8, <1>9, <1>10, <1>11, <1>12 DEF TotalsInv

\* The first day of the window is not negative, and the window is empty before it.
LEMMA WindowStarts ==
  ASSUME NEW now \in Nat
  PROVE  /\ FirstCatchUp(now) \in Nat /\ FirstCatchUp(now) <= now
         /\ FirstCatchUp(now) + OldestBackfill >= now
         /\ \A d \in Nat : d + OldestBackfill >= now => d >= FirstCatchUp(now)
  BY TotalsAssumption DEF TotalsAssumption, FirstCatchUp, Max0

\* The rows of a day the job writes are all there but for those of the last
\* millisecond and of an insertion that is not over; and no event that was
\* purged is without its mark in an earlier total.
LEMMA WrittenFromWholeRows ==
  ASSUME TotalsInv, Writing, NEW d \in Days, d < today, InWindow(d), NEW total \in Aggregates(d)
  PROVE  /\ total.sessions = Truth(d) \/ (Uncounted(d) /\ total.sessions = 0)
         /\ total.conversions # Null => \E e \in 0..d : visit[e] # None /\ visit[e].converts
         /\ total.conversions = Null =>
               \A e \in 0..d : visit[e] # None /\ visit[e].converts => e = d /\ Uncounted(e)
<1>t. TypeOK
  BY DEF TotalsInv
<1>n. today \in Days /\ d + OldestBackfill >= today
  BY <1>t DEF TypeOK, InWindow
<1>1. visit[d] # None => d \in viewKept
  <2>1. ~(d + Retention <= today)
    BY <1>n, DaysAreNumbers
  <2> QED BY <2>1 DEF TotalsInv, PurgedIsOld
<1>b. \A e \in Belated : e \in late /\ ~(e < d)
  <2>1. \A e \in Belated : e \in late /\ e = today - 1
    BY DEF Belated
  <2> QED BY <1>n, <2>1, DaysAreNumbers
<1>2. total.sessions = Truth(d) \/ (Uncounted(d) /\ total.sessions = 0)
  <2>1. CASE total.sessions = Count(d, viewKept)
    BY <1>1, <1>t, <2>1 DEF Count, Truth, Uncounted, TypeOK
  <2>2. CASE total.sessions = Count(d, viewKept \ Belated)
    BY <1>1, <1>b, <1>t, <2>2 DEF Count, Truth, Uncounted, TypeOK
  <2> QED BY <2>1, <2>2, AggregatesTyped
<1>3. ASSUME total.conversions # Null
      PROVE  \E e \in 0..d : visit[e] # None /\ visit[e].converts
  <2>0. ConversionsMeasured(d, eventKept)
    BY <1>3, AggregatesTyped
  <2>1. CASE \E e \in eventKept : e < d \/ (e = d /\ BeforeEnd(d))
    <3>1. PICK e \in eventKept : e < d \/ e = d
      BY <2>1
    <3>2. e \in Days /\ visit[e] # None /\ visit[e].converts
      BY <1>t DEF TypeOK
    <3>3. e \in 0..d
      BY <3>1, <3>2, DaysAreNumbers
    <3> QED BY <3>2, <3>3
  <2>2. CASE \E e \in Days : e < d /\ stat[e] # None /\ stat[e].conversions # Null
    <3>1. PICK e \in Days : e < d /\ stat[e] # None /\ stat[e].conversions # Null
      BY <2>2
    <3>2. stat[e].measured
      BY <3>1 DEF TotalsInv, FormerIsKnown
    <3>3. {f \in 0..e : visit[f] # None /\ visit[f].converts} # {}
      BY <3>1, <3>2 DEF TotalsInv, NullUntilFirstEvent
    <3>4. 0..e \subseteq 0..d
      BY <3>1, DaysAreNumbers
    <3> QED BY <3>3, <3>4
  <2> QED BY <2>0, <2>1, <2>2 DEF ConversionsMeasured
<1>4. ASSUME total.conversions = Null, NEW e \in 0..d, visit[e] # None, visit[e].converts
      PROVE  e = d /\ Uncounted(e)
  <2>0. ~ConversionsMeasured(d, eventKept \ Belated)
    BY <1>4, AggregatesTyped
  <2>n. e \in Days /\ (e < d \/ e = d)
    BY DaysAreNumbers
  <2>1. CASE e \in eventKept
    <3>1. CASE e \in Belated
      BY <1>4, <1>b, <2>n, <3>1 DEF Uncounted
    <3>2. CASE e \notin Belated
      BY <1>4, <2>0, <2>1, <2>n, <3>2 DEF ConversionsMeasured, Uncounted
    <3> QED BY <3>1, <3>2
  <2>2. CASE e \notin eventKept
    <3>1. PICK w \in Days : /\ e < w /\ stat[w] # None /\ stat[w].conversions # Null
                            /\ w + OldestBackfill < today
      BY <1>4, <2>2, <2>n DEF TotalsInv, PurgedIsRemembered
    <3>2. w < d
      BY <1>n, <3>1, DaysAreNumbers
    <3> QED BY <2>0, <3>1, <3>2 DEF ConversionsMeasured
  <2> QED BY <2>1, <2>2
<1> QED BY <1>2, <1>3, <1>4

\* Writing the total of a day of the window: those of the other days stay, and
\* what is true of every total stays true.
LEMMA WriteTotal ==
  ASSUME TotalsInv, Writing, NEW d \in Days, d < today, InWindow(d), NEW t \in Total,
         t \in Aggregates(d) \/ (stat[d] # None /\ t = stat[d]),
         stat' = [stat EXCEPT ![d] = t],
         UNCHANGED <<today, visit, viewKept, eventKept, late, caughtUp>>
  PROVE  /\ stat' \in [Days -> Total \cup {None}]
         /\ \A e \in Days : stat[e] # None \/ e = d => stat'[e] # None
         /\ \A e \in Days \ {d} : stat'[e] = stat[e]
         /\ \A e \in Days : stat[e] # None /\ stat[e].conversions # Null =>
               stat'[e] # None /\ (e # d => stat'[e].conversions # Null)
         /\ FormerIsKnown' /\ TotalsAreWhole' /\ NullUntilFirstEvent'
<1>t. TypeOK
  BY DEF TotalsInv
<1>1. stat' \in [Days -> Total \cup {None}] /\ stat'[d] = t /\ t # None
  BY <1>t, TotalsAssumption DEF TypeOK, TotalsAssumption
<1>2. \A e \in Days \ {d} : stat'[e] = stat[e]
  BY <1>t DEF TypeOK
<1>3. FormerIsKnown'
  BY <1>1, <1>2, AggregatesTyped DEF TotalsInv, FormerIsKnown
<1>4. TotalsAreWhole'
  <2>1. ASSUME NEW e \in Days, stat'[e] # None, stat'[e].measured
        PROVE  stat'[e].sessions = Truth(e) \/ (Uncounted(e) /\ stat'[e].sessions = 0)
    <3>1. CASE stat'[e] = stat[e]
      BY <2>1, <3>1 DEF TotalsInv, TotalsAreWhole
    <3>2. CASE e = d /\ t \in Aggregates(d)
      BY <1>1, <3>2, WrittenFromWholeRows
    <3> QED BY <1>1, <1>2, <3>1, <3>2
  <2> QED BY <2>1 DEF TotalsAreWhole, Truth, Uncounted, BeforeEnd
<1>5. NullUntilFirstEvent'
  <2>1. ASSUME NEW e \in Days, stat'[e] # None, stat'[e].measured
        PROVE  LET first == {f \in 0..e : visit[f] # None /\ visit[f].converts} IN
               /\ stat'[e].conversions # Null => first # {}
               /\ stat'[e].conversions = Null => \A f \in first : f = e /\ Uncounted(f)
    <3>1. CASE stat'[e] = stat[e]
      BY <2>1, <3>1 DEF TotalsInv, NullUntilFirstEvent
    <3>2. CASE e = d /\ t \in Aggregates(d)
      BY <1>1, <3>2, WrittenFromWholeRows, AggregatesTyped
    <3> QED BY <1>1, <1>2, <3>1, <3>2
  <2> QED BY <2>1 DEF NullUntilFirstEvent, Uncounted, BeforeEnd
<1> QED BY <1>1, <1>2, <1>3, <1>4, <1>5

-----------------------------------------------------------------------------
\* A visit only adds rows, to a day that has no total or to the day before,
\* whose total escapes it as late.
LEMMA TrackKeeps ==
  ASSUME TotalsInv, NEW d \in Days, NEW v \in Visit, Track(d, v)
  PROVE  TotalsInv'
<1>t. TypeOK
  BY DEF TotalsInv
<1>n. today \in Days /\ Deployment <= today /\ None \notin Visit
  BY <1>t, TotalsAssumption DEF TotalsInv, JobFollowsDeployment, TypeOK, TotalsAssumption
<1>1. /\ visit[d] = None /\ visit' = [visit EXCEPT ![d] = v] /\ visit'[d] = v
      /\ viewKept' = viewKept \cup {d}
      /\ eventKept' = IF v.converts THEN eventKept \cup {d} ELSE eventKept
      /\ late' = IF d = today THEN late ELSE late \cup {d}
      /\ UNCHANGED <<today, stat, job, cursor, caughtUp>>
  BY <1>t DEF Track, TypeOK
<1>2. d = today \/ (d = today - 1 /\ Deployment <= d)
  BY DEF Track
<1>3. \A e \in Days : visit[e] # None => visit'[e] = visit[e]
  BY <1>1, <1>t DEF TypeOK
<1>4. \A e \in Days \ {d} : visit'[e] = visit[e]
  BY <1>1, <1>t DEF TypeOK
<1>5. Deployment <= d
  BY <1>2, <1>n
<1>6. TypeOK'
  <2>1. visit' \in [Days -> Visit \cup {None}]
    BY <1>1, <1>t DEF TypeOK
  <2>2. viewKept' \subseteq {e \in Days : visit'[e] # None}
    BY <1>1, <1>3, <1>n, <1>t DEF TypeOK
  <2>3. eventKept' \subseteq {e \in Days : visit'[e] # None /\ visit'[e].converts}
    BY <1>1, <1>3, <1>n, <1>t DEF TypeOK
  <2> QED BY <1>1, <1>t, <2>1, <2>2, <2>3 DEF TypeOK
<1>7. JobFollowsDeployment' /\ NotWrittenYet' /\ CatchesUp'
  BY <1>1 DEF TotalsInv, JobFollowsDeployment, NotWrittenYet, CatchesUp, InWindow
<1>8. FormerIsKnown'
  BY <1>1, <1>4, <1>5 DEF TotalsInv, FormerIsKnown
<1>9. PurgedIsOld'
  BY <1>1, <1>4 DEF TotalsInv, PurgedIsOld
<1>10. PurgedIsRemembered'
  <2>1. ASSUME NEW e \in Days, visit'[e] # None, visit'[e].converts, e \notin eventKept'
        PROVE  e # d /\ visit[e] # None /\ visit[e].converts /\ e \notin eventKept
    BY <1>1, <1>4, <2>1
  <2> QED BY <1>1, <2>1 DEF TotalsInv, PurgedIsRemembered, Writing
<1>11. ASSUME NEW e \in Days, stat[e] # None, d <= e
       PROVE  e = d /\ d \in late'
  <2>1. e < today
    BY <1>11, <1>n, DaysAreNumbers DEF TotalsInv, NotWrittenYet
  <2> QED BY <1>11, <2>1, <1>1, <1>2, <1>n, DaysAreNumbers
<1>12. \A e \in Days : Uncounted(e) => Uncounted(e)'
  BY <1>1, <1>3, <1>n DEF Uncounted, BeforeEnd
<1>13. TotalsAreWhole'
  <2>1. ASSUME NEW e \in Days, stat[e] # None, stat[e].measured
        PROVE  stat[e].sessions = Truth(e)' \/ (Uncounted(e)' /\ stat[e].sessions = 0)
    <3>1. stat[e].sessions = Truth(e) \/ (Uncounted(e) /\ stat[e].sessions = 0)
      BY <2>1 DEF TotalsInv, TotalsAreWhole
    <3>2. CASE e # d
      BY <1>4, <1>12, <3>1, <3>2 DEF Truth
    <3>3. CASE e = d
      <4>1. stat[d].sessions = 0
        BY <1>1, <3>1, <3>3 DEF Truth, Uncounted
      <4>2. d \in late'
        BY <1>11, <2>1, <3>3, DaysAreNumbers
      <4> QED BY <1>1, <1>n, <3>3, <4>1, <4>2 DEF Uncounted
    <3> QED BY <3>2, <3>3
  <2> QED BY <1>1, <2>1 DEF TotalsAreWhole
<1>14. NullUntilFirstEvent'
  <2>1. ASSUME NEW e \in Days, stat[e] # None, stat[e].measured
        PROVE  LET first == {f \in 0..e : visit'[f] # None /\ visit'[f].converts} IN
               /\ stat[e].conversions # Null => first # {}
               /\ stat[e].conversions = Null => \A f \in first : f = e /\ Uncounted(f)'
    <3>1. ASSUME stat[e].conversions # Null
          PROVE  \E f \in 0..e : visit'[f] # None /\ visit'[f].converts
      <4>1. PICK f \in 0..e : visit[f] # None /\ visit[f].converts
        BY <2>1, <3>1 DEF TotalsInv, NullUntilFirstEvent
      <4>2. f \in Days
        BY DaysAreNumbers
      <4> QED BY <1>3, <4>1, <4>2
    <3>2. ASSUME stat[e].conversions = Null, NEW f \in 0..e, visit'[f] # None, visit'[f].converts
          PROVE  f = e /\ Uncounted(f)'
      <4>0. f \in Days /\ f <= e
        BY DaysAreNumbers
      <4>1. CASE f # d
        <5>1. visit[f] # None /\ visit[f].converts
          BY <1>4, <3>2, <4>0, <4>1
        <5>2. f = e /\ Uncounted(f)
          BY <2>1, <3>2, <5>1 DEF TotalsInv, NullUntilFirstEvent
        <5> QED BY <1>12, <4>0, <5>2
      <4>2. CASE f = d
        <5>1. e = d /\ d \in late'
          BY <1>11, <2>1, <4>0, <4>2
        <5> QED BY <1>1, <1>n, <4>2, <5>1 DEF Uncounted
      <4> QED BY <4>1, <4>2
    <3> QED BY <3>1, <3>2
  <2> QED BY <1>1, <2>1 DEF NullUntilFirstEvent
<1> QED BY <1>6, <1>7, <1>8, <1>9, <1>10, <1>13, <1>14 DEF TotalsInv

\* The total of yesterday had not been written.
LEMMA AggregateKeeps ==
  ASSUME TotalsInv, AggregateYesterday
  PROVE  TotalsInv' /\ today - 1 \in Days /\ stat[today - 1] = None
<1>t. TypeOK
  BY DEF TotalsInv
<1> DEFINE d == today - 1
<1>1. /\ job = "yesterday" /\ job' = "catch-up" /\ cursor' = FirstCatchUp(today)
      /\ UNCHANGED <<today, visit, viewKept, eventKept, late, caughtUp>>
  BY DEF AggregateYesterday
<1>n. today \in Days /\ Deployment < today
  BY <1>1, <1>t DEF TotalsInv, JobFollowsDeployment, TypeOK
<1>d. d \in Days /\ d < today /\ InWindow(d) /\ d + 1 = today
  BY <1>n, DaysAreNumbers DEF InWindow
<1>2. Writing
  BY <1>1 DEF Writing
<1>3. PICK total \in Aggregates(d) : stat' = [stat EXCEPT ![d] = total]
  BY DEF AggregateYesterday
<1>k. total \in Total
  BY <1>d, AggregatesTyped
<1> HIDE DEF d
<1>4. /\ stat' \in [Days -> Total \cup {None}]
      /\ \A e \in Days : stat[e] # None \/ e = d => stat'[e] # None
      /\ \A e \in Days \ {d} : stat'[e] = stat[e]
      /\ \A e \in Days : stat[e] # None /\ stat[e].conversions # Null =>
            stat'[e] # None /\ (e # d => stat'[e].conversions # Null)
      /\ FormerIsKnown' /\ TotalsAreWhole' /\ NullUntilFirstEvent'
  BY <1>1, <1>2, <1>3, <1>k, <1>d, WriteTotal
<1>5. FirstCatchUp(today) \in Days /\ InWindow(FirstCatchUp(today))
      /\ \A e \in Days : InWindow(e) => ~(e < FirstCatchUp(today))
  <2>1. today \in Nat
    BY <1>n, DaysAreNumbers
  <2> QED BY <1>n, <2>1, WindowStarts, DaysAreNumbers DEF InWindow
<1>6. TypeOK'
  BY <1>1, <1>t, <1>4, <1>5 DEF TypeOK
<1>7. JobFollowsDeployment'
  BY <1>1, <1>n DEF TotalsInv, JobFollowsDeployment
<1>8. NotWrittenYet' /\ stat[d] = None
  BY <1>1, <1>4, <1>d, <1>n, DaysAreNumbers DEF TotalsInv, NotWrittenYet, d
<1>9. PurgedIsOld'
  BY <1>1 DEF TotalsInv, PurgedIsOld
<1>10. CatchesUp'
  BY <1>1, <1>4, <1>5, <1>d DEF CatchesUp, InWindow, d
<1>11. PurgedIsRemembered'
  <2>1. ASSUME NEW e \in Days, visit[e] # None, visit[e].converts, e \notin eventKept
        PROVE  \E w \in Days : /\ e < w /\ stat'[w] # None /\ stat'[w].conversions # Null
                               /\ w + OldestBackfill < today
    <3>1. PICK w \in Days : /\ e < w /\ stat[w] # None /\ stat[w].conversions # Null
                            /\ w + OldestBackfill < today
      BY <1>2, <2>1 DEF TotalsInv, PurgedIsRemembered
    <3>2. w # d
      BY <1>8, <3>1
    <3> QED BY <1>4, <3>1, <3>2
  <2>2. \A w \in Days : w + OldestBackfill < today => w + OldestBackfill <= today
    BY <1>n, DaysAreNumbers
  <2> QED BY <1>1, <2>1, <2>2 DEF PurgedIsRemembered
<1> QED BY <1>4, <1>6, <1>7, <1>8, <1>9, <1>10, <1>11, <1>d DEF TotalsInv, d

\* The day of the catch-up is within its window and before yesterday's end.
LEMMA CatchUpKeeps ==
  ASSUME TotalsInv, CatchUpDay
  PROVE  /\ TotalsInv'
         /\ \A e \in Days : stat[e] # None => stat'[e] # None /\ stat'[e].sessions = stat[e].sessions
<1>t. TypeOK
  BY DEF TotalsInv
<1>1. /\ job = "catch-up" /\ cursor + NewestBackfill <= today /\ cursor' = cursor + 1
      /\ UNCHANGED <<today, visit, viewKept, eventKept, job, late, caughtUp>>
  BY DEF CatchUpDay
<1>n. today \in Days /\ cursor \in Days /\ cursor < today /\ cursor + 1 \in Days
  BY <1>1, <1>t, DaysAreNumbers DEF TypeOK
<1>2. Writing /\ InWindow(cursor)
  BY <1>1 DEF Writing, TotalsInv, CatchesUp
<1>p. PICK total \in Aggregates(cursor) :
         stat' = IF stat[cursor] # None /\ stat[cursor].measured THEN stat
                 ELSE [stat EXCEPT ![cursor] = Backfilled(cursor, total)]
  BY DEF CatchUpDay
<1> DEFINE t == IF stat[cursor] # None /\ stat[cursor].measured THEN stat[cursor]
                ELSE Backfilled(cursor, total)
<1>3. /\ t \in Total
      /\ t \in Aggregates(cursor) \/ (stat[cursor] # None /\ t = stat[cursor])
      /\ stat[cursor] # None => t.sessions = stat[cursor].sessions
  BY <1>t, <1>n, BackfilledTyped DEF TypeOK
<1>4. stat' = [stat EXCEPT ![cursor] = t]
  <2>1. CASE stat[cursor] # None /\ stat[cursor].measured
    BY <1>t, <1>n, <1>p, <2>1 DEF TypeOK
  <2>2. CASE ~(stat[cursor] # None /\ stat[cursor].measured)
    BY <1>p, <2>2
  <2> QED BY <2>1, <2>2
<1> HIDE DEF t
<1>5. /\ stat' \in [Days -> Total \cup {None}]
      /\ \A e \in Days : stat[e] # None \/ e = cursor => stat'[e] # None
      /\ \A e \in Days \ {cursor} : stat'[e] = stat[e]
      /\ \A e \in Days : stat[e] # None /\ stat[e].conversions # Null =>
            stat'[e] # None /\ (e # cursor => stat'[e].conversions # Null)
      /\ FormerIsKnown' /\ TotalsAreWhole' /\ NullUntilFirstEvent'
  BY <1>1, <1>2, <1>3, <1>4, <1>n, WriteTotal
<1>6. TypeOK'
  BY <1>1, <1>t, <1>5, <1>n DEF TypeOK
<1>7. JobFollowsDeployment' /\ PurgedIsOld'
  BY <1>1 DEF TotalsInv, JobFollowsDeployment, PurgedIsOld
<1>8. NotWrittenYet'
  BY <1>1, <1>5, <1>n, DaysAreNumbers DEF TotalsInv, NotWrittenYet
<1>9. CatchesUp'
  <2>1. today - 1 \in Days
    BY <1>n, DaysAreNumbers
  <2>2. InWindow(cursor + 1)
    BY <1>n, <1>2, DaysAreNumbers DEF InWindow
  <2>3. \A e \in Days : e < cursor + 1 => e < cursor \/ e = cursor
    BY <1>n, DaysAreNumbers
  <2>4. stat'[today - 1] # None
    BY <1>1, <1>5, <2>1 DEF TotalsInv, CatchesUp
  <2>5. \A e \in Days : InWindow(e) /\ e < cursor + 1 => stat'[e] # None
    BY <1>1, <1>5, <2>3 DEF TotalsInv, CatchesUp
  <2> QED BY <1>1, <2>2, <2>4, <2>5 DEF CatchesUp, InWindow
<1>10. PurgedIsRemembered'
  <2>1. ASSUME NEW e \in Days, visit[e] # None, visit[e].converts, e \notin eventKept
        PROVE  \E w \in Days : /\ e < w /\ stat'[w] # None /\ stat'[w].conversions # Null
                               /\ w + OldestBackfill < today
    <3>1. PICK w \in Days : /\ e < w /\ stat[w] # None /\ stat[w].conversions # Null
                            /\ w + OldestBackfill < today
      BY <1>2, <2>1 DEF TotalsInv, PurgedIsRemembered
    <3>2. w # cursor
      BY <1>2, <1>n, <3>1, DaysAreNumbers DEF InWindow
    <3> QED BY <1>5, <3>1, <3>2
  <2>2. \A w \in Days : w + OldestBackfill < today => w + OldestBackfill <= today
    BY <1>n, DaysAreNumbers
  <2> QED BY <1>1, <2>1, <2>2 DEF PurgedIsRemembered
<1>11. \A e \in Days : stat[e] # None => stat'[e] # None /\ stat'[e].sessions = stat[e].sessions
  BY <1>3, <1>4, <1>5, <1>n, <1>t DEF TypeOK
<1> QED BY <1>5, <1>6, <1>7, <1>8, <1>9, <1>10, <1>11 DEF TotalsInv

\* What is said of the totals stays true while neither they nor the visits change.
LEMMA TotalsStay ==
  ASSUME TotalsInv, UNCHANGED <<visit, stat, late>>
  PROVE  FormerIsKnown' /\ TotalsAreWhole' /\ NullUntilFirstEvent'
<1>1. FormerIsKnown'
  BY DEF TotalsInv, FormerIsKnown
<1>2. TotalsAreWhole'
  BY DEF TotalsInv, TotalsAreWhole, Truth, Uncounted, BeforeEnd
<1>3. NullUntilFirstEvent'
  BY DEF TotalsInv, NullUntilFirstEvent, Uncounted, BeforeEnd
<1> QED BY <1>1, <1>2, <1>3

\* And what is said of the job and the rows, in a step that only goes on.
LEMMA DaysStay ==
  ASSUME TotalsInv, UNCHANGED <<today, visit, stat>>, job' # "yesterday", Writing' => Writing,
         job' # "off" => job # "off"
  PROVE  /\ JobFollowsDeployment' /\ NotWrittenYet'
         /\ viewKept' = viewKept => PurgedIsOld'
         /\ eventKept' = eventKept => PurgedIsRemembered'
<1>1. JobFollowsDeployment' /\ NotWrittenYet'
  BY DEF TotalsInv, JobFollowsDeployment, NotWrittenYet
<1>2. viewKept' = viewKept => PurgedIsOld'
  BY DEF TotalsInv, PurgedIsOld
<1>3. eventKept' = eventKept => PurgedIsRemembered'
  BY DEF TotalsInv, PurgedIsRemembered
<1> QED BY <1>1, <1>2, <1>3

\* The events a purge removes have a mark: the oldest day of the window, which
\* is after theirs and has a total of this version, counted while they were there.
LEMMA PurgeKeeps ==
  ASSUME TotalsInv, PurgeEvents
  PROVE  TotalsInv'
<1>t. TypeOK
  BY DEF TotalsInv
<1>1. /\ job = "purge events" /\ job' = "off"
      /\ eventKept' = {d \in eventKept : ~Old(today, d)}
      /\ UNCHANGED <<today, visit, viewKept, stat, cursor, late, caughtUp>>
  BY DEF PurgeEvents
<1>n. today \in Days /\ eventKept \subseteq Days
  BY <1>t DEF TypeOK
<1>2. TypeOK'
  BY <1>1, <1>t DEF TypeOK
<1>3. /\ JobFollowsDeployment' /\ NotWrittenYet' /\ FormerIsKnown' /\ PurgedIsOld' /\ CatchesUp'
      /\ TotalsAreWhole' /\ NullUntilFirstEvent'
  <2>1. CatchesUp'
    BY <1>1 DEF CatchesUp
  <2> QED BY <1>1, <2>1, TotalsStay, DaysStay DEF Writing
<1>4. PurgedIsRemembered'
  <2>1. ASSUME NEW e \in Days, visit[e] # None, visit[e].converts, e \notin eventKept'
        PROVE  \E w \in Days : /\ e < w /\ stat[w] # None /\ stat[w].conversions # Null
                               /\ w + OldestBackfill <= today
    <3>1. CASE e \notin eventKept
      BY <2>1, <3>1 DEF TotalsInv, PurgedIsRemembered
    <3>2. CASE e \in eventKept
      <4>1. e + Retention <= today
        <5>1. Old(today, e)
          BY <1>1, <2>1, <3>2
        <5>2. e + Retention < today \/ e + Retention = today
          BY <5>1 DEF Old
        <5> QED BY <1>n, <5>2, DaysAreNumbers
      <4> DEFINE w == today - OldestBackfill
      <4>2. /\ w \in Days /\ e < w /\ w + OldestBackfill = today /\ w + NewestBackfill <= today
            /\ w + OldestBackfill >= today /\ w + OldestBackfill <= today
        BY <1>n, <4>1, DaysAreNumbers
      <4> HIDE DEF w
      <4>3. stat[w] # None
        BY <1>1, <4>2 DEF TotalsInv, CatchesUp, InWindow
      <4>4. stat[w].measured
        <5>1. Deployment <= e
          BY <2>1, DaysAreNumbers DEF TotalsInv, FormerIsKnown
        <5>2. ~(w < Deployment)
          BY <4>2, <5>1, DaysAreNumbers
        <5> QED BY <4>2, <4>3, <5>2 DEF TotalsInv, FormerIsKnown
      <4>5. stat[w].conversions # Null
        <5>1. e \in 0..w /\ e # w
          BY <4>2, DaysAreNumbers
        <5> QED BY <2>1, <4>2, <4>3, <4>4, <5>1 DEF TotalsInv, NullUntilFirstEvent
      <4> QED BY <4>2, <4>3, <4>5
    <3> QED BY <3>1, <3>2
  <2> QED BY <1>1, <2>1 DEF PurgedIsRemembered, Writing
<1> QED BY <1>2, <1>3, <1>4 DEF TotalsInv

\* Every step of the tracker, the clock and the job.
LEMMA TotalsNext ==
  ASSUME TotalsInv, [Next]_vars
  PROVE  TotalsInv'
<1>t. TypeOK
  BY DEF TotalsInv
<1>n. today \in Days
  BY <1>t DEF TypeOK
<1>1. ASSUME NEW started \in BOOLEAN, Midnight(started) PROVE TotalsInv'
  <2>1. /\ today' = today + 1 /\ job = "off" /\ job' \in {"yesterday", "off"}
        /\ UNCHANGED <<visit, viewKept, eventKept, stat, cursor, late, caughtUp>>
    BY <1>1 DEF Midnight
  <2>2. today + 1 \in Days
    BY <1>1, <1>n, TotalsAssumption DEF Midnight, Days, TotalsAssumption
  <2>3. TypeOK'
    BY <1>t, <2>1, <2>2 DEF TypeOK
  <2>4. JobFollowsDeployment'
    BY <1>n, <2>1, DaysAreNumbers DEF TotalsInv, JobFollowsDeployment
  <2>5. NotWrittenYet'
    BY <1>n, <2>1, DaysAreNumbers DEF TotalsInv, NotWrittenYet
  <2>6. FormerIsKnown' /\ TotalsAreWhole' /\ NullUntilFirstEvent'
    BY <2>1, TotalsStay
  <2>7. PurgedIsOld'
    BY <1>n, <2>1, DaysAreNumbers DEF TotalsInv, PurgedIsOld
  <2>8. CatchesUp'
    BY <2>1 DEF CatchesUp
  <2>9. PurgedIsRemembered'
    <3>1. \A w \in Days : w + OldestBackfill <= today =>
             w + OldestBackfill <= today + 1 /\ w + OldestBackfill < today + 1
      BY <1>n, DaysAreNumbers
    <3> QED BY <2>1, <3>1 DEF TotalsInv, PurgedIsRemembered
  <2> QED BY <2>3, <2>4, <2>5, <2>6, <2>7, <2>8, <2>9 DEF TotalsInv
<1>2. ASSUME CatchUpEnds PROVE TotalsInv'
  <2>1. /\ job = "catch-up" /\ cursor + NewestBackfill > today /\ job' = "purge views"
        /\ cursor' = 0 /\ UNCHANGED <<today, visit, viewKept, eventKept, stat, late>>
    BY <1>2 DEF CatchUpEnds
  <2>2. TypeOK'
    <3>1. 0 \in Days
      BY DaysAreNumbers
    <3>2. caughtUp' \subseteq Days
      BY <1>2, <1>t DEF CatchUpEnds, TypeOK
    <3> QED BY <1>t, <2>1, <3>1, <3>2 DEF TypeOK
  <2>3. /\ JobFollowsDeployment' /\ NotWrittenYet' /\ FormerIsKnown' /\ PurgedIsOld'
        /\ TotalsAreWhole' /\ NullUntilFirstEvent' /\ PurgedIsRemembered'
    BY <2>1, TotalsStay, DaysStay DEF Writing
  <2>4. ASSUME NEW d \in Days, InWindow(d), d + NewestBackfill <= today PROVE stat[d] # None
    <3>1. d < cursor
      <4>1. cursor \in Nat /\ today \in Nat /\ d \in Nat /\ NewestBackfill \in Nat
        BY <1>n, <1>t, DaysAreNumbers DEF TypeOK
      <4>2. cursor + NewestBackfill > today /\ d + NewestBackfill <= today
        BY <2>1, <2>4
      <4> QED BY <4>1, <4>2
    <3> QED BY <2>1, <2>4, <3>1 DEF TotalsInv, CatchesUp
  <2>5. CatchesUp'
    BY <2>1, <2>4 DEF CatchesUp, InWindow
  <2> QED BY <2>2, <2>3, <2>5 DEF TotalsInv
<1>3. ASSUME PurgeViews PROVE TotalsInv'
  <2>1. /\ job = "purge views" /\ job' = "purge events"
        /\ viewKept' = {d \in viewKept : ~Old(today, d)}
        /\ UNCHANGED <<today, visit, eventKept, stat, cursor, late, caughtUp>>
    BY <1>3 DEF PurgeViews
  <2>2. TypeOK'
    <3>1. viewKept' \subseteq viewKept
      BY <2>1
    <3> QED BY <1>t, <2>1, <3>1 DEF TypeOK
  <2>3. /\ JobFollowsDeployment' /\ NotWrittenYet' /\ FormerIsKnown' /\ CatchesUp'
        /\ TotalsAreWhole' /\ NullUntilFirstEvent' /\ PurgedIsRemembered'
    <3>1. CatchesUp'
      BY <2>1 DEF TotalsInv, CatchesUp, InWindow
    <3> QED BY <2>1, <3>1, TotalsStay, DaysStay DEF Writing
  <2>4. \A d \in Days : Old(today, d) => d + Retention <= today
    BY <1>n, DaysAreNumbers DEF Old
  <2>5. PurgedIsOld'
    BY <2>1, <2>4 DEF TotalsInv, PurgedIsOld
  <2> QED BY <2>2, <2>3, <2>5 DEF TotalsInv
<1>4. ASSUME JobStops PROVE TotalsInv'
  <2>1. /\ job' = "off" /\ cursor' = 0
        /\ UNCHANGED <<today, visit, viewKept, eventKept, stat, late, caughtUp>>
    BY <1>4 DEF JobStops
  <2>2. TypeOK'
    <3>1. 0 \in Days
      BY DaysAreNumbers
    <3> QED BY <1>t, <2>1, <3>1 DEF TypeOK
  <2>3. CatchesUp'
    BY <2>1 DEF CatchesUp
  <2> QED BY <2>1, <2>2, <2>3, TotalsStay, DaysStay DEF TotalsInv, Writing
<1>5. ASSUME UNCHANGED vars PROVE TotalsInv'
  <2>1. TypeOK' /\ CatchesUp' /\ NotWrittenYet' /\ JobFollowsDeployment'
    BY <1>5
    DEF vars, TotalsInv, TypeOK, CatchesUp, InWindow, NotWrittenYet, JobFollowsDeployment
  <2>2. PurgedIsOld' /\ PurgedIsRemembered'
    BY <1>5 DEF vars, TotalsInv, PurgedIsOld, PurgedIsRemembered, Writing
  <2> QED BY <1>5, <2>1, <2>2, TotalsStay DEF TotalsInv, vars
<1> QED
  BY <1>1, <1>2, <1>3, <1>4, <1>5, TrackKeeps, AggregateKeeps, CatchUpKeeps, PurgeKeeps DEF Next

\* The invariant on which the other theorems rest.
THEOREM TotalsInvariant == Spec => []TotalsInv
<1>1. TotalsInv /\ [Next]_vars => TotalsInv'
  BY TotalsNext
<1> QED BY TotalsInit, <1>1, PTL DEF Spec

\* A measured total counts the whole day, whatever jobs were missed, stopped or
\* late and whatever was purged since; only the visits around midnight escape.
THEOREM TotalsAlwaysWhole == Spec => []TotalsAreWhole
<1>1. TotalsInv => TotalsAreWhole
  BY DEF TotalsInv
<1> QED BY TotalsInvariant, <1>1, PTL

\* The conversions of a measured day are null exactly until the first event.
THEOREM NullOnlyUntilFirstEvent == Spec => []NullUntilFirstEvent
<1>1. TotalsInv => NullUntilFirstEvent
  BY DEF TotalsInv
<1> QED BY TotalsInvariant, <1>1, PTL

\* No step loses a total or rewrites its sessions: the job of yesterday has
\* none to overwrite, and the catch-up keeps those it finds.
THEOREM TotalsAlwaysKept == Spec => TotalsAreKept
<1> DEFINE Kept == \A d \in Days : stat[d] # None =>
                      stat'[d] # None /\ stat'[d].sessions = stat[d].sessions
<1>1. ASSUME TotalsInv, [Next]_vars PROVE Kept
  <2>1. CASE AggregateYesterday
    <3>1. \E total : stat' = [stat EXCEPT ![today - 1] = total]
      BY <2>1 DEF AggregateYesterday
    <3>2. stat[today - 1] = None
      BY <1>1, <2>1, AggregateKeeps
    <3> QED BY <1>1, <3>1, <3>2 DEF TotalsInv, TypeOK
  <2>2. CASE CatchUpDay
    BY <1>1, <2>2, CatchUpKeeps
  <2>3. CASE UNCHANGED stat
    BY <2>3
  <2>4. AggregateYesterday \/ CatchUpDay \/ UNCHANGED stat
    BY <1>1
    DEF Next, vars, Track, Midnight, CatchUpEnds, PurgeViews, PurgeEvents, JobStops
  <2> QED BY <2>1, <2>2, <2>3, <2>4
<1>2. TotalsInv /\ [Next]_vars => [Kept]_vars
  BY <1>1
<1> QED BY TotalsInvariant, <1>2, PTL DEF Spec, TotalsAreKept

\* A complete catch-up leaves no visit of its reach without a total, and no
\* total is ever lost: what is purged was counted, or no catch-up was
\* completed.  It takes a window that leaves no day out before yesterday.
THEOREM AlwaysPurgedOnceCounted ==
  ASSUME NewestBackfill <= 2
  PROVE  Spec => []PurgedOnceCounted
<1>1. Init => CaughtUpIsCounted
  BY TotalsInit
<1>2. ASSUME TotalsInv, CaughtUpIsCounted, [Next]_vars PROVE CaughtUpIsCounted'
  <2>t. TypeOK
    BY <1>2 DEF TotalsInv
  <2>1. CASE CatchUpEnds
    <3>1. /\ job = "catch-up" /\ cursor + NewestBackfill > today /\ stat' = stat
          /\ caughtUp' = caughtUp \cup
               {d \in Days : visit[d] # None /\ d < today /\ today <= d + OldestBackfill}
      BY <2>1 DEF CatchUpEnds
    <3>2. ASSUME NEW d \in Days, d < today, today <= d + OldestBackfill PROVE stat[d] # None
      <4>1. cursor \in Nat /\ today \in Nat /\ d \in Nat /\ NewestBackfill \in Nat
            /\ OldestBackfill \in Nat
        BY <2>t, DaysAreNumbers DEF TypeOK
      <4>2. cursor + NewestBackfill > today
        BY <3>1
      <4>3. d < cursor \/ d = today - 1
        BY <3>2, <4>1, <4>2
      <4>4. InWindow(d)
        BY <3>2, <4>1 DEF InWindow
      <4> QED BY <1>2, <3>1, <4>3, <4>4 DEF TotalsInv, CatchesUp
    <3> QED BY <1>2, <3>1, <3>2 DEF CaughtUpIsCounted
  <2>2. CASE UNCHANGED caughtUp
    <3>1. \A d \in Days : stat[d] # None => stat'[d] # None
      <4>1. CASE AggregateYesterday
        <5>1. \E total : stat' = [stat EXCEPT ![today - 1] = total]
          BY <4>1 DEF AggregateYesterday
        <5>2. stat[today - 1] = None
          BY <1>2, <4>1, AggregateKeeps
        <5> QED BY <2>t, <5>1, <5>2 DEF TypeOK
      <4>2. CASE CatchUpDay
        BY <1>2, <4>2, CatchUpKeeps
      <4>3. AggregateYesterday \/ CatchUpDay \/ UNCHANGED stat
        BY <1>2
        DEF Next, vars, Track, Midnight, CatchUpEnds, PurgeViews, PurgeEvents, JobStops
      <4> QED BY <4>1, <4>2, <4>3
    <3> QED BY <1>2, <2>2, <2>t, <3>1 DEF CaughtUpIsCounted, TypeOK
  <2>3. CatchUpEnds \/ UNCHANGED caughtUp
    BY <1>2
    DEF Next, vars, Track, Midnight, AggregateYesterday, CatchUpDay, PurgeViews, PurgeEvents,
        JobStops
  <2> QED BY <2>1, <2>2, <2>3
<1>3. TotalsInv /\ CaughtUpIsCounted => PurgedOnceCounted
  BY TotalsAssumption, DaysAreNumbers
  DEF CaughtUpIsCounted, PurgedOnceCounted, Outage
<1> QED BY TotalsInvariant, <1>1, <1>2, <1>3, PTL DEF Spec


-----------------------------------------------------------------------------
\* The requests that read the totals.

Live == [visits : {0, 1, None}, events : {0, 1, None},
         measured : BOOLEAN \cup {None}, of : Days \cup {None}]

RequestTyped ==
    /\ asked \in Request \cup {None}
    /\ stored = None \/ stored \in [Days -> Total \cup {None}]
    /\ live \in Live
    /\ certain \subseteq Days

\* No request at the start.
LEMMA StatInitTyped == StatInit => TotalsInv /\ RequestTyped
  BY TotalsInit DEF StatInit, RequestTyped, Live, NothingRead

\* The steps of a request and those of the totals, whose writers it does not disturb.
LEMMA StatNextTyped ==
  ASSUME TotalsInv, RequestTyped, [StatNext]_statVars
  PROVE  TotalsInv' /\ RequestTyped'
<1>t. TypeOK
  BY DEF TotalsInv
<1>1. [Next]_vars
  BY DEF StatNext, TotalsStep, Ask, ReadStored, CountLive, CountToday, Leave, statVars
<1>2. ASSUME UNCHANGED request PROVE RequestTyped'
  BY <1>2 DEF request, RequestTyped
<1>3. ASSUME NEW asks \in {"overview", "chart"}, Ask(asks) PROVE RequestTyped'
  <2>1. today \in Days /\ 0..(today - 1) \subseteq Days /\ viewKept \subseteq Days
    <3>1. today \in Days /\ viewKept \subseteq Days
      BY <1>t DEF TypeOK
    <3>2. 0..(today - 1) \subseteq 0..today
      BY <3>1, DaysAreNumbers
    <3> QED BY <3>1, <3>2, DaysAreNumbers
  <2>2. /\ asked' = [asks |-> asks, now |-> today] /\ UNCHANGED <<stored, live>>
        /\ certain' \subseteq 0..(today - 1) \cup viewKept
    BY <1>3 DEF Ask
  <2> QED BY <2>1, <2>2 DEF RequestTyped, Request
<1>4. ASSUME ReadStored PROVE RequestTyped'
  BY <1>t, <1>4 DEF ReadStored, RequestTyped, TypeOK
<1>5. ASSUME NEW q \in Queries, CountLive(q) PROVE RequestTyped'
  <2>1. \A d : Count(d, viewKept) \in {0, 1} /\ Count(d, eventKept) \in {0, 1}
              /\ ConversionsMeasured(d, eventKept) \in BOOLEAN
    BY DEF Count, ConversionsMeasured
  <2>2. \/ live' = [live EXCEPT !.visits = Count(OverviewDay, viewKept)]
        \/ live' = [live EXCEPT !.events = Count(OverviewDay, eventKept)]
        \/ live' = [live EXCEPT !.measured = ConversionsMeasured(OverviewDay, eventKept)]
    <3> DEFINE d == OverviewDay
               result == [visits |-> Count(d, viewKept), events |-> Count(d, eventKept),
                          measured |-> ConversionsMeasured(d, eventKept)]
    <3>1. live' = [live EXCEPT ![q] = result[q]]
      BY <1>5 DEF CountLive
    <3>2. q = "visits" \/ q = "events" \/ q = "measured"
      BY DEF Queries
    <3>3. /\ result["visits"] = Count(d, viewKept) /\ result["events"] = Count(d, eventKept)
          /\ result["measured"] = ConversionsMeasured(d, eventKept)
      OBVIOUS
    <3> HIDE DEF d, result
    <3> QED BY <3>1, <3>2, <3>3 DEF d
  <2>3. live' \in Live
    BY <2>1, <2>2 DEF RequestTyped, Live
  <2> QED BY <1>5, <2>3 DEF CountLive, RequestTyped
<1>6. ASSUME CountToday PROVE RequestTyped'
  <2>1. Count(today, viewKept) \in {0, 1} /\ today \in Days
    BY <1>t DEF Count, TypeOK
  <2>2. live' \in Live
    BY <1>6, <2>1 DEF CountToday, RequestTyped, Live
  <2> QED BY <1>6, <2>2 DEF CountToday, RequestTyped
<1>7. ASSUME Leave PROVE RequestTyped'
  BY <1>7 DEF Leave, RequestTyped, NothingRead, Live
<1> QED
  BY <1>1, <1>2, <1>3, <1>4, <1>5, <1>6, <1>7, TotalsNext DEF StatNext, TotalsStep, statVars

\* What an overview or a chart has read stays of its type while visits arrive,
\* midnight passes and the job aggregates and purges.
THEOREM StatisticsTyped == StatSpec => []TypesOK
<1>1. TotalsInv /\ RequestTyped => TypesOK
  BY DEF TotalsInv, RequestTyped, Live, TypesOK, Request
<1>2. TotalsInv /\ RequestTyped /\ [StatNext]_statVars => TotalsInv' /\ RequestTyped'
  BY StatNextTyped
<1> QED BY StatInitTyped, <1>1, <1>2, PTL DEF StatSpec

-----------------------------------------------------------------------------
\* What the answers rest on: of the totals and their rows, and of a request.

\* A visit is of a day that has begun, and only a purge removes its rows.
RowsAreOld ==
    \A d \in Days : visit[d] # None =>
        /\ d <= today
        /\ d \notin viewKept => Old(today, d)
        /\ visit[d].converts /\ d \notin eventKept => Old(today, d)

\* A total counts no visit and no conversion there was not, and the conversion
\* of the visit it counts, unless it was late.
TotalsAreTrue ==
    \A d \in Days : stat[d] # None =>
        /\ stat[d].sessions = 1 => visit[d] # None
        /\ stat[d].conversions = 1 => visit[d] # None /\ visit[d].converts
        /\ stat[d].conversions # Null /\ stat[d].sessions = 1 /\ visit[d].converts /\ d \notin late =>
              stat[d].conversions = 1

RowsInv == RowsAreOld /\ TotalsAreTrue

NoRequest == stored = None /\ live = NothingRead /\ certain = {}

AskedLately == asked.now <= today /\ today <= asked.now + 1

\* The visits that were certain when the request began.
CertainIsKept ==
    \A d \in certain :
        /\ visit[d] # None
        /\ d = asked.now \/ d < asked.now
        /\ d = asked.now => BeforeEnd(d)
        /\ d < asked.now =>
              /\ stat[d] # None /\ stat[d].sessions = 1
              /\ stored # None => stored[d] # None

StoredIsKept ==
    IF stored = None THEN live = NothingRead
    ELSE \A d \in Days : stored[d] # None =>
            /\ stat[d] # None /\ stat[d].sessions = stored[d].sessions
            /\ IF stored[d].measured THEN stat[d] = stored[d]
               ELSE d < Deployment /\ stored[d].conversions = Null

LiveDay == IF asked.asks = "overview" THEN asked.now ELSE live.of

LiveIsTrue ==
    /\ live.visits # None =>
          /\ LiveDay \in Days
          /\ live.visits = 1 => visit[LiveDay] # None
          /\ LiveDay \in certain => live.visits = 1
    /\ live.events # None =>
          /\ live.events = 1 => visit[asked.now] # None /\ visit[asked.now].converts
          /\ asked.now \in certain /\ visit[asked.now].converts => live.events = 1
    /\ live.measured = FALSE => \A d \in Days : d < asked.now /\ stored[d] # None => stored[d].conversions = Null
    /\ live.of = asked.now => stored[asked.now] = None

ReadInv ==
    IF asked = None THEN NoRequest
    ELSE AskedLately /\ CertainIsKept /\ StoredIsKept /\ LiveIsTrue

-----------------------------------------------------------------------------
\* At the start no total of this version, no event and no purge but the former's.
LEMMA RowsInit == Init => RowsInv
<1> SUFFICES ASSUME Init PROVE RowsInv
  OBVIOUS
<1> USE TotalsAssumption DEF TotalsAssumption, Days
<1>1. PICK former \in [0..(Deployment - 1) -> {None} \cup {v \in Visit : ~v.converts}] :
         visit = [d \in Days |-> IF d < Deployment THEN former[d] ELSE None]
  BY DEF Init
<1>2. PICK total \in [0..(Deployment - 1) -> {None} \cup FormerTotal] :
         /\ \A d \in DOMAIN total : total[d] # None => total[d].sessions <= Truth(d)
         /\ stat = [d \in Days |-> IF d < Deployment THEN total[d] ELSE None]
  BY DEF Init
<1>3. ASSUME NEW d \in Days, visit[d] # None
      PROVE  d < Deployment /\ visit[d] \in Visit /\ ~visit[d].converts
  BY <1>1, <1>3
<1>4. RowsAreOld
  <2>1. \A d \in Days : visit[d] # None => d <= today
    BY <1>3 DEF Init
  <2>2. \A d \in Days : visit[d] # None /\ d \notin viewKept => Old(today, d)
    BY DEF Init
  <2> QED BY <1>3, <2>1, <2>2 DEF RowsAreOld
<1>5. TotalsAreTrue
  <2>1. ASSUME NEW d \in Days, stat[d] # None
        PROVE  stat[d].conversions = Null /\ stat[d].sessions <= Truth(d)
    <3>1. d \in 0..(Deployment - 1) /\ stat[d] = total[d]
      BY <1>2, <2>1
    <3>2. total[d] \in FormerTotal /\ total[d].sessions <= Truth(d)
      BY <1>2, <2>1, <3>1
    <3> QED BY <3>1, <3>2 DEF FormerTotal
  <2>2. ASSUME NEW d \in Days, stat[d] # None, stat[d].sessions = 1 PROVE visit[d] # None
    BY <2>1, <2>2 DEF Truth
  <2> QED BY <2>1, <2>2 DEF TotalsAreTrue
<1> QED BY <1>4, <1>5 DEF RowsInv

\* What a step of the job writes: nothing, or the total of one day of the
\* window, computed from the rows, over no total or one that was not measured.
LEMMA Writes ==
  ASSUME TotalsInv, [Next]_vars
  PROVE  \/ stat' = stat
         \/ /\ UNCHANGED <<today, visit, viewKept, eventKept, late>>
            /\ \E d \in Days : \E total \in Aggregates(d) :
                  /\ InWindow(d) /\ d < today
                  /\ stat' = [stat EXCEPT ![d] = total]
                  /\ stat[d] # None =>
                        ~stat[d].measured /\ total.sessions = stat[d].sessions
<1>t. TypeOK
  BY DEF TotalsInv
<1>1. CASE AggregateYesterday
  <2>1. today - 1 \in Days /\ stat[today - 1] = None
    BY <1>1, AggregateKeeps
  <2>2. today \in Nat /\ OldestBackfill \in Nat /\ 1 <= OldestBackfill
    <3>1. today \in Nat
      BY <1>t, DaysAreNumbers DEF TypeOK
    <3> QED BY <3>1, TotalsAssumption DEF TotalsAssumption
  <2>3. InWindow(today - 1) /\ today - 1 < today
    BY <2>2 DEF InWindow
  <2>4. /\ \E total \in Aggregates(today - 1) : stat' = [stat EXCEPT ![today - 1] = total]
        /\ UNCHANGED <<today, visit, viewKept, eventKept, late>>
    BY <1>1 DEF AggregateYesterday
  <2> QED BY <2>1, <2>3, <2>4
<1>2. CASE CatchUpDay
  <2>1. cursor \in Days /\ InWindow(cursor) /\ cursor < today
    <3>1. cursor \in Days /\ today \in Days
      BY <1>t DEF TypeOK
    <3>2. cursor + NewestBackfill <= today /\ InWindow(cursor)
      BY <1>2 DEF CatchUpDay, TotalsInv, CatchesUp
    <3> QED BY <3>1, <3>2, DaysAreNumbers
  <2>2. PICK total \in Aggregates(cursor) :
           stat' = IF stat[cursor] # None /\ stat[cursor].measured THEN stat
                   ELSE [stat EXCEPT ![cursor] = Backfilled(cursor, total)]
    BY <1>2 DEF CatchUpDay
  <2>3. UNCHANGED <<today, visit, viewKept, eventKept, late>>
    BY <1>2 DEF CatchUpDay
  <2>4. CASE stat[cursor] # None /\ stat[cursor].measured
    BY <2>2, <2>4
  <2>5. CASE ~(stat[cursor] # None /\ stat[cursor].measured)
    <3>1. stat' = [stat EXCEPT ![cursor] = Backfilled(cursor, total)]
      BY <2>2, <2>5
    <3>2. CASE stat[cursor] # None /\ stat[cursor].sessions # total.sessions
      <4>1. Backfilled(cursor, total) = stat[cursor]
        BY <3>2 DEF Backfilled
      <4> QED BY <1>t, <2>1, <3>1, <4>1 DEF TypeOK
    <3>3. CASE stat[cursor] # None => stat[cursor].sessions = total.sessions
      <4>1. Backfilled(cursor, total) = total
        BY <3>3 DEF Backfilled
      <4> QED BY <2>1, <2>3, <2>5, <3>1, <3>3, <4>1
    <3> QED BY <3>2, <3>3
  <2> QED BY <2>4, <2>5
<1>3. AggregateYesterday \/ CatchUpDay \/ stat' = stat
  BY DEF Next, vars, Track, Midnight, CatchUpEnds, PurgeViews, PurgeEvents, JobStops
<1> QED BY <1>1, <1>2, <1>3

\* No step loses a total, changes its sessions or one that is measured.
LEMMA TotalsGrow ==
  ASSUME TotalsInv, [Next]_vars, NEW d \in Days, stat[d] # None
  PROVE  /\ stat'[d] # None /\ stat'[d].sessions = stat[d].sessions
         /\ stat[d].measured => stat'[d] = stat[d]
<1>1. CASE stat' = stat
  BY <1>1
<1>2. CASE stat' # stat
  <2>0. PICK e \in Days : \E total \in Aggregates(e) :
           /\ stat' = [stat EXCEPT ![e] = total]
           /\ stat[e] # None => ~stat[e].measured /\ total.sessions = stat[e].sessions
    BY <1>2, Writes
  <2>1. PICK total \in Aggregates(e) :
           /\ stat' = [stat EXCEPT ![e] = total]
           /\ stat[e] # None => ~stat[e].measured /\ total.sessions = stat[e].sessions
    BY <2>0
  <2>2. total # None /\ stat'[e] = total /\ \A f \in Days \ {e} : stat'[f] = stat[f]
    BY <2>1, AggregatesTyped DEF TotalsInv, TypeOK
  <2> QED BY <2>1, <2>2
<1> QED BY <1>1, <1>2

\* No visit is undone.
LEMMA VisitsStay ==
  ASSUME TotalsInv, [Next]_vars, NEW d \in Days, visit[d] # None
  PROVE  visit'[d] = visit[d]
<1>1. CASE visit' = visit
  BY <1>1
<1>2. ASSUME NEW e \in Days, NEW v \in Visit, Track(e, v) PROVE visit'[d] = visit[d]
  BY <1>2 DEF Track, TotalsInv, TypeOK
<1> QED BY <1>1, <1>2
  DEF Next, vars, Midnight, AggregateYesterday, CatchUpDay, CatchUpEnds, PurgeViews,
      PurgeEvents, JobStops

\* The rows of a visit come together and only a purge removes them; a total is
\* written while they are all there, and no visit is added to one that counts.
LEMMA RowsNext ==
  ASSUME TotalsInv, RowsInv, [Next]_vars
  PROVE  RowsInv'
<1>t. TypeOK /\ TypeOK'
  BY TotalsNext DEF TotalsInv
<1>n. today \in Days /\ today' \in Days
  BY <1>t DEF TypeOK
<1>1. RowsAreOld'
  <2>1. ASSUME NEW e \in Days, NEW v \in Visit, Track(e, v) PROVE RowsAreOld'
    <3>1. /\ visit[e] = None /\ visit' = [visit EXCEPT ![e] = v]
          /\ viewKept' = viewKept \cup {e} /\ (e = today \/ e = today - 1)
          /\ eventKept' = IF v.converts THEN eventKept \cup {e} ELSE eventKept
          /\ today' = today
      BY <2>1 DEF Track
    <3>2. visit'[e] = v /\ \A d \in Days \ {e} : visit'[d] = visit[d]
      BY <3>1, <1>t DEF TypeOK
    <3>3. e <= today
      BY <3>1, <1>n, DaysAreNumbers
    <3> QED BY <3>1, <3>2, <3>3 DEF RowsInv, RowsAreOld, Old
  <2>2. ASSUME NEW started \in BOOLEAN, Midnight(started) PROVE RowsAreOld'
    <3>1. today' = today + 1 /\ UNCHANGED <<visit, viewKept, eventKept>>
      BY <2>2 DEF Midnight
    <3>2. ASSUME NEW d \in Days, Old(today, d) PROVE Old(today, d)'
      BY <3>1, <3>2, <1>n, DaysAreNumbers DEF Old
    <3>3. \A d \in Days : d <= today => d <= today'
      BY <3>1, <1>n, DaysAreNumbers
    <3> QED BY <3>1, <3>2, <3>3 DEF RowsInv, RowsAreOld
  <2>3. CASE PurgeViews
    BY <2>3 DEF PurgeViews, RowsInv, RowsAreOld, Old
  <2>4. CASE PurgeEvents
    BY <2>4 DEF PurgeEvents, RowsInv, RowsAreOld, Old
  <2>5. CASE UNCHANGED <<today, visit, viewKept, eventKept>>
    BY <2>5 DEF RowsInv, RowsAreOld, Old
  <2> QED BY <2>1, <2>2, <2>3, <2>4, <2>5
    DEF Next, vars, AggregateYesterday, CatchUpDay, CatchUpEnds, JobStops
<1>2. TotalsAreTrue'
  <2>1. CASE stat' = stat
    <3>1. ASSUME NEW d \in Days, visit[d] # None PROVE visit'[d] = visit[d]
      BY <3>1, VisitsStay
    <3>2. late \subseteq late'
      BY DEF Next, vars, Track, Midnight, AggregateYesterday, CatchUpDay, CatchUpEnds,
             PurgeViews, PurgeEvents, JobStops
    <3> QED BY <2>1, <3>1, <3>2 DEF RowsInv, TotalsAreTrue
  <2>2. CASE stat' # stat
    <3>1. UNCHANGED <<today, visit, viewKept, eventKept, late>>
      BY <2>2, Writes
    <3>0. PICK e \in Days : \E total \in Aggregates(e) :
             InWindow(e) /\ e < today /\ stat' = [stat EXCEPT ![e] = total]
      BY <2>2, Writes
    <3>2. PICK total \in Aggregates(e) :
             InWindow(e) /\ e < today /\ stat' = [stat EXCEPT ![e] = total]
      BY <3>0
    <3>3. stat'[e] = total /\ \A d \in Days \ {e} : stat'[d] = stat[d]
      BY <3>2, <1>t DEF TypeOK
    <3>4. ~Old(today, e)
      BY <3>2, <1>n, DaysAreNumbers DEF InWindow, Old
    <3>5. /\ e \in viewKept <=> visit[e] # None
          /\ e \in eventKept <=> visit[e] # None /\ visit[e].converts
      BY <3>4, <1>t DEF RowsInv, RowsAreOld, TypeOK
    <3>6. e \notin late => e \notin Belated
      BY DEF Belated
    <3>n. Null # 1
      BY TotalsAssumption DEF TotalsAssumption
    <3>7. /\ \/ total.sessions = Count(e, viewKept) \/ total.sessions = Count(e, viewKept \ Belated)
          /\ total.conversions # Null =>
                \/ total.conversions = Count(e, eventKept)
                \/ total.conversions = Count(e, eventKept \ Belated)
      BY AggregatesTyped
    <3>8. /\ total.sessions = 1 => visit[e] # None /\ BeforeEnd(e)
          /\ total.conversions = 1 => visit[e] # None /\ visit[e].converts
          /\ total.conversions # Null /\ total.sessions = 1 /\ visit[e].converts /\ e \notin late =>
                total.conversions = 1
      BY <3>5, <3>6, <3>7, <3>n DEF Count
    <3> QED BY <3>1, <3>3, <3>8 DEF RowsInv, TotalsAreTrue
  <2> QED BY <2>1, <2>2
<1> QED BY <1>1, <1>2 DEF RowsInv

\* The clock does not go back.
LEMMA ClockAdvances ==
  ASSUME TotalsInv, [Next]_vars
  PROVE  today' = today \/ today' = today + 1
  BY DEF Next, vars, Track, Midnight, AggregateYesterday, CatchUpDay, CatchUpEnds, PurgeViews,
         PurgeEvents, JobStops

\* The raw rows of the day of a request outlive the request.
LEMMA RowsOutliveRequest ==
  ASSUME TotalsInv, RowsInv, RequestTyped, asked # None, AskedLately
  PROVE  /\ asked.now \in Days
         /\ visit[asked.now] # None => asked.now \in viewKept
         /\ visit[asked.now] # None /\ visit[asked.now].converts => asked.now \in eventKept
<1>1. asked.now \in Days /\ today \in Days
  BY DEF RequestTyped, Request, TotalsInv, TypeOK
<1>2. ~Old(today, asked.now)
  <2>1. asked.now \in Nat /\ today \in Nat
    BY <1>1, DaysAreNumbers
  <2>2. Retention \in Nat /\ 1 < Retention
    BY TotalsAssumption DEF TotalsAssumption
  <2> QED BY <2>1, <2>2 DEF Old, AskedLately
<1> QED BY <1>1, <1>2 DEF RowsInv, RowsAreOld

\* While a request waits, the totals and the visits it relies on stay.
LEMMA RequestWaits ==
  ASSUME TotalsInv, RowsInv, RequestTyped, ReadInv, [Next]_vars, UNCHANGED request,
         asked # None => today' <= asked.now + 1
  PROVE  ReadInv'
<1>1. CASE asked = None
  BY <1>1 DEF ReadInv, NoRequest, request
<1>2. CASE asked # None
  <2>0. /\ AskedLately /\ CertainIsKept /\ StoredIsKept /\ LiveIsTrue
        /\ UNCHANGED <<asked, stored, live, certain>>
    BY <1>2 DEF ReadInv, request
  <2>n. asked.now \in Nat /\ asked.now \in Days /\ today \in Nat /\ certain \subseteq Days
    BY <1>2, DaysAreNumbers DEF RequestTyped, Request, TotalsInv, TypeOK
  <2>1. AskedLately'
    BY <1>2, <2>0, <2>n, ClockAdvances DEF AskedLately
  <2>2. CertainIsKept'
    <3>1. ASSUME NEW d \in certain
          PROVE  /\ visit'[d] = visit[d]
                 /\ d < asked.now => stat'[d] # None /\ stat'[d].sessions = 1
      <4>1. d \in Days /\ visit[d] # None
        BY <2>0, <2>n DEF CertainIsKept
      <4>2. d < asked.now => stat[d] # None /\ stat[d].sessions = 1
        BY <2>0 DEF CertainIsKept
      <4> QED BY <4>1, <4>2, VisitsStay, TotalsGrow
    <3> QED BY <2>0, <3>1 DEF CertainIsKept, BeforeEnd
  <2>3. StoredIsKept'
    <3>1. CASE stored = None
      BY <2>0, <3>1 DEF StoredIsKept
    <3>2. CASE stored # None
      <4>1. ASSUME NEW d \in Days, stored[d] # None
            PROVE  /\ stat'[d] # None /\ stat'[d].sessions = stored[d].sessions
                   /\ IF stored[d].measured THEN stat'[d] = stored[d]
                      ELSE d < Deployment /\ stored[d].conversions = Null
        <5>1. /\ stat[d] # None /\ stat[d].sessions = stored[d].sessions
              /\ IF stored[d].measured THEN stat[d] = stored[d]
                 ELSE d < Deployment /\ stored[d].conversions = Null
          BY <2>0, <3>2, <4>1 DEF StoredIsKept
        <5> QED BY <5>1, TotalsGrow
      <4> QED BY <2>0, <3>2, <4>1 DEF StoredIsKept
    <3> QED BY <3>1, <3>2
  <2>4. LiveIsTrue'
    <3>1. LiveDay' = LiveDay
      BY <2>0 DEF LiveDay
    <3>2. live.visits # None =>
             /\ LiveDay \in Days
             /\ live.visits = 1 => visit'[LiveDay] # None
             /\ LiveDay \in certain => live.visits = 1
      <4>1. LiveDay \in Days /\ visit[LiveDay] # None => visit'[LiveDay] # None
        BY VisitsStay
      <4> QED BY <2>0, <4>1 DEF LiveIsTrue
    <3>3. live.events # None =>
             /\ live.events = 1 => visit'[asked.now] # None /\ visit'[asked.now].converts
             /\ asked.now \in certain /\ visit'[asked.now].converts => live.events = 1
      <4>1. visit[asked.now] # None => visit'[asked.now] = visit[asked.now]
        BY <2>n, VisitsStay
      <4>2. asked.now \in certain => visit[asked.now] # None
        BY <2>0 DEF CertainIsKept
      <4> QED BY <2>0, <4>1, <4>2 DEF LiveIsTrue
    <3> QED BY <2>0, <3>1, <3>2, <3>3 DEF LiveIsTrue
  <2> QED BY <1>2, <2>0, <2>1, <2>2, <2>3, <2>4 DEF ReadInv
<1> QED BY <1>1, <1>2

\* A request begins with the totals and the visits that are there.
LEMMA AskReads ==
  ASSUME TotalsInv, RowsInv, RequestTyped, ReadInv, NEW asks \in {"overview", "chart"}, Ask(asks)
  PROVE  ReadInv'
<1>1. /\ asked = None /\ asked' = [asks |-> asks, now |-> today]
      /\ certain' = {d \in 0..(today - 1) : stat[d] # None /\ stat[d].sessions = 1}
                      \cup {d \in viewKept : d = today /\ BeforeEnd(d)}
      /\ UNCHANGED <<vars, stored, live>>
  BY DEF Ask
<1>2. stored = None /\ live = NothingRead
  BY <1>1 DEF ReadInv, NoRequest
<1>n. today \in Nat /\ today \in Days /\ viewKept \subseteq {d \in Days : visit[d] # None}
  BY DaysAreNumbers DEF TotalsInv, TypeOK
<1>3. AskedLately'
  BY <1>1, <1>n DEF AskedLately, vars
<1>4. CertainIsKept'
  <2>1. ASSUME NEW d \in 0..(today - 1), stat[d] # None, stat[d].sessions = 1
        PROVE  visit[d] # None /\ d < today
    <3>1. d \in Days /\ d < today
      BY <1>n, DaysAreNumbers
    <3> QED BY <2>1, <3>1 DEF RowsInv, TotalsAreTrue
  <2>2. ASSUME NEW d \in viewKept, d = today, BeforeEnd(d)
        PROVE  visit[d] # None /\ ~(d < today)
    BY <1>n, <2>2
  <2>3. asked'.now = today /\ stored' = None /\ visit' = visit /\ stat' = stat
    BY <1>1, <1>2 DEF vars
  <2>4. ASSUME NEW d \in certain'
        PROVE  /\ visit[d] # None
               /\ \/ d < today /\ stat[d] # None /\ stat[d].sessions = 1 /\ d # today
                  \/ d = today /\ BeforeEnd(d) /\ ~(d < today)
    <3>1. CASE d \in 0..(today - 1) /\ stat[d] # None /\ stat[d].sessions = 1
      BY <1>n, <2>1, <3>1
    <3>2. CASE d \in viewKept /\ d = today /\ BeforeEnd(d)
      BY <2>2, <3>2
    <3> QED BY <1>1, <3>1, <3>2
  <2> QED BY <2>3, <2>4 DEF CertainIsKept, BeforeEnd
<1>5. StoredIsKept'
  BY <1>1, <1>2 DEF StoredIsKept, NothingRead
<1>6. LiveIsTrue'
  BY <1>1, <1>2, <1>n, TotalsAssumption DEF LiveIsTrue, NothingRead, TotalsAssumption
<1>7. asked' # None
  BY <1>1, <1>n, RequestAssumption DEF Request, RequestAssumption
<1> QED BY <1>3, <1>4, <1>5, <1>6, <1>7 DEF ReadInv

\* What a request reads of the stored totals is kept: a later write adds totals,
\* or measures one of the former version.
LEMMA StoredReads ==
  ASSUME TotalsInv, RowsInv, RequestTyped, ReadInv, ReadStored
  PROVE  ReadInv'
<1>1. /\ asked # None /\ stored = None /\ stored' = stat
      /\ UNCHANGED <<vars, asked, live, certain>>
  BY DEF ReadStored
<1>2. AskedLately /\ CertainIsKept /\ live = NothingRead
  BY <1>1 DEF ReadInv, StoredIsKept
<1>3. AskedLately' /\ CertainIsKept'
  BY <1>1, <1>2 DEF AskedLately, CertainIsKept, BeforeEnd, vars
<1>4. StoredIsKept'
  BY <1>1, <1>2 DEF StoredIsKept, TotalsInv, FormerIsKnown, vars
<1>5. LiveIsTrue'
  <2>1. asked.now \in Nat
    BY <1>1, DaysAreNumbers DEF RequestTyped, Request
  <2> QED BY <1>1, <1>2, <2>1, TotalsAssumption DEF LiveIsTrue, NothingRead, TotalsAssumption
<1> QED BY <1>1, <1>3, <1>4, <1>5 DEF ReadInv

\* The three queries of the current day see the visit that was certain, and no other.
LEMMA LiveReads ==
  ASSUME TotalsInv, RowsInv, RequestTyped, ReadInv, NEW q \in Queries, CountLive(q)
  PROVE  ReadInv'
<1> DEFINE d == asked.now
<1>1. /\ asked # None /\ asked.asks = "overview" /\ stored # None /\ live[q] = None
      /\ UNCHANGED <<vars, asked, stored, certain>>
  BY DEF CountLive
<1>2. AskedLately /\ CertainIsKept /\ StoredIsKept /\ LiveIsTrue
  BY <1>1 DEF ReadInv
<1>3. /\ d \in Days
      /\ visit[d] # None => d \in viewKept
      /\ visit[d] # None /\ visit[d].converts => d \in eventKept
  BY <1>1, <1>2, RowsOutliveRequest
<1>4. /\ viewKept \subseteq {e \in Days : visit[e] # None}
      /\ eventKept \subseteq {e \in Days : visit[e] # None /\ visit[e].converts}
      /\ live \in Live
  BY DEF TotalsInv, TypeOK, RequestTyped
<1>5. \/ live' = [live EXCEPT !.visits = Count(d, viewKept)]
      \/ live' = [live EXCEPT !.events = Count(d, eventKept)]
      \/ live' = [live EXCEPT !.measured = ConversionsMeasured(d, eventKept)]
  <2> DEFINE result == [visits |-> Count(d, viewKept), events |-> Count(d, eventKept),
                        measured |-> ConversionsMeasured(d, eventKept)]
  <2>1. live' = [live EXCEPT ![q] = result[q]]
    BY DEF CountLive, OverviewDay
  <2>2. q = "visits" \/ q = "events" \/ q = "measured"
    BY DEF Queries
  <2>3. /\ result["visits"] = Count(d, viewKept) /\ result["events"] = Count(d, eventKept)
        /\ result["measured"] = ConversionsMeasured(d, eventKept)
    OBVIOUS
  <2> HIDE DEF result, d
  <2> QED BY <2>1, <2>2, <2>3
<1>6. AskedLately' /\ CertainIsKept' /\ StoredIsKept'
  BY <1>1, <1>2 DEF AskedLately, CertainIsKept, StoredIsKept, BeforeEnd, vars
<1>7. asked'.now = d /\ LiveDay' = d /\ LiveDay = d /\ stored' = stored /\ visit' = visit
      /\ certain' = certain
  BY <1>1 DEF LiveDay, vars
<1>8. d \in certain => visit[d] # None /\ BeforeEnd(d)
  BY <1>2 DEF CertainIsKept
<1> HIDE DEF d
<1>9. LiveIsTrue'
  <2>1. CASE live' = [live EXCEPT !.visits = Count(d, viewKept)]
    <3>1. /\ live'.visits = Count(d, viewKept) /\ live'.events = live.events
          /\ live'.measured = live.measured /\ live'.of = live.of
      BY <1>4, <2>1 DEF Live
    <3>2. /\ live'.visits = 1 => visit[d] # None
          /\ d \in certain => live'.visits = 1
      BY <1>3, <1>4, <1>8, <3>1 DEF Count
    <3> QED BY <1>2, <1>3, <1>7, <3>1, <3>2 DEF LiveIsTrue, d
  <2>2. CASE live' = [live EXCEPT !.events = Count(d, eventKept)]
    <3>1. /\ live'.events = Count(d, eventKept) /\ live'.visits = live.visits
          /\ live'.measured = live.measured /\ live'.of = live.of
      BY <1>4, <2>2 DEF Live
    <3>2. /\ live'.events = 1 => visit[d] # None /\ visit[d].converts
          /\ d \in certain /\ visit[d].converts => live'.events = 1
      BY <1>3, <1>4, <1>8, <3>1 DEF Count
    <3> QED BY <1>2, <1>3, <1>7, <3>1, <3>2 DEF LiveIsTrue, d
  <2>3. CASE live' = [live EXCEPT !.measured = ConversionsMeasured(d, eventKept)]
    <3>1. /\ live'.measured = ConversionsMeasured(d, eventKept) /\ live'.visits = live.visits
          /\ live'.events = live.events /\ live'.of = live.of
      BY <1>4, <2>3 DEF Live
    <3>2. ASSUME ~ConversionsMeasured(d, eventKept), NEW e \in Days, e < d, stored[e] # None
          PROVE  stored[e].conversions = Null
      BY <1>1, <1>2, <3>2 DEF ConversionsMeasured, StoredIsKept
    <3>3. (live'.measured = FALSE) => \A e \in Days : e < d /\ stored[e] # None =>
                                       stored[e].conversions = Null
      <4>1. (live'.measured = FALSE) => ~ConversionsMeasured(d, eventKept)
        BY <3>1
      <4> QED BY <3>2, <4>1
    <3> QED BY <1>2, <1>7, <3>1, <3>3 DEF LiveIsTrue, d
  <2> QED BY <1>5, <2>1, <2>2, <2>3
<1> QED BY <1>1, <1>6, <1>9 DEF ReadInv

\* A chart counts the day it reads on the clock, of which no total was stored yet.
LEMMA TodayReads ==
  ASSUME TotalsInv, RowsInv, RequestTyped, ReadInv, CountToday
  PROVE  ReadInv'
<1>1. /\ asked # None /\ asked.asks = "chart" /\ stored # None
      /\ live' = [live EXCEPT !.visits = Count(today, viewKept), !.of = today]
      /\ UNCHANGED <<vars, asked, stored, certain>>
  BY DEF CountToday
<1>2. AskedLately /\ CertainIsKept /\ StoredIsKept /\ LiveIsTrue
  BY <1>1 DEF ReadInv
<1>3. /\ asked.now \in Days /\ asked.now \in Nat
      /\ visit[asked.now] # None => asked.now \in viewKept
  BY <1>1, <1>2, RowsOutliveRequest, DaysAreNumbers
<1>4. /\ viewKept \subseteq {e \in Days : visit[e] # None}
      /\ today \in Days /\ today \in Nat /\ live \in Live /\ certain \subseteq Days
  BY DaysAreNumbers DEF TotalsInv, TypeOK, RequestTyped
<1>5. AskedLately' /\ CertainIsKept' /\ StoredIsKept'
  BY <1>1, <1>2 DEF AskedLately, CertainIsKept, StoredIsKept, BeforeEnd, vars
<1>6. /\ live'.visits = Count(today, viewKept) /\ live'.events = live.events
      /\ live'.measured = live.measured /\ live'.of = today
  BY <1>1, <1>4 DEF Live
<1>7. asked' = asked /\ LiveDay' = today /\ stored' = stored /\ visit' = visit
      /\ certain' = certain
  BY <1>1, <1>6 DEF LiveDay, vars
<1>8. /\ live'.visits = 1 => visit[today] # None
      /\ today \in certain => live'.visits = 1
  <2>1. live'.visits = 1 => visit[today] # None
    BY <1>4, <1>6 DEF Count
  <2>2. ASSUME today \in certain PROVE live'.visits = 1
    <3>1. today = asked.now
      BY <1>2, <1>3, <1>4, <2>2 DEF CertainIsKept, AskedLately
    <3>2. visit[today] # None /\ BeforeEnd(today)
      BY <1>2, <2>2, <3>1 DEF CertainIsKept
    <3> QED BY <1>3, <1>6, <3>1, <3>2 DEF Count
  <2> QED BY <2>1, <2>2
<1>9. today = asked.now => stored[asked.now] = None
  <2>1. stat[today] = None
    BY <1>4 DEF TotalsInv, NotWrittenYet
  <2> QED BY <1>1, <1>2, <1>3, <2>1 DEF StoredIsKept
<1>10. LiveIsTrue'
  BY <1>2, <1>4, <1>6, <1>7, <1>8, <1>9 DEF LiveIsTrue
<1> QED BY <1>1, <1>5, <1>10 DEF ReadInv

\* What a request has read is true of the totals and the visits, at every step.
LEMMA StatNextReads ==
  ASSUME TotalsInv, RowsInv, RequestTyped, ReadInv, [StatNext]_statVars
  PROVE  RowsInv' /\ ReadInv'
<1>1. [Next]_vars
  BY DEF StatNext, TotalsStep, Ask, ReadStored, CountLive, CountToday, Leave, statVars
<1>2. ASSUME TotalsStep PROVE ReadInv'
  BY <1>1, <1>2, RequestWaits DEF TotalsStep
<1>3. ASSUME UNCHANGED statVars PROVE ReadInv'
  <2>1. UNCHANGED request /\ today' = today
    BY <1>3 DEF statVars, vars
  <2>2. asked # None => today' <= asked.now + 1
    BY <2>1 DEF ReadInv, AskedLately
  <2> QED BY <1>1, <2>1, <2>2, RequestWaits
<1>4. ASSUME Leave PROVE ReadInv'
  BY <1>4 DEF Leave, ReadInv, NoRequest
<1>5. ReadInv'
  BY <1>2, <1>3, <1>4, AskReads, StoredReads, LiveReads, TodayReads DEF StatNext
<1> QED BY <1>1, <1>5, RowsNext

AnswersInv == TotalsInv /\ RowsInv /\ RequestTyped /\ ReadInv

\* The invariant on which the truth of the answers rests.
THEOREM AnswersInvariant == StatSpec => []AnswersInv
<1>1. StatInit => AnswersInv
  BY StatInitTyped, RowsInit DEF StatInit, AnswersInv, ReadInv, NoRequest
<1>2. AnswersInv /\ [StatNext]_statVars => AnswersInv'
  BY StatNextTyped, StatNextReads DEF AnswersInv
<1> QED BY <1>1, <1>2, PTL DEF StatSpec

\* Every set of days has its first, its second and so on to its last, in order.
LEMMA NthDay ==
  ASSUME NEW dates, dates \subseteq Days
  PROVE  /\ Cardinality(dates) \in Nat
         /\ \A i \in 1..Cardinality(dates) : Nth(dates, i) \in dates
         /\ \A i, j \in 1..Cardinality(dates) : i < j => Nth(dates, i) < Nth(dates, j)
         /\ \A d \in dates : \E i \in 1..Cardinality(dates) : Nth(dates, i) = d
<1> DEFINE Before(d) == {e \in dates : e < d}
           n == Cardinality(dates)
<1>1. dates \subseteq Nat /\ IsFiniteSet(dates)
  <2>1. Days \subseteq Nat /\ IsFiniteSet(Days)
    BY FS_Interval, TotalsAssumption DEF Days, TotalsAssumption
  <2> QED BY <2>1, FS_Subset
<1>2. n \in Nat
  BY <1>1, FS_CardinalityType
<1>3. ASSUME NEW d \in dates
      PROVE  Cardinality(Before(d)) \in Nat /\ Cardinality(Before(d)) < n
  <2>1. Before(d) \subseteq dates /\ Before(d) # dates
    BY <1>1
  <2> QED BY <1>1, <2>1, FS_Subset, FS_CardinalityType
<1>4. ASSUME NEW d \in dates, NEW e \in dates, d < e
      PROVE  Cardinality(Before(d)) < Cardinality(Before(e))
  <2>0. d \in Nat /\ e \in Nat /\ \A x \in dates : x \in Nat
    BY <1>1
  <2>1. ASSUME NEW x \in Before(d) PROVE x \in Before(e)
    <3>1. x \in dates /\ x \in Nat /\ x < d
      BY <2>0
    <3>2. x < e
      BY <1>4, <2>0, <3>1
    <3> QED BY <3>1, <3>2
  <2>2. d \in Before(e) /\ d \notin Before(d)
    BY <1>1, <1>4
  <2>3. IsFiniteSet(Before(e))
    BY <1>1, FS_Subset
  <2> HIDE DEF Before
  <2>4. Cardinality(Before(d)) <= Cardinality(Before(e)) /\ Cardinality(Before(d)) # Cardinality(Before(e))
    BY <2>1, <2>2, <2>3, FS_Subset
  <2> QED BY <1>3, <2>4
<1> DEFINE rank == [d \in dates |-> Cardinality(Before(d)) + 1]
<1>5. rank \in [dates -> 1..n]
  BY <1>2, <1>3
<1>r. \A d \in dates : rank[d] = Cardinality(Before(d)) + 1 /\ rank[d] \in Nat
  BY <1>3
<1>m. ASSUME NEW d \in dates, NEW e \in dates, d < e PROVE rank[d] < rank[e]
  <2>1. Cardinality(Before(d)) < Cardinality(Before(e))
    BY <1>4, <1>m
  <2> HIDE DEF Before
  <2> QED BY <1>3, <2>1
<1> HIDE DEF rank
<1>6. rank \in Injection(dates, 1..n)
  <2>1. ASSUME NEW d \in dates, NEW e \in dates, d # e PROVE rank[d] # rank[e]
    <3>1. d \in Nat /\ e \in Nat
      BY <1>1
    <3>2. d < e \/ e < d
      BY <2>1, <3>1
    <3>3. rank[d] \in Nat /\ rank[e] \in Nat
      BY <1>r
    <3>4. rank[d] < rank[e] \/ rank[e] < rank[d]
      BY <1>m, <3>2
    <3> QED BY <3>3, <3>4
  <2> QED BY <1>5, <2>1 DEF Injection, IsInjective
<1>7. \A i \in 1..n : \E d \in dates : rank[d] = i
  <2>1. IsFiniteSet(1..n) /\ Cardinality(1..n) = n
    BY <1>2, FS_Interval
  <2>2. rank \in Surjection(dates, 1..n)
    BY <1>6, <2>1, FS_Injection
  <2> QED BY <2>2 DEF Surjection
<1>8. ASSUME NEW i \in 1..n PROVE Nth(dates, i) \in dates /\ rank[Nth(dates, i)] = i
  <2>1. PICK d \in dates : rank[d] = i
    BY <1>7
  <2>2. Cardinality(Before(d)) = i - 1
    BY <1>3, <1>r, <2>1
  <2>3. Nth(dates, i) \in dates /\ Cardinality(Before(Nth(dates, i))) = i - 1
    BY <2>2 DEF Nth
  <2> HIDE DEF Before
  <2> QED BY <1>2, <1>r, <2>3
<1>9. ASSUME NEW i \in 1..n, NEW j \in 1..n, i < j PROVE Nth(dates, i) < Nth(dates, j)
  <2> DEFINE d == Nth(dates, i)
             e == Nth(dates, j)
  <2>1. d \in dates /\ e \in dates /\ rank[d] = i /\ rank[e] = j
    BY <1>8
  <2> HIDE DEF d, e
  <2>2. d # e /\ ~(e < d)
    BY <1>2, <1>9, <1>m, <2>1
  <2>3. d \in Nat /\ e \in Nat
    BY <1>1, <2>1
  <2>4. d < e
    BY <2>2, <2>3
  <2> QED BY <2>4 DEF d, e
<1>10. ASSUME NEW d \in dates PROVE \E i \in 1..n : Nth(dates, i) = d
  <2>1. rank[d] \in 1..n
    BY <1>5
  <2>2. rank[Nth(dates, rank[d])] = rank[d] /\ Nth(dates, rank[d]) \in dates
    BY <1>8, <2>1
  <2>3. Nth(dates, rank[d]) = d
    BY <1>6, <2>2 DEF Injection, IsInjective
  <2> QED BY <2>1, <2>3
<1> QED BY <1>2, <1>8, <1>9, <1>10

\* A list of days holds each of these dates once, in their order.
InOrder(days, dates) ==
    /\ \E n \in Nat : DOMAIN days = 1..n
    /\ \A i \in DOMAIN days : days[i].date \in dates
    /\ \A i, j \in DOMAIN days : i < j => days[i].date < days[j].date
    /\ \A d \in dates : \E i \in DOMAIN days : days[i].date = d

\* The rows read of a range are in the order of their dates.
LEMMA RowsInOrder ==
  ASSUME NEW from, NEW last
  PROVE  LET rows == RowsOf(from, last) IN
         /\ rows \in Seq({StoredTotal(d) : d \in Days})
         /\ InOrder(rows, StoredDates(from, last))
         /\ \A i \in DOMAIN rows : rows[i] = StoredTotal(rows[i].date)
<1> DEFINE dates == StoredDates(from, last)
           n == Cardinality(dates)
           rows == RowsOf(from, last)
<1>1. dates \subseteq Days
  BY DEF StoredDates
<1>2. rows = [i \in 1..n |-> StoredTotal(Nth(dates, i))]
  BY DEF RowsOf
<1> HIDE DEF dates, n, rows
<1>3. /\ n \in Nat
      /\ \A i \in 1..n : Nth(dates, i) \in dates
      /\ \A i, j \in 1..n : i < j => Nth(dates, i) < Nth(dates, j)
      /\ \A d \in dates : \E i \in 1..n : Nth(dates, i) = d
  BY <1>1, NthDay DEF n
<1>4. \A d : StoredTotal(d).date = d
  BY DEF StoredTotal
<1>5. \A i \in 1..n : rows[i] = StoredTotal(Nth(dates, i)) /\ rows[i].date = Nth(dates, i)
  BY <1>2, <1>4
<1>6. DOMAIN rows = 1..n
  BY <1>2
<1>7. rows \in Seq({StoredTotal(d) : d \in Days})
  <2>1. rows \in [1..n -> {StoredTotal(d) : d \in Days}]
    BY <1>1, <1>2, <1>3
  <2> QED BY <1>3, <2>1
<1>8. InOrder(rows, dates)
  BY <1>3, <1>5, <1>6 DEF InOrder
<1> QED BY <1>5, <1>6, <1>7, <1>8 DEF dates, rows

\* And so they are with a day appended that is after them.
LEMMA AppendInOrder ==
  ASSUME NEW T, NEW rows \in Seq(T), NEW dates, InOrder(rows, dates), NEW last,
         \A d \in dates : d < last.date
  PROVE  LET days == rows \o <<last>> IN
         /\ InOrder(days, dates \cup {last.date})
         /\ \A i \in DOMAIN days : days[i] = last \/ (i \in DOMAIN rows /\ days[i] = rows[i])
         /\ \E i \in DOMAIN days : days[i] = last
<1> DEFINE days == rows \o <<last>>
           n == Len(rows)
<1>1. n \in Nat /\ DOMAIN rows = 1..n
  OBVIOUS
<1>2. /\ DOMAIN days = 1..(n + 1)
      /\ \A i \in 1..n : days[i] = rows[i]
      /\ days[n + 1] = last
  <2>1. rows \in Seq(T \cup {last}) /\ <<last>> \in Seq(T \cup {last})
    OBVIOUS
  <2> QED BY <1>1, <2>1
<1> HIDE DEF days, n
<1>3. \A i \in 1..(n + 1) : i \in 1..n \/ i = n + 1
  BY <1>1
<1>4. \A i \in DOMAIN days : days[i].date \in dates \cup {last.date}
  BY <1>1, <1>2, <1>3 DEF InOrder
<1>5. ASSUME NEW i \in DOMAIN days, NEW j \in DOMAIN days, i < j
      PROVE  days[i].date < days[j].date
  <2>1. i \in 1..n /\ days[i] = rows[i] /\ rows[i].date \in dates
    BY <1>1, <1>2, <1>5 DEF InOrder
  <2>2. CASE j \in 1..n
    BY <1>1, <1>2, <1>5, <2>1, <2>2 DEF InOrder
  <2>3. CASE j = n + 1
    BY <1>2, <2>1, <2>3
  <2> QED BY <1>2, <1>3, <2>2, <2>3
<1>6. ASSUME NEW d \in dates \cup {last.date} PROVE \E i \in DOMAIN days : days[i].date = d
  <2>1. CASE d \in dates
    <3>1. PICK i \in DOMAIN rows : rows[i].date = d
      BY <2>1 DEF InOrder
    <3>2. i \in 1..(n + 1)
      BY <1>1, <3>1
    <3> QED BY <1>1, <1>2, <3>1, <3>2
  <2>2. CASE d = last.date
    <3>1. n + 1 \in 1..(n + 1)
      BY <1>1
    <3> QED BY <1>2, <2>2, <3>1
  <2> QED BY <2>1, <2>2
<1>7. InOrder(days, dates \cup {last.date})
  <2>1. n + 1 \in Nat
    BY <1>1
  <2> QED BY <1>2, <1>4, <1>5, <1>6, <2>1 DEF InOrder
<1>8. n + 1 \in DOMAIN days
  BY <1>1, <1>2
<1> QED BY <1>1, <1>2, <1>3, <1>7, <1>8 DEF days

\* No date is twice in such a list.
LEMMA DatesDiffer ==
  ASSUME NEW days, NEW dates, dates \subseteq Days, InOrder(days, dates),
         NEW i \in DOMAIN days, NEW j \in DOMAIN days, days[i].date = days[j].date
  PROVE  i = j
<1>1. PICK n \in Nat : DOMAIN days = 1..n
  BY DEF InOrder
<1>2. i \in Nat /\ j \in Nat
  BY <1>1
<1>3. days[i].date \in Nat
  BY DaysAreNumbers DEF InOrder
<1>4. ~(i < j) /\ ~(j < i)
  BY <1>3 DEF InOrder
<1> QED BY <1>2, <1>4

\* The function a sum over a set stands for: it takes out one element at a time.
SumsUp(F, S, val) ==
    F = [s \in SUBSET S |->
           IF s = {} THEN 0 ELSE val[CHOOSE x \in s : TRUE] + F[s \ {CHOOSE x \in s : TRUE}]]

Ones(val, s) == {x \in s : val[x] = 1}

\* There is one, and it counts the elements whose value is 1, in whatever order
\* they are taken, if the others are 0.
LEMMA SumOfOnes ==
  ASSUME NEW S, IsFiniteSet(S), NEW val \in [S -> {0, 1}]
  PROVE  /\ \E F : SumsUp(F, S, val)
         /\ \A F : SumsUp(F, S, val) => F[S] = Cardinality(Ones(val, S))
<1>1. ASSUME NEW s \in SUBSET S
      PROVE  IsFiniteSet(Ones(val, s)) /\ Cardinality(Ones(val, s)) \in Nat
  <2>1. Ones(val, s) \in SUBSET S
    BY DEF Ones
  <2> QED BY <2>1, FS_Subset, FS_CardinalityType
<1>2. Cardinality(Ones(val, {})) = 0
  <2>1. Ones(val, {}) = {}
    BY DEF Ones
  <2> QED BY <2>1, FS_EmptySet
<1>3. ASSUME NEW s \in SUBSET S, NEW x \in s
      PROVE  Cardinality(Ones(val, s)) = val[x] + Cardinality(Ones(val, s \ {x}))
  <2>1. s \ {x} \in SUBSET S
    OBVIOUS
  <2>2. CASE val[x] = 1
    <3>1. Ones(val, s) = Ones(val, s \ {x}) \cup {x} /\ x \notin Ones(val, s \ {x})
      BY <2>2 DEF Ones
    <3>2. Cardinality(Ones(val, s)) = Cardinality(Ones(val, s \ {x})) + 1
      BY <1>1, <2>1, <3>1, FS_AddElement
    <3> QED BY <1>1, <2>1, <2>2, <3>2
  <2>3. CASE val[x] = 0
    <3>1. Ones(val, s) = Ones(val, s \ {x})
      BY <2>3 DEF Ones
    <3> QED BY <1>1, <2>1, <2>3, <3>1
  <2> QED BY <2>2, <2>3
<1>4. \E F : SumsUp(F, S, val)
  <2> DEFINE F == [s \in SUBSET S |-> Cardinality(Ones(val, s))]
             G == [s \in SUBSET S |->
                     IF s = {} THEN 0
                     ELSE val[CHOOSE x \in s : TRUE] + F[s \ {CHOOSE x \in s : TRUE}]]
  <2>1. ASSUME NEW s \in SUBSET S PROVE F[s] = G[s]
    <3>1. CASE s = {}
      BY <1>2, <3>1
    <3>2. CASE s # {}
      <4> DEFINE y == CHOOSE x \in s : TRUE
      <4>1. y \in s
        BY <3>2
      <4> HIDE DEF y
      <4>2. s \ {y} \in SUBSET S
        OBVIOUS
      <4>3. F[s] = val[y] + F[s \ {y}]
        BY <1>3, <4>1, <4>2
      <4> QED BY <3>2, <4>3 DEF y
    <3> QED BY <3>1, <3>2
  <2>2. F = G
    BY <2>1
  <2> HIDE DEF F
  <2> QED BY <2>2 DEF SumsUp
<1>5. ASSUME NEW F, SumsUp(F, S, val) PROVE F[S] = Cardinality(Ones(val, S))
  <2> DEFINE wrong == {s \in SUBSET S : F[s] # Cardinality(Ones(val, s))}
  <2>1. CASE wrong = {}
    BY <2>1
  <2>2. CASE wrong # {}
    <3>1. IsWellFoundedOn(StrictSubsetOrdering(S), SUBSET S)
      BY FS_StrictSubsetOrderingWellFounded, FS_FiniteSubsetsOfFinite, Zenon
    <3>2. PICK s \in wrong : \A t \in wrong : ~ (<<t, s>> \in StrictSubsetOrdering(S))
      BY <2>2, <3>1, WFMin, Zenon
    <3>3. s # {}
      BY <1>2, <1>5 DEF SumsUp
    <3> DEFINE y == CHOOSE x \in s : TRUE
    <3>4. y \in s
      BY <3>3
    <3>5. F[s] = val[y] + F[s \ {y}]
      BY <1>5, <3>3 DEF SumsUp
    <3> HIDE DEF y
    <3>6. <<s \ {y}, s>> \in StrictSubsetOrdering(S)
      BY <3>4 DEF StrictSubsetOrdering
    <3>7. F[s \ {y}] = Cardinality(Ones(val, s \ {y}))
      BY <3>2, <3>6
    <3>8. F[s] = Cardinality(Ones(val, s))
      BY <1>3, <3>4, <3>5, <3>7
    <3> QED BY <3>8
  <2> QED BY <2>1, <2>2
<1> QED BY <1>4, <1>5

\* The sums of an answer count the rows whose number is 1.
LEMMA SumOfNumbers ==
  ASSUME NEW numbers, NEW at, IsFiniteSet(at), \A i \in at : numbers[i] \in {0, 1}
  PROVE  SumOf(numbers, at) = Cardinality({i \in at : numbers[i] = 1})
<1> DEFINE val == [i \in at |-> numbers[i]]
           P(F) == F = [s \in SUBSET at |->
                          IF s = {} THEN 0
                          ELSE Total0(numbers[CHOOSE x \in s : TRUE])
                                 + F[s \ {CHOOSE x \in s : TRUE}]]
<1>1. SumOf(numbers, at) = (CHOOSE F : P(F))[at]
  BY DEF SumOf, MapThenSumSet, MapThenFoldSet
<1>2. val \in [at -> {0, 1}]
  OBVIOUS
<1>3. ASSUME NEW s \in SUBSET at, s # {}
      PROVE  Total0(numbers[CHOOSE x \in s : TRUE]) = val[CHOOSE x \in s : TRUE]
  <2> DEFINE y == CHOOSE x \in s : TRUE
  <2>1. y \in at
    BY <1>3
  <2> HIDE DEF y
  <2>2. Total0(numbers[y]) = val[y]
    BY <2>1, TotalsAssumption DEF Total0, TotalsAssumption
  <2> QED BY <2>2 DEF y
<1> HIDE DEF val
<1>4. \A F : P(F) <=> SumsUp(F, at, val)
  BY <1>3 DEF SumsUp
<1> HIDE DEF P
<1>5. \E F : P(F)
  BY <1>2, <1>4, SumOfOnes
<1>6. P(CHOOSE F : P(F))
  BY <1>5
<1>7. (CHOOSE F : P(F))[at] = Cardinality(Ones(val, at))
  BY <1>2, <1>4, <1>6, SumOfOnes
<1>8. Ones(val, at) = {i \in at : numbers[i] = 1}
  BY DEF Ones, val
<1> QED BY <1>1, <1>7, <1>8

\* The dates of some of the rows.
DatesOf(days, at) == {days[i].date : i \in at}

\* To count rows is to count their dates.
LEMMA DatesCounted ==
  ASSUME NEW days, NEW dates, dates \subseteq Days, InOrder(days, dates),
         NEW at, at \subseteq DOMAIN days
  PROVE  /\ IsFiniteSet(at) /\ IsFiniteSet(DatesOf(days, at))
         /\ Cardinality(at) = Cardinality(DatesOf(days, at))
<1> DEFINE image == DatesOf(days, at)
           f == [i \in at |-> days[i].date]
<1>1. PICK n \in Nat : DOMAIN days = 1..n
  BY DEF InOrder
<1>2. IsFiniteSet(at)
  BY <1>1, FS_Interval, FS_Subset
<1>3. f \in Surjection(at, image)
  BY DEF Surjection, DatesOf
<1>4. f \in Injection(at, image)
  <2>1. ASSUME NEW i \in at, NEW j \in at, f[i] = f[j] PROVE i = j
    BY <2>1, DatesDiffer
  <2>2. f \in [at -> image]
    BY DEF DatesOf
  <2> HIDE DEF f
  <2> QED BY <2>1, <2>2 DEF Injection, IsInjective
<1> HIDE DEF f, image
<1>5. IsFiniteSet(image) /\ Cardinality(image) = Cardinality(at)
  BY <1>2, <1>3, <1>4, FS_Surjection
<1> QED BY <1>2, <1>5 DEF image

\* The number of some rows is between those of two sets of days, if their dates are.
LEMMA CountedBetween ==
  ASSUME NEW days, NEW dates, dates \subseteq Days, InOrder(days, dates),
         NEW at, at \subseteq DOMAIN days, NEW fewer, NEW more, IsFiniteSet(more),
         fewer \subseteq DatesOf(days, at), DatesOf(days, at) \subseteq more
  PROVE  Between(Cardinality(at), fewer, more)
<1>1. IsFiniteSet(DatesOf(days, at)) /\ Cardinality(at) = Cardinality(DatesOf(days, at))
  BY DatesCounted
<1>2. Cardinality(fewer) <= Cardinality(DatesOf(days, at))
  BY <1>1, FS_Subset
<1>3. Cardinality(DatesOf(days, at)) <= Cardinality(more)
  BY FS_Subset
<1> QED BY <1>1, <1>2, <1>3 DEF Between

\* The first row kept by a filter is one of them.
LEMMA FirstIsKept ==
  ASSUME NEW days, NEW dates, dates \subseteq Days, InOrder(days, dates),
         NEW at, at \subseteq DOMAIN days
  PROVE  IF at = {} THEN FirstDate(days, at) = None
         ELSE /\ FirstDate(days, at) # None
              /\ \E i \in at : FirstDate(days, at) = days[i].date
<1>1. CASE at = {}
  BY <1>1 DEF FirstDate
<1>2. CASE at # {}
  <2>1. at \subseteq Nat
    BY DEF InOrder
  <2> DEFINE R == OpToRel(<, Nat)
  <2>2. IsWellFoundedOn(R, Nat)
    BY NatLessThanWellFounded, Zenon
  <2>3. \A i, j \in Nat : i < j => <<i, j>> \in R
    BY DEF OpToRel
  <2> HIDE DEF R
  <2>4. PICK m \in at : \A n \in at : ~ (<<n, m>> \in R)
    BY <1>2, <2>1, <2>2, WFMin, Zenon
  <2>5. ASSUME NEW n \in at PROVE m <= n
    <3>1. n \in Nat /\ m \in Nat /\ ~ (<<n, m>> \in R)
      BY <2>1, <2>4
    <3>2. ~ (n < m)
      BY <2>3, <3>1
    <3> QED BY <3>1, <3>2
  <2>6. Min(at) \in at
    BY <2>5 DEF Min
  <2>7. days[Min(at)].date \in Nat
    BY <2>6, DaysAreNumbers DEF InOrder
  <2> QED BY <1>2, <2>6, <2>7, TotalsAssumption DEF FirstDate, TotalsAssumption
<1> QED BY <1>1, <1>2

\* The dates of an overview: the complete days that have a total, and the current day.
OverviewDates(from, to) ==
    {d \in Days : from <= d /\ d <= to /\ (d = asked.now \/ (d < asked.now /\ stored[d] # None))}

\* Its rows, in the order of these dates.
LEMMA OverviewInOrder ==
  ASSUME AnswersInv, asked # None, NEW from \in Days, NEW to \in Days
  PROVE  LET days == OverviewDays(from, to) IN
         /\ InOrder(days, OverviewDates(from, to))
         /\ \A i \in DOMAIN days :
               days[i] = IF days[i].date = asked.now THEN LiveTotal ELSE StoredTotal(days[i].date)
<1> DEFINE rows == RowsOf(from, LastStoredDay(to))
           dates == StoredDates(from, LastStoredDay(to))
           days == OverviewDays(from, to)
<1>n. asked.now \in Nat /\ asked.now \in Days /\ from \in Nat /\ to \in Nat
  BY DaysAreNumbers DEF AnswersInv, RequestTyped, Request
<1>1. /\ rows \in Seq({StoredTotal(d) : d \in Days})
      /\ InOrder(rows, dates)
      /\ \A i \in DOMAIN rows : rows[i] = StoredTotal(rows[i].date)
  BY RowsInOrder
<1>2. dates = {d \in Days : from <= d /\ d <= to /\ d < asked.now /\ stored[d] # None}
  <2>1. \A d \in Days : d <= LastStoredDay(to) <=> d <= to /\ d < asked.now
    BY <1>n, DaysAreNumbers DEF LastStoredDay
  <2> QED BY <2>1 DEF StoredDates
<1>3. LiveTotal.date = asked.now
  BY DEF LiveTotal
<1>4. \A d \in dates : d < asked.now /\ d # asked.now
  BY <1>2, <1>n, DaysAreNumbers
<1>5. \A i \in DOMAIN rows : rows[i].date # asked.now
  BY <1>1, <1>4 DEF InOrder
<1> HIDE DEF rows, dates
<1>6. CASE from <= asked.now /\ asked.now <= to
  <2>1. days = rows \o <<LiveTotal>>
    BY <1>6 DEF OverviewDays, rows
  <2>2. OverviewDates(from, to) = dates \cup {asked.now}
    BY <1>2, <1>6, <1>n DEF OverviewDates
  <2>3. /\ InOrder(days, dates \cup {asked.now})
        /\ \A i \in DOMAIN days : days[i] = LiveTotal \/ (i \in DOMAIN rows /\ days[i] = rows[i])
    BY <1>1, <1>3, <1>4, <2>1, AppendInOrder
  <2> HIDE DEF days
  <2>4. ASSUME NEW i \in DOMAIN days
        PROVE  days[i] = IF days[i].date = asked.now THEN LiveTotal ELSE StoredTotal(days[i].date)
    BY <1>1, <1>3, <1>5, <2>3
  <2> QED BY <2>2, <2>3, <2>4 DEF days
<1>7. CASE ~(from <= asked.now /\ asked.now <= to)
  <2>1. days = rows
    BY <1>1, <1>7 DEF OverviewDays, rows
  <2>2. OverviewDates(from, to) = dates
    BY <1>2, <1>7, <1>n DEF OverviewDates
  <2> HIDE DEF days
  <2>3. ASSUME NEW i \in DOMAIN days
        PROVE  days[i] = IF days[i].date = asked.now THEN LiveTotal ELSE StoredTotal(days[i].date)
    BY <1>1, <1>5, <2>1
  <2> QED BY <1>1, <2>1, <2>2, <2>3 DEF days
<1> QED BY <1>6, <1>7

\* What a row of an overview says of its day.
TrueRow(day) ==
    /\ day.sessions \in {0, 1} /\ day.conversions \in {0, 1, Null}
    /\ day.sessions = 1 => visit[day.date] # None
    /\ day.date \in certain => day.sessions = 1
    /\ day.date >= Deployment => day.measured
    /\ day.conversions = 1 => visit[day.date] # None /\ visit[day.date].converts
    /\ day.conversions # Null /\ day.date \in certain \ late /\ visit[day.date].converts =>
          day.conversions = 1

\* A stored row is that of a total which is still there, measured since perhaps.
LEMMA StoredRowIsTrue ==
  ASSUME AnswersInv, asked # None, stored # None, NEW d \in Days, d < asked.now, stored[d] # None
  PROVE  /\ TrueRow(StoredTotal(d))
         /\ stored[d].conversions # Null => stat[d] = stored[d] /\ stored[d].measured
         /\ d >= Deployment => stat[d] = stored[d] /\ stored[d].measured
<1>1. /\ stat[d] # None /\ stat[d].sessions = stored[d].sessions
      /\ IF stored[d].measured THEN stat[d] = stored[d]
         ELSE d < Deployment /\ stored[d].conversions = Null
  BY DEF AnswersInv, ReadInv, StoredIsKept
<1>2. stat[d] \in Total
  BY <1>1 DEF AnswersInv, TotalsInv, TypeOK
<1>3. stored[d].sessions \in {0, 1} /\ stored[d].conversions \in {0, 1, Null}
  BY <1>1, <1>2 DEF Total
<1>4. stored[d].sessions = 1 => visit[d] # None
  BY <1>1 DEF AnswersInv, RowsInv, TotalsAreTrue
<1>5. d \in certain => stored[d].sessions = 1
  BY <1>1 DEF AnswersInv, ReadInv, CertainIsKept
<1>6. /\ stored[d].conversions # Null => stored[d].measured /\ stat[d] = stored[d]
      /\ d >= Deployment => stored[d].measured /\ stat[d] = stored[d]
  <2>1. d \in Nat /\ Deployment \in Nat
    BY DaysAreNumbers
  <2>2. d >= Deployment => ~(d < Deployment)
    BY <2>1
  <2> QED BY <1>1, <2>2
<1>8. Null # 1
  BY TotalsAssumption DEF TotalsAssumption
<1>7. /\ stored[d].conversions = 1 => visit[d] # None /\ visit[d].converts
      /\ stored[d].conversions # Null /\ stored[d].sessions = 1 /\ visit[d].converts /\ d \notin late =>
            stored[d].conversions = 1
  BY <1>1, <1>6, <1>8 DEF AnswersInv, RowsInv, TotalsAreTrue
<1> QED BY <1>3, <1>4, <1>5, <1>6, <1>7, <1>8 DEF TrueRow, StoredTotal

\* The row of the current day is that of the rows at some instant of the request.
LEMMA LiveRowIsTrue ==
  ASSUME AnswersInv, Answered, asked.asks = "overview"
  PROVE  /\ TrueRow(LiveTotal)
         /\ LiveTotal.conversions = Null =>
               \A d \in Days : d < asked.now /\ stored[d] # None => stored[d].conversions = Null
<1>1. /\ asked # None /\ stored # None
      /\ live.visits # None /\ live.events # None /\ live.measured # None
  BY DEF Answered, Queries
<1>2. live.visits \in {0, 1} /\ live.events \in {0, 1} /\ live.measured \in BOOLEAN
  BY <1>1 DEF AnswersInv, RequestTyped, Live
<1>3. LiveIsTrue /\ LiveDay = asked.now /\ CertainIsKept
  BY <1>1 DEF AnswersInv, ReadInv, LiveDay
<1>4. Null # 1 /\ Null # 0
  BY TotalsAssumption DEF TotalsAssumption
<1>5. /\ LiveTotal.date = asked.now /\ LiveTotal.sessions = live.visits /\ LiveTotal.measured
      /\ LiveTotal.conversions = (IF live.measured THEN live.events ELSE Null)
  BY DEF LiveTotal
<1>6. \/ live.measured = TRUE /\ LiveTotal.conversions = live.events
      \/ live.measured = FALSE /\ LiveTotal.conversions = Null
  BY <1>2, <1>5
<1>7. TrueRow(LiveTotal)
  BY <1>1, <1>2, <1>3, <1>4, <1>5, <1>6 DEF TrueRow, LiveIsTrue
<1>8. LiveTotal.conversions = Null => live.measured = FALSE
  BY <1>2, <1>4, <1>6
<1> QED BY <1>3, <1>7, <1>8 DEF LiveIsTrue

\* Every row of an overview, and the order in which its conversions begin.
LEMMA OverviewRows ==
  ASSUME AnswersInv, Answered, asked.asks = "overview", NEW from \in Days, NEW to \in Days
  PROVE  LET days == OverviewDays(from, to) IN
         /\ \A i \in DOMAIN days : TrueRow(days[i]) /\ days[i].date \in Days
         /\ \A i, j \in DOMAIN days :
               days[i].conversions # Null /\ days[j].date >= days[i].date =>
                   days[j].conversions # Null
<1> DEFINE days == OverviewDays(from, to)
<1>1. asked # None /\ stored # None
  BY DEF Answered
<1>2. /\ InOrder(days, OverviewDates(from, to))
      /\ \A i \in DOMAIN days :
            days[i] = IF days[i].date = asked.now THEN LiveTotal ELSE StoredTotal(days[i].date)
  BY <1>1, OverviewInOrder
<1> HIDE DEF days
<1>3. ASSUME NEW i \in DOMAIN days
      PROVE  LET d == days[i].date IN
             /\ d \in Days
             /\ \/ d = asked.now /\ days[i] = LiveTotal
                \/ d < asked.now /\ stored[d] # None /\ days[i] = StoredTotal(d)
                   /\ days[i].conversions = stored[d].conversions
  <2>1. days[i].date \in OverviewDates(from, to)
    BY <1>2 DEF InOrder
  <2>2. \A d : StoredTotal(d).conversions = stored[d].conversions
    BY DEF StoredTotal
  <2>3. asked.now \in Nat /\ \A d \in Days : d \in Nat
    BY <1>1, DaysAreNumbers DEF AnswersInv, RequestTyped, Request
  <2> QED BY <1>2, <2>1, <2>2, <2>3 DEF OverviewDates
<1>4. \A i \in DOMAIN days : TrueRow(days[i]) /\ days[i].date \in Days
  BY <1>1, <1>3, StoredRowIsTrue, LiveRowIsTrue
<1>5. ASSUME NEW i \in DOMAIN days, NEW j \in DOMAIN days,
             days[i].conversions # Null, days[j].date >= days[i].date
      PROVE  days[j].conversions # Null
  <2> DEFINE d == days[i].date
             e == days[j].date
  <2>1. d \in Days /\ d \in Nat /\ e \in Days /\ e \in Nat /\ asked.now \in Nat
    BY <1>1, <1>3, DaysAreNumbers DEF AnswersInv, RequestTyped, Request
  <2>2. CASE d = e
    BY <1>2, <1>5, <2>2, DatesDiffer DEF OverviewDates
  <2>3. CASE d < e /\ e = asked.now
    BY <1>3, <1>5, <2>1, <2>3, LiveRowIsTrue
  <2>4. CASE d < e /\ e < asked.now
    <3>1. /\ d < asked.now /\ stored[d] # None /\ stored[d].conversions # Null
          /\ stored[e] # None /\ days[j].conversions = stored[e].conversions
      BY <1>3, <1>5, <2>1, <2>4
    <3>2. stat[d] # None /\ stat[d].measured /\ stat[d].conversions # Null
      <4>1. stat[d] = stored[d] /\ stored[d].measured
        BY <1>1, <2>1, <3>1, StoredRowIsTrue
      <4> QED BY <3>1, <4>1
    <3>3. PICK f \in 0..d : visit[f] # None /\ visit[f].converts
      BY <2>1, <3>2 DEF AnswersInv, TotalsInv, NullUntilFirstEvent
    <3>4. f \in Days /\ Deployment <= f /\ f \in 0..e /\ f # e /\ Deployment \in Nat
      BY <2>1, <2>4, <3>3, DaysAreNumbers DEF AnswersInv, TotalsInv, FormerIsKnown
    <3>5. e >= Deployment
      BY <2>1, <3>4
    <3>6. stat[e] = stored[e] /\ stored[e].measured
      BY <1>1, <2>1, <2>4, <3>1, <3>5, StoredRowIsTrue
    <3>7. stat[e].conversions # Null
      BY <2>1, <3>1, <3>3, <3>4, <3>6 DEF AnswersInv, TotalsInv, NullUntilFirstEvent
    <3> QED BY <3>1, <3>6, <3>7
  <2>5. e = asked.now \/ e < asked.now
    BY <1>3
  <2> HIDE DEF d, e
  <2>6. d = e \/ d < e
    BY <1>5, <2>1 DEF d, e
  <2> QED BY <2>2, <2>3, <2>4, <2>5, <2>6
<1> QED BY <1>4, <1>5 DEF days

\* The numbers of an overview count its rows, and its dates are theirs.
LEMMA OverviewCounts ==
  ASSUME AnswersInv, Answered, asked.asks = "overview", NEW from \in Days, NEW to \in Days
  PROVE  LET days == OverviewDays(from, to)
             overview == Overview(from, to)
             engaged == {i \in DOMAIN days : days[i].measured}
             converted == {i \in DOMAIN days : days[i].conversions # Null}
         IN  /\ overview.sessions = Cardinality({i \in DOMAIN days : days[i].sessions = 1})
             /\ overview.measuredSessions = Cardinality({i \in engaged : days[i].sessions = 1})
             /\ overview.measuredSince = FirstDate(days, engaged)
             /\ overview.conversions = Cardinality({i \in converted : days[i].conversions = 1})
             /\ overview.convertedSince = FirstDate(days, converted)
             /\ overview.detailSince = IF from > OldestRawDay THEN from ELSE OldestRawDay
<1> DEFINE days == OverviewDays(from, to)
           sessions == [i \in DOMAIN days |-> days[i].sessions]
           conversions == [i \in DOMAIN days |-> days[i].conversions]
           engaged == {i \in DOMAIN days : days[i].measured}
           converted == {i \in DOMAIN days : days[i].conversions # Null}
<1>1. InOrder(days, OverviewDates(from, to)) /\ OverviewDates(from, to) \subseteq Days
  BY OverviewInOrder DEF Answered, OverviewDates
<1>2. \A i \in DOMAIN days : TrueRow(days[i])
  BY OverviewRows
<1>3. Overview(from, to) =
        [sessions |-> SumOf(sessions, DOMAIN days),
         measuredSessions |-> SumOf(sessions, engaged),
         measuredSince |-> FirstDate(days, engaged),
         conversions |-> SumOf(conversions, converted),
         convertedSince |-> FirstDate(days, converted),
         detailSince |-> IF from > OldestRawDay THEN from ELSE OldestRawDay]
  BY DEF Overview
<1> HIDE DEF days
<1>4. IsFiniteSet(DOMAIN days) /\ IsFiniteSet(engaged) /\ IsFiniteSet(converted)
  BY <1>1, DatesCounted
<1>5. SumOf(sessions, DOMAIN days)
        = Cardinality({i \in DOMAIN days : days[i].sessions = 1})
  <2>1. \A i \in DOMAIN days : sessions[i] = days[i].sessions /\ sessions[i] \in {0, 1}
    BY <1>2 DEF TrueRow
  <2>2. {i \in DOMAIN days : sessions[i] = 1} = {i \in DOMAIN days : days[i].sessions = 1}
    BY <2>1
  <2> HIDE DEF sessions
  <2> QED BY <1>4, <2>1, <2>2, SumOfNumbers
<1>6. SumOf(sessions, engaged)
        = Cardinality({i \in engaged : days[i].sessions = 1})
  <2>1. \A i \in engaged : sessions[i] = days[i].sessions /\ sessions[i] \in {0, 1}
    BY <1>2 DEF TrueRow
  <2>2. {i \in engaged : sessions[i] = 1} = {i \in engaged : days[i].sessions = 1}
    BY <2>1
  <2> HIDE DEF sessions, engaged
  <2> QED BY <1>4, <2>1, <2>2, SumOfNumbers
<1>7. SumOf(conversions, converted)
        = Cardinality({i \in converted : days[i].conversions = 1})
  <2>1. \A i \in converted : conversions[i] = days[i].conversions /\ conversions[i] \in {0, 1}
    BY <1>2 DEF TrueRow
  <2>2. {i \in converted : conversions[i] = 1} = {i \in converted : days[i].conversions = 1}
    BY <2>1
  <2> HIDE DEF conversions, converted
  <2> QED BY <1>4, <2>1, <2>2, SumOfNumbers
<1> HIDE DEF sessions, conversions, engaged, converted
<1> QED BY <1>3, <1>5, <1>6, <1>7 DEF days, engaged, converted

\* The days that were certain, by the rows of their dates.
LEMMA CertainAreShown ==
  ASSUME AnswersInv, Answered, asked.asks = "overview", NEW from \in Days, NEW to \in Days,
         NEW d \in certain, from <= d, d <= to
  PROVE  \E i \in DOMAIN OverviewDays(from, to) : OverviewDays(from, to)[i].date = d
<1>1. asked # None /\ stored # None
  BY DEF Answered
<1>2. InOrder(OverviewDays(from, to), OverviewDates(from, to))
  BY <1>1, OverviewInOrder
<1>3. d \in OverviewDates(from, to)
  BY <1>1 DEF AnswersInv, RequestTyped, ReadInv, CertainIsKept, OverviewDates
<1> QED BY <1>2, <1>3 DEF InOrder

\* An overview of every range tells the truth, whatever midnight, the job and the
\* visits did between its queries, whatever was purged, missed or measured late.
THEOREM OverviewAlwaysTrue == StatSpec => []OverviewIsTrue
<1> SUFFICES ASSUME AnswersInv, Answered, asked.asks = "overview",
                    NEW from \in Days, NEW to \in Days
             PROVE  /\ CountedOnce(from, to, Overview(from, to))
                    /\ NoGapSince(from, to, Overview(from, to))
                    /\ RatesAreWhole(to, Overview(from, to))
                    /\ DetailKept(to, Overview(from, to))
  <2>1. AnswersInv => OverviewIsTrue
    BY DEF OverviewIsTrue
  <2> QED BY <2>1, AnswersInvariant, PTL
<1> DEFINE days == OverviewDays(from, to)
           overview == Overview(from, to)
           engaged == {i \in DOMAIN days : days[i].measured}
           converted == {i \in DOMAIN days : days[i].conversions # Null}
<1>1. InOrder(days, OverviewDates(from, to)) /\ OverviewDates(from, to) \subseteq Days
  BY OverviewInOrder DEF Answered, OverviewDates
<1>2. /\ \A i \in DOMAIN days : TrueRow(days[i]) /\ days[i].date \in Days
      /\ \A i, j \in DOMAIN days :
            days[i].conversions # Null /\ days[j].date >= days[i].date =>
                days[j].conversions # Null
  BY OverviewRows
<1>3. \A d \in certain : from <= d /\ d <= to => \E i \in DOMAIN days : days[i].date = d
  BY CertainAreShown
<1>4. /\ overview.sessions = Cardinality({i \in DOMAIN days : days[i].sessions = 1})
      /\ overview.measuredSessions = Cardinality({i \in engaged : days[i].sessions = 1})
      /\ overview.measuredSince = FirstDate(days, engaged)
      /\ overview.conversions = Cardinality({i \in converted : days[i].conversions = 1})
      /\ overview.convertedSince = FirstDate(days, converted)
      /\ overview.detailSince = IF from > OldestRawDay THEN from ELSE OldestRawDay
  BY OverviewCounts
<1>5. \A i \in DOMAIN days : from <= days[i].date /\ days[i].date <= to
  BY <1>1 DEF InOrder, OverviewDates
<1>n. /\ from \in Nat /\ to \in Nat /\ today \in Nat /\ today \in Days /\ asked.now \in Nat
      /\ certain \subseteq Days /\ Days \subseteq Nat
  BY DaysAreNumbers DEF AnswersInv, RequestTyped, Request, TotalsInv, TypeOK, Answered
<1>f. IsFiniteSet(Visited(from, to)) /\ IsFiniteSet(Converted(from, to))
  <2>1. Visited(from, to) \subseteq from..to /\ Converted(from, to) \subseteq from..to
    BY DEF Visited, Converted
  <2>2. IsFiniteSet(from..to)
    BY <1>n, FS_Interval
  <2> QED BY <2>1, <2>2, FS_Subset
<1> HIDE DEF days, overview
<1>6. CountedOnce(from, to, overview)
  <2> DEFINE at == {i \in DOMAIN days : days[i].sessions = 1}
  <2>1. ASSUME NEW d \in certain \cap (from..to) PROVE d \in DatesOf(days, at)
    <3>1. PICK i \in DOMAIN days : days[i].date = d
      BY <1>3, <1>n
    <3> QED BY <1>2, <3>1 DEF TrueRow, DatesOf
  <2>2. ASSUME NEW d \in DatesOf(days, at) PROVE d \in Visited(from, to)
    <3>1. PICK i \in at : d = days[i].date
      BY <2>2 DEF DatesOf
    <3>2. d \in Nat /\ from <= d /\ d <= to /\ visit[d] # None
      BY <1>2, <1>5, <1>n, <3>1 DEF TrueRow
    <3> QED BY <1>n, <3>2 DEF Visited
  <2>3. at \subseteq DOMAIN days
    OBVIOUS
  <2>4. overview.sessions = Cardinality(at)
    BY <1>4
  <2> HIDE DEF at
  <2>5. Between(Cardinality(at), certain \cap (from..to), Visited(from, to))
    BY <1>1, <1>f, <2>1, <2>2, <2>3, CountedBetween
  <2> QED BY <2>4, <2>5 DEF CountedOnce
<1>7. NoGapSince(from, to, overview)
  <2> DEFINE since == overview.convertedSince
             at == {i \in converted : days[i].conversions = 1}
  <2>1. at \subseteq DOMAIN days /\ converted \subseteq DOMAIN days
    OBVIOUS
  <2>2. IF converted = {} THEN since = None
        ELSE since # None /\ \E i \in converted : since = days[i].date
    <3>1. since = FirstDate(days, converted)
      BY <1>4
    <3> HIDE DEF converted, since
    <3> QED BY <1>1, <2>1, <3>1, FirstIsKept
  <2>3. CASE since = None
    <3>1. at = {}
      BY <2>2, <2>3
    <3>2. Cardinality(at) = 0
      BY <3>1, FS_EmptySet
    <3>3. overview.conversions = 0
      BY <1>4, <3>2
    <3> QED BY <2>3, <3>3 DEF NoGapSince
  <2>4. CASE since # None
    <3>1. PICK m \in DOMAIN days : days[m].conversions # Null /\ since = days[m].date
      BY <2>2, <2>4
    <3>2. since \in Nat /\ from <= since
      BY <1>2, <1>5, <1>n, <3>1
    <3> HIDE DEF since
    <3>3. \A i \in DOMAIN days : days[i].date >= since => days[i].conversions # Null
      BY <1>2, <3>1
    <3>4. ASSUME NEW d \in (certain \ late) \cap Converted(since, to) PROVE d \in DatesOf(days, at)
      <4>1. d \in certain \ late /\ d \in Nat /\ since <= d /\ d <= to /\ visit[d].converts
        BY <1>n, <3>2 DEF Converted, Visited
      <4>2. from <= d
        BY <1>n, <3>2, <4>1
      <4>3. PICK i \in DOMAIN days : days[i].date = d
        BY <1>3, <4>1, <4>2
      <4>4. days[i].conversions # Null
        BY <1>n, <3>2, <3>3, <4>1, <4>3
      <4>5. days[i].conversions = 1
        BY <1>2, <4>1, <4>3, <4>4 DEF TrueRow
      <4> QED BY <4>3, <4>4, <4>5 DEF DatesOf
    <3>5. ASSUME NEW d \in DatesOf(days, at) PROVE d \in Converted(from, to)
      <4>1. PICK i \in at : d = days[i].date
        BY DEF DatesOf
      <4>2. d \in Nat /\ from <= d /\ d <= to /\ visit[d] # None /\ visit[d].converts
        BY <1>2, <1>5, <1>n, <4>1 DEF TrueRow
      <4> QED BY <1>n, <4>2 DEF Converted, Visited
    <3>6. overview.conversions = Cardinality(at)
      BY <1>4
    <3> HIDE DEF at
    <3>7. Between(Cardinality(at), (certain \ late) \cap Converted(since, to), Converted(from, to))
      BY <1>1, <1>f, <2>1, <3>4, <3>5, CountedBetween
    <3> QED BY <2>4, <3>3, <3>6, <3>7 DEF NoGapSince, since, days
  <2> QED BY <2>3, <2>4
<1>8. RatesAreWhole(to, overview)
  <2> DEFINE since == overview.measuredSince
             at == {i \in engaged : days[i].sessions = 1}
  <2>1. at \subseteq DOMAIN days /\ engaged \subseteq DOMAIN days
    OBVIOUS
  <2>2. SUFFICES ASSUME since # None, since >= Deployment
                 PROVE  Cardinality(certain \cap (since..to)) <= overview.measuredSessions
    <3>1. IsFiniteSet(at)
      BY <1>1, <2>1, DatesCounted
    <3>2. overview.measuredSessions \in Nat
      BY <1>4, <3>1, FS_CardinalityType
    <3>3. Cardinality(certain \cap (since..to)) \in Nat
      <4>1. certain \cap (since..to) \subseteq Days
        BY <1>n
      <4>2. IsFiniteSet(Days)
        BY FS_Interval, TotalsAssumption DEF Days, TotalsAssumption
      <4> QED BY <4>1, <4>2, FS_Subset, FS_CardinalityType
    <3> QED BY <2>2, <3>2, <3>3 DEF RatesAreWhole
  <2>3. since \in Nat /\ from <= since
    <3>1. PICK m \in DOMAIN days : since = days[m].date
      <4>1. since = FirstDate(days, engaged)
        BY <1>4
      <4> HIDE DEF engaged, since
      <4> QED BY <1>1, <2>1, <2>2, <4>1, FirstIsKept
    <3> QED BY <1>2, <1>5, <1>n, <3>1
  <2> HIDE DEF since
  <2>4. ASSUME NEW d \in certain \cap (since..to) PROVE d \in DatesOf(days, at)
    <3>1. d \in certain /\ d \in Nat /\ from <= d /\ d <= to /\ d >= Deployment
      BY <1>n, <2>2, <2>3, DaysAreNumbers
    <3>2. PICK i \in DOMAIN days : days[i].date = d
      BY <1>3, <3>1
    <3>3. days[i].sessions = 1 /\ days[i].measured
      BY <1>2, <3>1, <3>2 DEF TrueRow
    <3> QED BY <3>2, <3>3 DEF DatesOf
  <2>5. overview.measuredSessions = Cardinality(at)
    BY <1>4
  <2> HIDE DEF at
  <2>6. IsFiniteSet(DatesOf(days, at)) /\ Cardinality(at) = Cardinality(DatesOf(days, at))
    BY <1>1, <2>1, DatesCounted
  <2> QED BY <2>4, <2>5, <2>6, FS_Subset
<1>9. DetailKept(to, overview)
  <2> DEFINE since == overview.detailSince
  <2>1. SUFFICES ASSUME today = asked.now, NEW d \in Visited(since, to), visit[d].at = "later"
                 PROVE  /\ d \in VisitsListed(since, to)
                        /\ visit[d].converts => d \in EventsListed(since, to) \cap Timeline
    BY DEF DetailKept
  <2>r. /\ Retention \in Nat /\ RawRetention \in Nat /\ TimelineDays \in Nat
        /\ RawRetention <= Retention /\ RawRetention <= TimelineDays
    BY TotalsAssumption, RequestAssumption DEF TotalsAssumption, RequestAssumption
  <2>2. since \in Nat /\ OldestRawDay \in Nat /\ since >= OldestRawDay
    BY <1>4, <1>n, <2>r DEF OldestRawDay, Max0
  <2>3. today <= OldestRawDay + Retention
    BY <1>n, <2>1, <2>r DEF OldestRawDay, Max0
  <2> HIDE DEF since
  <2>4. d \in Nat /\ since <= d /\ d <= to /\ visit[d] # None
    BY <1>n, <2>2 DEF Visited
  <2>5. d \in Days
    BY <1>n, <2>4, DaysAreNumbers
  <2>6. ~Old(today, d) /\ BeforeEnd(d)
    BY <1>n, <2>1, <2>2, <2>3, <2>4, TotalsAssumption DEF Old, BeforeEnd, TotalsAssumption
  <2>7. d \in viewKept /\ (visit[d].converts => d \in eventKept) /\ d <= today
    BY <2>4, <2>5, <2>6 DEF AnswersInv, RowsInv, RowsAreOld
  <2>8. Max0(today, TimelineDays) <= d
    BY <1>n, <2>1, <2>2, <2>4, <2>r DEF OldestRawDay, Max0
  <2> QED BY <2>4, <2>6, <2>7, <2>8 DEF VisitsListed, EventsListed, Timeline, InRange
<1> QED BY <1>6, <1>7, <1>8, <1>9 DEF overview

\* A point is between the visits of its day that were certain and all of them.
LEMMA PointBetween ==
  ASSUME NEW n \in {0, 1}, NEW d \in Days, certain \subseteq Days,
         n = 1 => visit[d] # None, d \in certain => n = 1
  PROVE  Between(n, certain \cap {d}, Visited(d, d))
<1>1. d \in Nat /\ d..d = {d}
  BY DaysAreNumbers
<1>2. Visited(d, d) = IF visit[d] # None THEN {d} ELSE {}
  BY <1>1 DEF Visited
<1>3. certain \cap {d} = IF d \in certain THEN {d} ELSE {}
  OBVIOUS
<1>4. Cardinality({d}) = 1 /\ Cardinality({}) = 0
  BY FS_Singleton, FS_EmptySet
<1> QED BY <1>2, <1>3, <1>4 DEF Between

\* A chart has one point a day, and that of the day, whatever happens between its
\* two queries, unless midnight falls there.
THEOREM ChartAlwaysTrue == StatSpec => []ChartIsTrue
<1> SUFFICES ASSUME AnswersInv, Answered, asked.asks = "chart", NEW from \in Days, NEW to \in Days
             PROVE  LET points == Chart(from, to) IN
                    /\ \A i, j \in DOMAIN points : points[i].date = points[j].date => i = j
                    /\ \A i \in DOMAIN points :
                          live.of = asked.now \/ points[i].date # asked.now =>
                              Between(points[i].sessions, certain \cap {points[i].date},
                                      Visited(points[i].date, points[i].date))
  <2>1. AnswersInv => ChartIsTrue
    BY DEF ChartIsTrue
  <2> QED BY <2>1, AnswersInvariant, PTL
<1> DEFINE rows == RowsOf(from, LastChartDay(to))
           dates == StoredDates(from, LastChartDay(to))
           points == Chart(from, to)
           livePoint == [date |-> asked.now, sessions |-> live.visits]
           Right(point) ==
              /\ point.date \in Days
              /\ live.of = asked.now \/ point.date # asked.now =>
                    Between(point.sessions, certain \cap {point.date},
                            Visited(point.date, point.date))
<1>1. /\ asked # None /\ stored # None /\ live.visits # None
      /\ AskedLately /\ CertainIsKept /\ StoredIsKept /\ LiveIsTrue
  BY DEF Answered, AnswersInv, ReadInv
<1>n. /\ asked.now \in Nat /\ asked.now \in Days /\ from \in Nat /\ to \in Nat
      /\ today \in Nat /\ today \in Days /\ certain \subseteq Days /\ live.visits \in {0, 1}
  BY <1>1, DaysAreNumbers DEF AnswersInv, RequestTyped, Request, Live, TotalsInv, TypeOK
<1>2. /\ rows \in Seq({StoredTotal(d) : d \in Days})
      /\ InOrder(rows, dates)
      /\ \A i \in DOMAIN rows : rows[i] = StoredTotal(rows[i].date)
  BY RowsInOrder
<1>3. ASSUME NEW d \in dates PROVE Right(StoredTotal(d))
  <2>1. d \in Days /\ d \in Nat /\ stored[d] # None
    BY DaysAreNumbers DEF StoredDates
  <2>2. StoredTotal(d).date = d /\ StoredTotal(d).sessions = stored[d].sessions
    BY DEF StoredTotal
  <2>3. CASE d < asked.now
    <3>1. TrueRow(StoredTotal(d))
      BY <1>1, <2>1, <2>3, StoredRowIsTrue
    <3>2. /\ stored[d].sessions \in {0, 1}
          /\ stored[d].sessions = 1 => visit[d] # None
          /\ d \in certain => stored[d].sessions = 1
      BY <2>2, <3>1 DEF TrueRow
    <3> QED BY <1>n, <2>1, <2>2, <3>2, PointBetween
  <2>4. CASE d = asked.now
    BY <1>1, <2>1, <2>2, <2>4 DEF LiveIsTrue
  <2>5. ~(d > asked.now)
    <3>1. stat[d] # None
      BY <1>1, <2>1 DEF StoredIsKept
    <3>2. d < today
      BY <1>n, <2>1, <3>1 DEF AnswersInv, TotalsInv, NotWrittenYet
    <3> QED BY <1>1, <1>n, <2>1, <3>2 DEF AskedLately
  <2> QED BY <1>n, <2>1, <2>3, <2>4, <2>5
<1>4. Right(livePoint)
  <2>1. livePoint.date = asked.now /\ livePoint.sessions = live.visits
    OBVIOUS
  <2>2. ASSUME live.of = asked.now
        PROVE  /\ live.visits = 1 => visit[asked.now] # None
               /\ asked.now \in certain => live.visits = 1
    <3>1. LiveDay = asked.now
      BY <2>2 DEF LiveDay
    <3> QED BY <1>1, <3>1 DEF LiveIsTrue
  <2>3. ASSUME live.of = asked.now
        PROVE  Between(live.visits, certain \cap {asked.now}, Visited(asked.now, asked.now))
    BY <1>n, <2>2, <2>3, PointBetween
  <2> QED BY <1>n, <2>1, <2>3
<1> HIDE DEF Right, rows, livePoint
<1>5. \E all \in SUBSET Days :
         InOrder(points, all) /\ \A i \in DOMAIN points : Right(points[i])
  <2>1. \A i \in DOMAIN rows : Right(rows[i])
    BY <1>2, <1>3 DEF InOrder
  <2>2. CASE to = asked.now
    <3>1. points = rows \o <<livePoint>>
      BY <2>2 DEF Chart, rows, livePoint
    <3>2. livePoint.date = asked.now
      BY DEF livePoint
    <3>3. \A d \in dates : d < asked.now
      <4>1. \A d \in Days : d <= LastChartDay(to) => d < asked.now
        BY <1>n, <2>2, DaysAreNumbers DEF LastChartDay
      <4> QED BY <4>1 DEF StoredDates
    <3> DEFINE T == {StoredTotal(d) : d \in Days}
    <3>t. rows \in Seq(T) /\ InOrder(rows, dates)
      BY <1>2
    <3> HIDE DEF dates, points, T
    <3>4. /\ InOrder(points, dates \cup {asked.now})
          /\ \A i \in DOMAIN points : points[i] = livePoint \/ (i \in DOMAIN rows /\ points[i] = rows[i])
      BY <3>1, <3>2, <3>3, <3>t, AppendInOrder
    <3>5. dates \cup {asked.now} \subseteq Days
      BY <1>n, <3>2 DEF dates, StoredDates
    <3>6. \A i \in DOMAIN points : Right(points[i])
      BY <1>4, <2>1, <3>4
    <3> QED BY <3>4, <3>5, <3>6
  <2>3. CASE to # asked.now
    <3>1. points = rows
      BY <1>2, <2>3 DEF Chart, rows
    <3>2. dates \subseteq Days
      BY DEF StoredDates
    <3> QED BY <1>2, <2>1, <3>1, <3>2
  <2> QED BY <2>2, <2>3
<1> HIDE DEF points
<1>6. \A i, j \in DOMAIN points : points[i].date = points[j].date => i = j
  BY <1>5, DatesDiffer
<1> QED BY <1>5, <1>6 DEF Right, points
=============================================================================
