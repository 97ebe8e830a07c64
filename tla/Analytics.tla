----------------------------- MODULE Analytics -----------------------------
(***************************************************************************)
(* The statistics over reports (ReportService) and registrations           *)
(* (UserService.getUserTrendStats): how a request for some days or months  *)
(* becomes buckets, and the rows each of them counts.                      *)
(*                                                                         *)
(* Time has three instants a day: its start, its last millisecond, and one *)
(* in what is left of it after that, which a datetime(6) column keeps and  *)
(* a JavaScript Date does not.  Months have equal lengths; the time zone   *)
(* moves every instant alike and is left out, as are the limits on the     *)
(* number of buckets and of lines.                                         *)
(***************************************************************************)
EXTENDS Integers, Sequences, FiniteSets, FiniteSetsExt

CONSTANTS
    Reporters,     \* users
    MessageTypes,
    DaysPerMonth,
    LastDay,       \* bound: days
    MaxReports     \* bound: reports

ASSUME AnalyticsBounds == {DaysPerMonth, LastDay, MaxReports} \subseteq Nat \ {0}
ASSUME ReportersAssumption == IsFiniteSet(Reporters)

VARIABLES
    clock,     \* the current instant
    reports,   \* report rows, in order of insertion
    joined     \* createdAt of each user, Never before it registers

analyticsVars == <<clock, reports, joined>>

-----------------------------------------------------------------------------
PerDay == 3
Span(unit) == IF unit = "day" THEN PerDay ELSE PerDay * DaysPerMonth
Instants == 0 .. PerDay * (LastDay + 1) - 1
NotYet == -1

Report == [at : Instants, by : Reporters, type : MessageTypes]

\* startOf and endOf of dayjs; toDate of a column.
StartOf(t, unit) == t - (t % Span(unit))
LastMilli(t, unit) == StartOf(t, unit) + Span(unit) - 2
AsDate(t) == IF t % PerDay = PerDay - 1 THEN t - 1 ELSE t

\* What can be asked for: the days, or the months, by their first instant.
Dates(unit) == {t \in Instants : t % Span(unit) = 0}

\* parseBoundary, and the swap of a range given from late to early.
Boundaries(unit, from, to) ==
    LET s == StartOf(from, unit)
        e == LastMilli(to, unit)
    IN IF s > e THEN <<e, s>> ELSE <<s, e>>

ReportsBetween(s, e) == {i \in DOMAIN reports : s <= reports[i].at /\ reports[i].at <= e}
JoinedBetween(s, e) == {u \in Reporters : s <= joined[u] /\ joined[u] <= e}

-----------------------------------------------------------------------------
(* ReportService *)

\* Mutant: the unit the end falls in is left out when it starts there.
MutBucketsFromRange(unit, s, e) == {c \in StartOf(s, unit) .. e : c \in Dates(unit) /\ c < e}
\* buildBucketsFromRange: whole units, from the one `s` is in to the one `e` is in.
BucketsFromRange(unit, s, e) ==
    {c \in StartOf(s, unit) .. e : c % Span(unit) = 0 /\ (c < e \/ StartOf(c, unit) = StartOf(e, unit))}

\* buildTrendBuckets: so many days, today the last.
TrendBuckets(days) == {StartOf(clock, "day") - PerDay * k : k \in 0 .. days - 1}

\* One query over all buckets; each row goes to the bucket its date falls in.
CountInto(unit, buckets) ==
    LET rows == ReportsBetween(Min(buckets), LastMilli(Max(buckets), unit))
    IN [c \in buckets |-> Cardinality({i \in rows : StartOf(AsDate(reports[i].at), unit) = c})]

GetTrend(unit, from, to) ==
    LET b == Boundaries(unit, from, to) IN CountInto(unit, BucketsFromRange(unit, b[1], b[2]))
GetRecentTrend(days) == CountInto("day", TrendBuckets(days))

\* resolveRequestedRange: dates in any order, whole days.
RequestedRange(from, to) ==
    ReportsBetween(StartOf(Min({from, to}), "day"), LastMilli(Max({from, to}), "day"))

\* getSummary: the reports of a range, or of so many days.
RecentReports(from, to) == Cardinality(RequestedRange(from, to))
ReportsOfLastDays(days) ==
    Cardinality(ReportsBetween(StartOf(clock, "day") - PerDay * (days - 1), LastMilli(clock, "day")))
UniqueReporters(from, to) == Cardinality({reports[i].by : i \in RequestedRange(from, to)})

GetMessageTypeDistribution(from, to) ==
    LET rows == RequestedRange(from, to)
    IN [t \in {reports[i].type : i \in rows} |-> Cardinality({i \in rows : reports[i].type = t})]

GetReporterLeaderboard(from, to) ==
    LET rows == RequestedRange(from, to)
    IN [u \in {reports[i].by : i \in rows} |-> Cardinality({i \in rows : reports[i].by = u})]

\* save inserts the report and its categories in one transaction.
CreateReport == \E u \in Reporters, t \in MessageTypes :
    /\ Len(reports) < MaxReports
    /\ joined[u] # NotYet
    /\ reports' = Append(reports, [at |-> clock, by |-> u, type |-> t])
    /\ UNCHANGED <<clock, joined>>

-----------------------------------------------------------------------------
(* UserService *)

\* buildBuckets: the first bucket starts at `s`, the others whole units later;
\* each is counted by a query of its own, to the last millisecond of its unit.
UserBuckets(unit, s, e) ==
    {c \in s .. e + Span(unit) : /\ (c - s) % Span(unit) = 0
                                 /\ c < e \/ StartOf(c, unit) = StartOf(e, unit)}

GetUserTrend(unit, from, to) ==
    LET b == Boundaries(unit, from, to)
    IN [c \in UserBuckets(unit, b[1], b[2]) |-> Cardinality(JoinedBetween(c, LastMilli(c, unit)))]

JoinUser == \E u \in Reporters :
    /\ joined[u] = NotYet
    /\ joined' = [joined EXCEPT ![u] = clock]
    /\ UNCHANGED <<clock, reports>>

TimePasses ==
    /\ clock + 1 \in Instants
    /\ clock' = clock + 1
    /\ UNCHANGED <<reports, joined>>

-----------------------------------------------------------------------------
AnalyticsInit ==
    /\ clock = 0
    /\ reports = <<>>
    /\ joined = [u \in Reporters |-> NotYet]

AnalyticsNext == CreateReport \/ JoinUser \/ TimePasses

AnalyticsSpec == AnalyticsInit /\ [][AnalyticsNext]_analyticsVars

-----------------------------------------------------------------------------
(* Properties *)

AnalyticsTypeOK ==
    /\ clock \in Instants
    /\ reports \in Seq(Report) /\ Len(reports) <= MaxReports
    /\ joined \in [Reporters -> Instants \cup {NotYet}]

(***************************************************************************)
(* The figures shown side by side agree: for any two days, in any order,   *)
(* the daily trend adds up to the number of reports of the summary, and so *)
(* do the message types and the reporters, whose number is that of the     *)
(* summary; a monthly trend adds up to the reports of its months; the      *)
(* default trend to the default summary of as many days (getTrend,         *)
(* getSummary, getMessageTypeDistribution, getReporterLeaderboard).        *)
(* A trend of registrations, from an early date to a later one, counts     *)
(* every user of the range but those who came after the last millisecond   *)
(* of a bucket (getUserTrendStats).                                        *)
(***************************************************************************)
TrendsAddUp ==
    (reports # <<>> \/ \E u \in Reporters : joined[u] # NotYet) =>
    /\ \A from, to \in Dates("day") :
        /\ SumFunction(GetTrend("day", from, to)) = RecentReports(from, to)
        /\ SumFunction(GetMessageTypeDistribution(from, to)) = RecentReports(from, to)
        /\ SumFunction(GetReporterLeaderboard(from, to)) = RecentReports(from, to)
        /\ Cardinality(DOMAIN GetReporterLeaderboard(from, to)) = UniqueReporters(from, to)
    /\ \A from, to \in Dates("month") :
        SumFunction(GetTrend("month", from, to))
        = Cardinality(ReportsBetween(Min({from, to}), LastMilli(Max({from, to}), "month")))
    /\ \A days \in 3 .. LastDay + 1 : SumFunction(GetRecentTrend(days)) = ReportsOfLastDays(days)
    /\ \A unit \in {"day", "month"} : \A from, to \in Dates(unit) : from <= to =>
        SumFunction(GetUserTrend(unit, from, to))
        = Cardinality({u \in JoinedBetween(from, LastMilli(to, unit)) :
                          joined[u] <= LastMilli(joined[u], unit)})
=============================================================================
