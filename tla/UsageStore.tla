----------------------------- MODULE UsageStore -----------------------------
(* What the gateway keeps about finished calls: the rows of request_events    *)
(* and security_events, the hourly usage_buckets and the process's own        *)
(* metrics (src/store/sqlite.rs, sqlite_aggregation.rs, events.rs,            *)
(* retention.rs; src/observability).  Recording a call counts it in the       *)
(* metrics, then inserts the row, then adds to the bucket: two awaited        *)
(* writes, each of which may fail or never happen because the task is dropped.*)
(*                                                                            *)
(* Timestamps are compared by SQLite as the text chrono writes: whole seconds *)
(* of fixed width, a fraction that is left out, or has as many groups of      *)
(* digits as it needs, and the zone "+00:00".  An instant is a number of      *)
(* ticks; a text is the sequence of its character codes.                      *)
EXTENDS Integers, Sequences, FiniteSets, FiniteSetsExt, SequencesExt

CONSTANTS UsWriters,     \* calls that end and are recorded, each once
          UsEvents,      \* what they may record: records of table, key, kind, name, status
          UsTimes,       \* the instants of the clock
          SecondTicks, HourTicks, DayTicks,
          UsFilters,     \* query filters: from, to (-1 absent) and key ("any")
          UsLimits       \* page sizes

ASSUME TicksAssumption ==
    /\ UsTimes \subseteq Nat /\ 0 \in UsTimes
    /\ SecondTicks = 4 /\ HourTicks \in Nat \ {0} /\ DayTicks \in Nat
    /\ HourTicks % SecondTicks = 0 /\ DayTicks % HourTicks = 0

UsTables == {"request_events", "security_events"}
UsStatuses == {"success", "upstream_error", "timeout", "connection_failed", "limited"}
ASSUME RecordsAssumption ==
    /\ IsFiniteSet(UsWriters) /\ UsEvents # {} /\ UsLimits \subseteq Nat
    /\ \A e \in UsEvents : e.table \in UsTables /\ e.status \in UsStatuses
    /\ \A f \in UsFilters : f.from \in Int /\ f.to \in Int

VARIABLES usNow, usDays,   \* the clock; request_event_retention_days
          usPc, usEvent,   \* the task of each writer and the event it records
          usRows,          \* rows of both tables
          usBuckets,       \* bucket key -> counters
          usMetrics,       \* status label -> asterlane_responses_total
          usPosted,        \* the writers whose bucket write has succeeded
          usClean          \* no write failed, no task dropped, no row purged

usVars == <<usNow, usDays, usPc, usEvent, usRows, usBuckets, usMetrics, usPosted, usClean>>

----------------------------------------------------------------------------
(* Timestamps as text.                                                        *)

Plus == 43
Point == 46
Digit(n) == 48 + n

\* A fraction has no digits, one group or two, whichever is exact.
Fraction(n) ==
    IF n = 0 THEN << >>
    ELSE IF n % 2 = 0 THEN <<Point, Digit(n \div 2)>>
    ELSE <<Point, Digit(n \div 2), Digit(n % 2)>>

to_rfc3339(t) == <<Digit(t \div SecondTicks)>> \o Fraction(t % SecondTicks) \o <<Plus>>

TextBefore(a, b) ==
    \/ Len(a) < Len(b) /\ IsPrefix(a, b)
    \/ \E i \in 1..Len(a) : /\ i <= Len(b) /\ a[i] < b[i]
                            /\ \A j \in 1..(i - 1) : a[j] = b[j]

bucket_start(t) == (t \div HourTicks) * HourTicks

----------------------------------------------------------------------------
(* Events, buckets and metrics.                                               *)

status_label(status) ==
    CASE status = "success" -> "200"
      [] status = "upstream_error" -> "502"
      [] status \in {"timeout", "connection_failed"} -> "0"
      [] status = "limited" -> "429"
UsLabels == {"200", "502", "0", "429"}

is_error(e) == e.status # "success"
Request(e) == e.table = "request_events"

BucketKey(e, t) == [start |-> bucket_start(t), key |-> e.key, name |-> e.name,
                    status |-> status_label(e.status)]
from_event(e) == [requests |-> 1, errors |-> IF is_error(e) THEN 1 ELSE 0]

upsert_bucket(buckets, k, c) ==
    [x \in DOMAIN buckets \cup {k} |->
        IF x # k THEN buckets[x]
        ELSE IF k \notin DOMAIN buckets THEN c
        ELSE [requests |-> buckets[k].requests + c.requests, errors |-> buckets[k].errors + c.errors]]

record_request_event(metrics, e) == [metrics EXCEPT ![status_label(e.status)] = @ + 1]

----------------------------------------------------------------------------
(* Queries.                                                                   *)

Row(w) == [id |-> w, t |-> usEvent[w].t, at |-> to_rfc3339(usEvent[w].t), event |-> usEvent[w].event]

\* WHERE of list_events and of the aggregations: half open, compared as text.
Matches(r, f) ==
    /\ f.key = "any" \/ r.event.key = f.key
    /\ f.from >= 0 => ~TextBefore(r.at, to_rfc3339(f.from))
    /\ f.to >= 0 => TextBefore(r.at, to_rfc3339(f.to))

Selected(table, f) == {r \in usRows : r.event.table = table /\ Matches(r, f)}

\* LIMIT: the pages of a result, before ORDER BY says which it may be.
Limited(rows, limit) ==
    {page \in SUBSET rows :
        Cardinality(page) = (IF limit < Cardinality(rows) THEN limit ELSE Cardinality(rows))}

\* The pages ORDER BY timestamp DESC LIMIT may return (ties in any order).
list_events(table, f, limit) ==
    LET rows == Selected(table, f) IN
    {page \in Limited(rows, limit) : \A in \in page, out \in rows \ page : ~TextBefore(in.at, out.at)}

Dimensions == {"proxy_key", "tool", "status", "domain"}
dimension_column(dim, e) ==
    CASE dim = "proxy_key" -> e.key
      [] dim = "tool" -> e.name
      [] dim = "status" -> e.status
      [] dim = "domain" -> Head(e.name)

group_by(dim, e) ==
    IF dim = "tool" THEN <<e.kind, dimension_column(dim, e)>> ELSE <<dimension_column(dim, e)>>

\* GROUP BY: the groups of a set of rows, and the rows of a group.
GroupsOf(dim, rows) == {group_by(dim, r.event) : r \in rows}
Members(dim, rows, g) == {r \in rows : group_by(dim, r.event) = g}
Tally(rows) == [requests |-> Cardinality(rows), errors |-> Cardinality({r \in rows : is_error(r.event)})]

\* The breakdowns ORDER BY request_count DESC LIMIT may return: group -> counts.
summarize_by(dim, f, limit) ==
    LET rows == Selected("request_events", f) IN
    {[g \in page |-> Tally(Members(dim, rows, g))] :
        page \in {p \in Limited(GroupsOf(dim, rows), limit) :
                    \A in \in p, out \in GroupsOf(dim, rows) \ p :
                      Cardinality(Members(dim, rows, in)) >= Cardinality(Members(dim, rows, out))}}

overall_stats(f) ==
    LET rows == Selected("request_events", f) IN
    [total_requests |-> Cardinality(rows),
     total_errors |-> Cardinality({r \in rows : is_error(r.event)}),
     unique_tools |-> Cardinality({r.event.name : r \in {x \in rows : x.event.kind = "tool"}})]

RequestsIn(ks) == SumFunctionOnSet([k \in DOMAIN usBuckets |-> usBuckets[k].requests], ks)
ErrorsIn(ks) == SumFunctionOnSet([k \in DOMAIN usBuckets |-> usBuckets[k].errors], ks)
BucketMatches(k, f) ==
    /\ f.key = "any" \/ k.key = f.key
    /\ f.from >= 0 => ~TextBefore(to_rfc3339(k.start), to_rfc3339(f.from))
    /\ f.to >= 0 => TextBefore(to_rfc3339(k.start), to_rfc3339(f.to))

\* The series ORDER BY bucket_start ASC LIMIT returns: hour -> counts.
series_by_bucket(f, limit) ==
    LET ks == {k \in DOMAIN usBuckets : BucketMatches(k, f)}
        hours == {k.start : k \in ks}
        Of(h) == {k \in ks : k.start = h} IN
    {[h \in page |-> [requests |-> RequestsIn(Of(h)), errors |-> ErrorsIn(Of(h))]] :
        page \in {p \in Limited(hours, limit) :
                    \A in \in p, out \in hours \ p : ~TextBefore(to_rfc3339(out), to_rfc3339(in))}}

----------------------------------------------------------------------------

UsInit ==
    /\ usNow = 0 /\ usDays \in {0, 1}
    /\ usPc = [w \in UsWriters |-> "idle"]
    /\ usEvent = [w \in UsWriters |-> [t |-> 0, event |-> CHOOSE e \in UsEvents : TRUE]]
    /\ usRows = {} /\ usBuckets = << >> /\ usPosted = {}
    /\ usMetrics = [l \in UsLabels |-> 0] /\ usClean = TRUE

\* A call ends: its event is stamped and counted before anything is awaited.
record_event(w, e) ==
    /\ usPc[w] = "idle"
    /\ usEvent' = [usEvent EXCEPT ![w] = [t |-> usNow, event |-> e]]
    /\ usPc' = [usPc EXCEPT ![w] = "insert"]
    /\ usMetrics' = IF Request(e) THEN record_request_event(usMetrics, e) ELSE usMetrics
    /\ UNCHANGED <<usNow, usDays, usRows, usBuckets, usPosted, usClean>>

\* The row is written, or the failure is logged; a request goes on to its bucket.
insert_event(w) ==
    /\ usPc[w] = "insert"
    /\ \/ usRows' = usRows \cup {Row(w)} /\ UNCHANGED usClean
       \/ usClean' = FALSE /\ UNCHANGED usRows
    /\ usPc' = [usPc EXCEPT ![w] = IF Request(usEvent[w].event) THEN "bucket" ELSE "done"]
    /\ UNCHANGED <<usNow, usDays, usEvent, usBuckets, usMetrics, usPosted>>

add_to_bucket(w) ==
    /\ usPc[w] = "bucket" /\ usPc' = [usPc EXCEPT ![w] = "done"]
    /\ \/ /\ usBuckets' = upsert_bucket(usBuckets, BucketKey(usEvent[w].event, usEvent[w].t),
                                        from_event(usEvent[w].event))
          /\ usPosted' = usPosted \cup {w} /\ UNCHANGED usClean
       \/ usClean' = FALSE /\ UNCHANGED <<usBuckets, usPosted>>
    /\ UNCHANGED <<usNow, usDays, usEvent, usRows, usMetrics>>

\* The task is dropped between two awaits.
drop_record(w) ==
    /\ usPc[w] \in {"insert", "bucket"} /\ usPc' = [usPc EXCEPT ![w] = "done"]
    /\ usClean' = FALSE
    /\ UNCHANGED <<usNow, usDays, usEvent, usRows, usBuckets, usMetrics, usPosted>>

delete_events_before(cutoff) ==
    {r \in usRows : r.event.table # "request_events" \/ ~TextBefore(r.at, to_rfc3339(cutoff))}

purge == IF usDays = 0 \/ usNow < usDays * DayTicks THEN usRows
         ELSE delete_events_before(usNow - usDays * DayTicks)

purge_expired_request_events ==
    /\ purge # usRows /\ usRows' = purge /\ usClean' = FALSE
    /\ UNCHANGED <<usNow, usDays, usPc, usEvent, usBuckets, usMetrics, usPosted>>

\* The process dies; tasks and metrics with it.
UsCrash ==
    /\ \E w \in UsWriters : usPc[w] # "idle"
    /\ usPc' = [w \in UsWriters |-> IF usPc[w] = "idle" THEN "idle" ELSE "done"]
    /\ usMetrics' = [l \in UsLabels |-> 0] /\ usClean' = FALSE
    /\ UNCHANGED <<usNow, usDays, usEvent, usRows, usBuckets, usPosted>>

UsTick ==
    /\ \E t \in UsTimes : t > usNow /\ usNow' = t
    /\ UNCHANGED <<usDays, usPc, usEvent, usRows, usBuckets, usMetrics, usPosted, usClean>>

UsNext ==
    \/ \E w \in UsWriters : \/ \E e \in UsEvents : record_event(w, e)
                            \/ insert_event(w) \/ add_to_bucket(w) \/ drop_record(w)
    \/ purge_expired_request_events \/ UsCrash \/ UsTick
UsSpec == UsInit /\ [][UsNext]_usVars

----------------------------------------------------------------------------
(* Properties.                                                                *)

InRange(r, f) ==
    /\ f.key = "any" \/ r.event.key = f.key
    /\ f.from >= 0 => f.from <= r.t
    /\ f.to >= 0 => r.t < f.to

\* Every page of events the console may see holds the newest events of the
\* half-open interval that was asked for, by time, although the database
\* compares texts of different lengths (list_events, list_security_events).
QueryInOrder ==
    \A table \in UsTables, f \in UsFilters, limit \in UsLimits :
      LET wanted == {r \in usRows : r.event.table = table /\ InRange(r, f)} IN
      \A page \in list_events(table, f, limit) :
        /\ page \subseteq wanted
        /\ Cardinality(page) < limit => page = wanted
        /\ \A in \in page, out \in wanted \ page : in.t >= out.t

\* Whatever failed, was dropped or crashed, and however the writers interleave,
\* each hour of a series counts exactly the calls of the key asked for that ended
\* in it and whose bucket write succeeded, over their whole hour: a filter that
\* begins within an hour leaves that hour out.  Beyond the limit the latest hours
\* are missing, and none before them (upsert_bucket, series_by_bucket).
SeriesExact ==
    \A f \in UsFilters, limit \in UsLimits :
      LET wanted == {w \in usPosted : /\ f.key = "any" \/ usEvent[w].event.key = f.key
                                      /\ f.from >= 0 => f.from <= bucket_start(usEvent[w].t)
                                      /\ f.to >= 0 => bucket_start(usEvent[w].t) < f.to}
          Ended(h) == {w \in wanted : h <= usEvent[w].t /\ usEvent[w].t < h + HourTicks} IN
      \A series \in series_by_bucket(f, limit) :
        /\ \A h \in DOMAIN series :
             /\ Ended(h) # {}
             /\ series[h] = [requests |-> Cardinality(Ended(h)),
                             errors |-> Cardinality({w \in Ended(h) : is_error(usEvent[w].event)})]
        /\ \A w \in wanted, h \in DOMAIN series : usEvent[w].t < h => bucket_start(usEvent[w].t) \in DOMAIN series
        /\ Cardinality(DOMAIN series) < limit =>
             \A w \in wanted : bucket_start(usEvent[w].t) \in DOMAIN series

\* Every breakdown counts each request of its groups once, by time and not by
\* text, and leaves out no group larger than one it shows; one that the limit did
\* not cut adds up to the overview and has as many tools as it, prompts and
\* resources of the same name apart (summarize_by, overall_stats).
EachCountedOnce ==
    \A f \in UsFilters, dim \in Dimensions, limit \in UsLimits :
      LET wanted == {r \in usRows : Request(r.event) /\ InRange(r, f)}
          all == overall_stats(f) IN
      \A groups \in summarize_by(dim, f, limit) :
        LET shown == {r \in wanted : group_by(dim, r.event) \in DOMAIN groups} IN
        /\ SumFunction([g \in DOMAIN groups |-> groups[g].requests]) = Cardinality(shown)
        /\ SumFunction([g \in DOMAIN groups |-> groups[g].errors])
               = Cardinality({r \in shown : is_error(r.event)})
        /\ \A g \in DOMAIN groups, r \in wanted \ shown :
             groups[g].requests >= Cardinality(Members(dim, wanted, group_by(dim, r.event)))
        /\ Cardinality(DOMAIN groups) < limit =>
             /\ SumFunction([g \in DOMAIN groups |-> groups[g].requests]) = all.total_requests
             /\ SumFunction([g \in DOMAIN groups |-> groups[g].errors]) = all.total_errors
             /\ dim = "tool" => Cardinality({g \in DOMAIN groups : g[1] = "tool"}) = all.unique_tools

\* As long as no write failed, no task was dropped and nothing was purged, the
\* three records of a settled gateway agree on how calls ended: the metrics, the
\* buckets and the rows (record_event, persist_request_event).
RecordsAgree ==
    usClean /\ (\A w \in UsWriters : usPc[w] \in {"idle", "done"}) =>
      \A l \in UsLabels :
        /\ usMetrics[l] = RequestsIn({k \in DOMAIN usBuckets : k.status = l})
        /\ usMetrics[l] = Cardinality({r \in usRows : Request(r.event) /\ status_label(r.event.status) = l})

\* A purge at any moment removes exactly the requests older than the retention
\* window, by time and not by text; zero days switch it off, and security events
\* stay (purge_expired_request_events).
Expired(r) == usDays > 0 /\ Request(r.event) /\ r.t + usDays * DayTicks < usNow
RetentionExact == purge = {r \in usRows : ~Expired(r)}
=============================================================================
