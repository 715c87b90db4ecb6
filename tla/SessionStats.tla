------------------------------ MODULE SessionStats ------------------------------
(***************************************************************************)
(* The statistics of src/src/ai/anomaly_detect.py, as operators on the     *)
(* rows of the table sessions that belong to one user.  A row is a record  *)
(* [id, user, container, event, time].  Fractions and z-scores are not     *)
(* computed but compared, over the integers: z > T, T in tenths, is        *)
(*     10 (x - mean) > T std.                                              *)
(***************************************************************************)
EXTENDS Integers, Sequences, FiniteSets, FiniteSetsExt, Functions

CONSTANTS
    HourLength, (* units of time per hour: 3600                            *)
    Hours,      (* hours per day: 24                                       *)
    Rare,       (* an hour is unusual below one connection in Rare: 50     *)
    Unseen,     (* the score of an hour without connections in tenths: 40  *)
    MinRows,    (* rows a baseline needs: 5                                *)
    ZLow,       (* ANOMALY_Z_THRESHOLD in tenths: 25                       *)
    ZMedium,    (* the severities' limits in tenths: 35                    *)
    ZHigh       (* and 45                                                  *)

ASSUME StatsAssumption ==
    /\ {HourLength, Hours, Rare, Unseen, MinRows, ZLow, ZMedium, ZHigh} \subseteq Nat \ {0}
    /\ ZLow <= ZMedium /\ ZMedium <= ZHigh

Day == HourLength * Hours

Hour(t) == (t % Day) \div HourLength
DayOf(t) == t \div Day

(* baseline_connects, recent_connects: which of the rows connect.            *)
Connects(rows) == {i \in DOMAIN rows : rows[i].event = "ssh_connected"}

(* bucket_by_hour and sessions_per_day: how many connections fall in each    *)
(* hour of the day, and on each day that has any.                           *)
HourCount(rows, h) == Cardinality({i \in Connects(rows) : Hour(rows[i].time) = h})

DailyCounts(rows) ==
    [d \in {DayOf(rows[i].time) : i \in Connects(rows)} |->
        Cardinality({i \in Connects(rows) : DayOf(rows[i].time) = d})]

(* The dictionary pending with a connection of the row's container.          *)
Pend(pending, r) ==
    [c \in DOMAIN pending \cup {r.container} |->
        IF c = r.container THEN r.time ELSE pending[c]]

(* Mutant of PairUp: a second connection does not replace the first.         *)
PairUp_KeepsFirst(acc, r) ==
    LET known == r.container \in DOMAIN acc.pending
        length == r.time - acc.pending[r.container]
    IN  CASE r.event = "ssh_connected" ->
               IF known THEN acc ELSE [acc EXCEPT !.pending = Pend(@, r)]
          [] r.event \in {"ssh_disconnected", "timeout"} /\ known ->
               [pending |-> Restrict(acc.pending, DOMAIN acc.pending \ {r.container}),
                lengths |-> IF r.time > acc.pending[r.container]
                            THEN Append(acc.lengths, length) ELSE acc.lengths]
          [] OTHER -> acc

(* compute_durations: the times from a connection to the next end of a       *)
(* session in the same container.  A second connection replaces the first.  *)
PairUp(acc, r) ==
    LET known == r.container \in DOMAIN acc.pending
        length == r.time - acc.pending[r.container]
    IN  CASE r.event = "ssh_connected" ->
               [acc EXCEPT !.pending = Pend(@, r)]
          [] r.event \in {"ssh_disconnected", "timeout"} /\ known ->
               [pending |-> Restrict(acc.pending, DOMAIN acc.pending \ {r.container}),
                lengths |-> IF r.time > acc.pending[r.container]
                            THEN Append(acc.lengths, length) ELSE acc.lengths]
          [] OTHER -> acc

(* after[n]: what the loop knows after n rows.                              *)
Pairing(rows) ==
    LET after[n \in 0 .. Len(rows)] ==
            IF n = 0 THEN [pending |-> << >>, lengths |-> << >>]
            ELSE PairUp(after[n - 1], rows[n])
    IN  after

ComputeDurations(rows) == Pairing(rows)[Len(rows)].lengths

--------------------------------------------------------------------------------
(* compute_mean_stddev and the comparison made with it: x lies more than    *)
(* T / 10 sample deviations above the mean of the numbers f.  It is false   *)
(* when there are fewer than two numbers or all are equal.                  *)
Square(n) == n * n

(* Mutant of Deviant: the deviation of a population (n) instead of a sample *)
(* (n - 1).                                                                 *)
Deviant_Population(x, f, T) ==
    LET n == Cardinality(DOMAIN f)
        sum == SumFunction(f)
        squares == SumFunction([d \in DOMAIN f |-> Square(f[d])])
    IN  /\ n >= 2
        /\ n * squares > Square(sum)
        /\ n * x > sum
        /\ 100 * Square(n * x - sum) > Square(T) * (n * squares - Square(sum))

Deviant(x, f, T) ==
    LET n == Cardinality(DOMAIN f)
        sum == SumFunction(f)
        squares == SumFunction([d \in DOMAIN f |-> Square(f[d])])
    IN  /\ n >= 2
        /\ n * squares > Square(sum)
        /\ n * x > sum
        /\ 100 * Square(n * x - sum) * (n - 1) > Square(T) * n * (n * squares - Square(sum))

(* The severity a z-score stands for: 3 high, 2 medium, 1 low.              *)
DeviantLevel(x, f) ==
    IF Deviant(x, f, ZHigh) THEN 3 ELSE IF Deviant(x, f, ZMedium) THEN 2 ELSE 1

(* The score of an unusual hour is the inverse of its share, or Unseen for  *)
(* an hour without any connection.                                          *)
HourLevel(count, total) ==
    LET above(T) == IF count = 0 THEN Unseen > T ELSE 10 * total > T * count
    IN  IF above(ZHigh) THEN 3 ELSE IF above(ZMedium) THEN 2 ELSE 1

UnusualTimes(baseRows, recentRows) ==
    LET total == Cardinality(Connects(baseRows))
        count(i) == HourCount(baseRows, Hour(recentRows[i].time))
    IN  {[type |-> "unusual_time", level |-> HourLevel(count(i), total)] :
            i \in {k \in Connects(recentRows) : Rare * count(k) < total}}

HighFrequencies(baseRows, recentRows) ==
    LET usual == DailyCounts(baseRows)
        counts == Range(DailyCounts(recentRows))
    IN  {[type |-> "high_frequency", level |-> DeviantLevel(x, usual)] :
            x \in {y \in counts : Deviant(y, usual, ZLow)}}

LongDurations(baseRows, recentRows) ==
    LET usual == ComputeDurations(baseRows)
        lengths == Range(ComputeDurations(recentRows))
    IN  {[type |-> "long_duration", level |-> DeviantLevel(x, usual)] :
            x \in {y \in lengths : Deviant(y, usual, ZLow)}}

(* analyze_user after its two queries: all anomalies, and the report.       *)
Anomalies(baseRows, recentRows) ==
    IF Len(baseRows) < MinRows THEN {}
    ELSE UnusualTimes(baseRows, recentRows) \cup HighFrequencies(baseRows, recentRows)
             \cup LongDurations(baseRows, recentRows)

Types(anomalies) == {a.type : a \in anomalies}

(* Mutant of Severity: two types of anomalies escalate a high severity too. *)
Severity_Unbounded(anomalies) ==
    LET worst == Max({a.level : a \in anomalies})
    IN  IF Cardinality(Types(anomalies)) > 1 THEN worst + 1 ELSE worst

Severity(anomalies) ==
    LET worst == Max({a.level : a \in anomalies})
    IN  IF Cardinality(Types(anomalies)) > 1 /\ worst < 3 THEN worst + 1 ELSE worst

AnomalyType(anomalies) ==
    IF Cardinality(Types(anomalies)) > 1 THEN "composite"
    ELSE CHOOSE type \in Types(anomalies) : TRUE

--------------------------------------------------------------------------------
(* What compute_durations should return, said without a loop: for every end *)
(* of a session whose container's last earlier connection or end is a       *)
(* connection at an earlier time, the time in between.                      *)
IsAuth(r) == r.event \in {"auth_ok", "auth_fail"}

Bracket(rows, i) ==
    {j \in 1 .. i - 1 : /\ rows[j].container = rows[i].container
                        /\ ~IsAuth(rows[j])}

PairedEnds(rows) ==
    {i \in DOMAIN rows :
        /\ rows[i].event \in {"ssh_disconnected", "timeout"}
        /\ Bracket(rows, i) # {}
        /\ rows[Max(Bracket(rows, i))].event = "ssh_connected"
        /\ rows[Max(Bracket(rows, i))].time < rows[i].time}

DurationsOf(rows) ==
    LET ends == PairedEnds(rows)
        place == [i \in ends |-> Cardinality({j \in ends : j <= i})]
        end == Inverse(place, ends, 1 .. Cardinality(ends))
    IN  [k \in 1 .. Cardinality(ends) |->
            rows[end[k]].time - rows[Max(Bracket(rows, end[k]))].time]
================================================================================
