------------------------------ MODULE UserBaseline ------------------------------
(***************************************************************************)
(* The generator of a normal baseline (src/src/ai/generate_user_baseline   *)
(* .py), run on the tables of AnomalyDetect.  The operator runs it and the *)
(* detector one after the other, and before the user's next session, so    *)
(* that its statements need not be told apart from one another.            *)
(***************************************************************************)
EXTENDS AnomalyDetect

CONSTANTS
    Zone,         (* how many hours the local time is ahead of UTC         *)
    FromAgo,      (* the normal window begins FromAgo hours ago (12)       *)
    ToAgo,        (* and ends ToAgo hours ago (6)                          *)
    Days,         (* --days                                                *)
    PerDay,       (* the numbers of sessions that a day may get            *)
    Durations     (* how long a generated session may take                 *)

ASSUME GeneratorAssumption ==
    /\ {Zone, FromAgo, ToAgo, Days} \subseteq Nat
    /\ ToAgo <= FromAgo /\ FromAgo <= Hours
    /\ PerDay \subseteq Nat \ {0} /\ Durations \subseteq Nat
    /\ \A t \in Starts : Days * Day <= t

VARIABLES
    gen,        (* where the generator is                                  *)
    genNow,     (* its variable now                                        *)
    day,        (* how many days ago the sessions lie that it writes       *)
    n_sessions, (* how many it will still write for that day               *)
    generated   (* history: the ids of the rows it wrote                   *)

genVars == <<gen, genNow, day, n_sessions, generated>>
allVars == <<vars, genVars>>

BaselineTypeOK ==
    /\ DetectTypeOK
    /\ gen \in {"off", "sessions", "reports", "write", "done"}
    /\ genNow \in Nat /\ day \in 0 .. Days /\ n_sessions \in Nat
    /\ generated \subseteq Nat

BaselineInit ==
    /\ Init
    /\ gen = "off" /\ genNow = 0 /\ day = 0 /\ n_sessions = 0 /\ generated = {}

(* The hours of the normal window, by the local clock; it may span midnight. *)
LocalHour(t) == ((t \div HourLength) + Zone) % Hours

NormalHours(t) ==
    LET first == LocalHour(t - FromAgo * HourLength)
        last == LocalHour(t - ToAgo * HourLength)
    IN  IF first <= last THEN first .. last
        ELSE {h \in 0 .. Hours - 1 : h >= first \/ h <= last}

(* The generator is for one user, the container has that user's name. All of *)
(* its rows name it; the manager's rows of an authentication do not.        *)
GenUser == CHOOSE u \in Users : TRUE
GenContainer == CHOOSE c \in Containers : TRUE

Elsewhere == UNCHANGED <<now, ticks, managerVars, detectorVars>>

(* The loop from Days days ago to yesterday: d is next, and gets one of the  *)
(* numbers PerDay of sessions.                                              *)
TurnTo(d) ==
    /\ day' = d
    /\ IF d = 0 THEN n_sessions' = 0 ELSE n_sessions' \in PerDay

Writing == IF day' = 0 THEN "done" ELSE "write"

(* Bound: it is run once.                                                   *)
StartGenerator(clean) ==
    /\ gen = "off" /\ session = "idle" /\ pc = "idle" /\ left = MaxSessions
    /\ genNow' = now /\ TurnTo(Days)
    /\ gen' = IF clean THEN "sessions" ELSE Writing
    /\ UNCHANGED <<generated, tableVars, raced>> /\ Elsewhere

(* --clean: one statement for each table.                                   *)
CleanSessions ==
    /\ gen = "sessions" /\ gen' = "reports"
    /\ sessions' = {r \in sessions : r.user # GenUser \/ r.container # GenContainer}
    /\ UNCHANGED <<genNow, day, n_sessions, generated, session_id, anomaly_reports, report_id, raced>>
    /\ Elsewhere

CleanReports ==
    /\ gen = "reports"
    /\ anomaly_reports' = {r \in anomaly_reports : r.user # GenUser}
    /\ UNCHANGED <<genNow, day, n_sessions, generated, sessions, session_id, report_id, raced>>
    /\ gen' = Writing
    /\ Elsewhere

(* Mutant of StartTimes: the hour is chosen and not used.                   *)
StartTimes_NoHour(days) ==
    {genNow - days * Day + m : m \in 0 .. HourLength}

(* A time at one of the normal hours after the time of the run, days ago:   *)
(* up to an hour of minutes is added to the minutes it had.                 *)
StartTimes(days) ==
    {genNow - days * Day + h * HourLength + m :
        h \in NormalHours(genNow), m \in 0 .. HourLength}

WriteSession ==
    /\ gen = "write"
    /\ \E time \in StartTimes(day), length \in Durations :
         LET row(i, event, t) == [id |-> session_id + i, user |-> GenUser,
                                  container |-> GenContainer, event |-> event, time |-> t]
         IN  sessions' = sessions \cup {row(1, "auth_ok", time), row(2, "ssh_connected", time),
                                        row(3, "ssh_disconnected", time + length)}
    /\ session_id' = session_id + 3
    /\ generated' = generated \cup (session_id + 1 .. session_id + 3)
    /\ IF n_sessions > 1 THEN n_sessions' = n_sessions - 1 /\ day' = day ELSE TurnTo(day - 1)
    /\ gen' = Writing
    /\ UNCHANGED <<genNow, anomaly_reports, report_id, raced>> /\ Elsewhere

GeneratorStep ==
    \/ \E clean \in BOOLEAN : StartGenerator(clean)
    \/ CleanSessions
    \/ CleanReports
    \/ WriteSession

BaselineNext ==
    \/ gen \in {"off", "done"} /\ Next /\ UNCHANGED genVars
    \/ GeneratorStep

BaselineSpec == BaselineInit /\ [][BaselineNext]_allVars

--------------------------------------------------------------------------------
(***************************************************************************)
(* Properties                                                              *)
(***************************************************************************)

(* What compute_durations makes of the rows of either query                 *)
(* (anomaly_detect.py:47, 110, 111): each duration is the time between two  *)
(* of the rows, a connection and a later end in its container, and these are *)
(* the beginning and the end of one session, whatever the window cuts off,   *)
(* the manager logs between the queries, fails to log when it is killed or   *)
(* logs for sessions that fail, and in whatever order sqlite returns rows of *)
(* one second, but for two cases: the generator wrote one of the two, or the *)
(* connection's session has no end (the manager was killed) and the end is   *)
(* the time-out of a later session that nobody connected to.                *)
DurationsReal ==
    pc = "judge" =>
        \A rows \in {baseline, recent} : \A d \in Range(ComputeDurations(rows)) :
            \E i, j \in DOMAIN rows :
                /\ i < j /\ d = rows[j].time - rows[i].time
                /\ rows[i].container = rows[j].container /\ rows[i].event = "ssh_connected"
                /\ \/ <<rows[i].id, rows[j].id>> \in ended
                   \/ {rows[i].id, rows[j].id} \cap generated # {}
                   \/ /\ rows[j].event = "timeout"
                      /\ \A e \in ended : {e[1], e[2]} \cap {rows[i].id, rows[j].id} = {}

(* "Your current session should be flagged as unusual_time"                 *)
(* (generate_user_baseline.py:110).  It is, when it is the only connection  *)
(* besides the generated ones, there are enough of those for one to be      *)
(* rare, and no normal hour is midnight or the hour before: the code adds   *)
(* the hour to the time of the run and not to the day's beginning, so that  *)
(* hour 0 (or 23, with the minutes) lands on the current hour.              *)
CurrentSessionFlagged ==
    LET base == Connects(baseline)
        own == {i \in base : baseline[i].id \notin generated}
    IN  /\ pc = "judge" /\ gen = "done" /\ ~raced
        /\ Cardinality(own) = 1
        /\ \A i \in own : baseline[i].time >= asOf - Day /\ Hour(baseline[i].time) = Hour(genNow)
        /\ Cardinality(base) > Rare
        /\ {0, Hours - 1} \cap NormalHours(genNow) = {}
        /\ Len(baseline) >= MinRows
        => "unusual_time" \in Types(Anomalies(baseline, recent))
================================================================================
