----------------------------- MODULE AnomalyDetect -----------------------------
(***************************************************************************)
(* The anomaly detector (src/src/ai/anomaly_detect.py) on the tables       *)
(* sessions and anomaly_reports (db_access.py), beside the manager, which  *)
(* goes on logging sessions.  Every statement is a process of its own      *)
(* (sqlcipher) and thus atomic; two statements are not.                    *)
(*                                                                         *)
(* The unit of time stands for a second: two rows of one unit have equal   *)
(* time stamps.  A table is the set of its rows, whose identifiers (INTEGER *)
(* PRIMARY KEY AUTOINCREMENT) only grow.                                   *)
(***************************************************************************)
EXTENDS SessionStats, SequencesExt

CONSTANTS
    Users,        (* the users                                             *)
    Containers,   (* the containers, each usable by every user here        *)
    Window,       (* ANOMALY_WINDOW_DAYS: at least one, or the baseline    *)
                  (* would be shorter than the day that is held against it *)
    Starts,       (* when the behaviours may begin                         *)
    Ago,          (* how long before that sessions may have begun          *)
    Lengths,      (* how long those took; 0: the manager was killed with   *)
                  (* the session open and logged no end                    *)
    MaxPast,      (* bound: how many sessions were logged before           *)
    Jumps,        (* by how much the clock advances                        *)
    MaxTicks,     (* bound: how often it does                              *)
    MaxSessions,  (* bound: how many sessions follow                       *)
    MaxReports    (* bound: how many reports anomaly_reports ever has      *)

(* The container of the rows that name none: those of an authentication.    *)
NoContainer == "none"

ASSUME DetectAssumption ==
    /\ Users # {} /\ Containers # {} /\ NoContainer \notin Containers
    /\ UNION {Starts, Ago, Jumps} \subseteq Nat \ {0} /\ Lengths \subseteq Nat
    /\ {MaxPast, MaxTicks, MaxSessions, MaxReports} \subseteq Nat /\ Window \in Nat \ {0}

(* The clock starts long after the epoch.                                   *)
ASSUME ClockAssumption == \A t \in Starts, a \in Ago : a <= t

VARIABLES
    now,              (* the time                                          *)
    ticks,            (* how often it has advanced                         *)
    sessions,         (* the table                                         *)
    session_id,       (* the last session_id given out                     *)
    anomaly_reports,  (* the table                                         *)
    report_id,        (* the last report_id given out                      *)
    session,          (* the manager's session: "idle" or how far it is    *)
    of,               (* its user and its container                        *)
    since,            (* when its last row was logged                      *)
    left,             (* how many authentications may still be tried       *)
    opened,           (* history: the id of its row ssh_connected          *)
    ended,            (* history: <<a, b>>: b is the id of the row that ended *)
                      (* the session which row a connected                 *)
    pc,               (* where the detector is                             *)
    todo,             (* the users still to be analysed                    *)
    user,             (* the one in hand                                   *)
    asOf,             (* the variable now of analyze_user                  *)
    baseline,         (* baseline_sessions                                 *)
    recent,           (* recent_sessions                                   *)
    raced             (* history: a row was logged between the two queries *)

tableVars == <<sessions, session_id, anomaly_reports, report_id>>
managerVars == <<session, of, since, left, opened, ended>>
detectorVars == <<pc, todo, user, asOf, baseline, recent>>
vars == <<now, ticks, tableVars, managerVars, detectorVars, raced>>

Events == {"auth_ok", "auth_fail", "ssh_connected", "ssh_disconnected", "timeout"}

Row == [id : Nat, user : Users, container : Containers \cup {NoContainer}, event : Events, time : Nat]

Report == [id : Nat, user : Users, type : {"unusual_time", "high_frequency", "long_duration", "composite"},
           severity : 1 .. 3, status : {"pending", "reviewed"}]

DetectTypeOK ==
    /\ now \in Nat /\ ticks \in 0 .. MaxTicks
    /\ sessions \subseteq Row /\ IsFiniteSet(sessions) /\ session_id \in Nat
    /\ anomaly_reports \subseteq Report /\ report_id \in Nat
    /\ session \in {"idle", "authenticated", "connected"}
    /\ of \in Users \X (Containers \cup {NoContainer}) /\ since \in Nat
    /\ left \in 0 .. MaxSessions
    /\ opened \in Nat /\ ended \subseteq Nat \X Nat
    /\ raced \in BOOLEAN
    /\ pc \in {"idle", "next", "recent", "judge"}
    /\ todo \subseteq Users /\ user \in Users /\ asOf \in Nat
    /\ baseline \in Seq(Row) /\ recent \in Seq(Row)

(* A session as it stands in the table.                                     *)
Rows(v, n) ==
    LET row(i, c, event, time) ==
            [id |-> n + i, user |-> v.user, container |-> c, event |-> event, time |-> time]
    IN  {row(1, NoContainer, "auth_ok", v.time), row(2, v.container, "ssh_connected", v.time)}
        \cup IF v.length = 0 THEN {}
             ELSE {row(3, v.container, "ssh_disconnected", v.time + v.length)}

Visits(t) ==
    [user : Users, container : Containers, time : {t - a : a \in Ago}, length : Lengths]

(* The manager has one session at a time, and its clock does not go back.   *)
Past(t) ==
    {p \in SeqOf(Visits(t), MaxPast) :
        /\ \A i \in 1 .. Len(p) - 1 : p[i].time + p[i].length < p[i + 1].time
        /\ p # << >> => Last(p).time + Last(p).length < t}

Init ==
    /\ now \in Starts /\ ticks = 0
    /\ \E p \in Past(now) :
         /\ sessions = UNION {Rows(p[i], 3 * (i - 1)) : i \in DOMAIN p}
         /\ session_id = 3 * Len(p)
         /\ ended = {<<3 * i - 1, 3 * i>> : i \in {k \in DOMAIN p : p[k].length # 0}}
    /\ session = "idle" /\ of \in {<<u, NoContainer>> : u \in {CHOOSE u \in Users : TRUE}}
    /\ since = 0 /\ left = MaxSessions /\ opened = 0
    /\ anomaly_reports = {} /\ report_id = 0
    /\ pc = "idle" /\ todo = {} /\ user = of[1]
    /\ asOf = 0 /\ baseline = << >> /\ recent = << >>
    /\ raced = FALSE

--------------------------------------------------------------------------------
(***************************************************************************)
(* The manager's log: what SessionLog allows it to insert                  *)
(***************************************************************************)

Insert(u, c, event) ==
    /\ session_id' = session_id + 1
    /\ sessions' = sessions \cup {[id |-> session_id', user |-> u, container |-> c,
                                   event |-> event, time |-> now]}

Logs(u, c, event) ==
    /\ Insert(u, c, event)
    /\ raced' = (raced \/ (pc = "recent" /\ u = user))
    /\ UNCHANGED <<now, ticks, anomaly_reports, report_id, detectorVars>>

Authenticate(u, c) ==
    /\ session = "idle" /\ left > 0
    /\ Logs(u, NoContainer, "auth_ok")
    /\ session' = "authenticated" /\ of' = <<u, c>> /\ left' = left - 1 /\ since' = now
    /\ UNCHANGED <<opened, ended>>

(* The signature is wrong.                                                  *)
Reject(u) ==
    /\ session = "idle" /\ left > 0
    /\ Logs(u, NoContainer, "auth_fail")
    /\ left' = left - 1
    /\ UNCHANGED <<session, of, since, opened, ended>>

(* The set-up fails and returns without a row, or the manager is stopped or  *)
(* killed, with the session in whatever state, and started again.           *)
Abandon ==
    /\ session # "idle" /\ session' = "idle"
    /\ UNCHANGED <<now, ticks, tableVars, of, since, left, opened, ended, detectorVars, raced>>

(* The manager sleeps two seconds between the authentication and its first  *)
(* look at the connections, ...                                             *)
Connect ==
    /\ session = "authenticated" /\ now > since
    /\ Logs(of[1], of[2], "ssh_connected")
    /\ session' = "connected" /\ since' = now /\ opened' = session_id'
    /\ UNCHANGED <<of, left, ended>>

(* ... and looks three times, a second apart, before it takes a session for  *)
(* ended, or sixty times before one that nobody connected to times out.     *)
End(event) ==
    /\ session = "connected" \/ (session = "authenticated" /\ event = "timeout")
    /\ now > since
    /\ Logs(of[1], of[2], event)
    /\ session' = "idle"
    /\ ended' = IF session = "connected" THEN ended \cup {<<opened, session_id'>>} ELSE ended
    /\ UNCHANGED <<of, since, left, opened>>

Tick ==
    /\ ticks < MaxTicks /\ ticks' = ticks + 1
    /\ \E units \in Jumps : now' = now + units
    /\ UNCHANGED <<tableVars, managerVars, detectorVars, raced>>

--------------------------------------------------------------------------------
(***************************************************************************)
(* The detector                                                            *)
(***************************************************************************)

(* get_sessions: ORDER BY timestamp says nothing of rows of the same second, *)
(* which may come in either order.                                          *)
GetSessions(u, from, ties) ==
    LET answer == {r \in sessions : r.user = u /\ r.time >= from}
        before(a, b) == \/ a.time < b.time
                        \/ a.time = b.time /\ (IF ties = "kept" THEN a.id < b.id ELSE b.id < a.id)
        place == [r \in answer |-> Cardinality({q \in answer : q = r \/ before(q, r)})]
    IN  Inverse(place, answer, 1 .. Cardinality(answer))

get_all_users == Users

(* main, with or without --user (a --dry-run changes nothing)               *)
StartDetector ==
    /\ pc = "idle" /\ report_id < MaxReports
    /\ pc' = "next"
    /\ todo' \in {get_all_users} \cup {{u} : u \in Users}
    /\ UNCHANGED <<now, ticks, tableVars, managerVars, user, asOf, baseline, recent, raced>>

(* analyze_user reads the baseline, which has no upper end, ...             *)
(* Mutant of ReadBaseline: the baseline ends where the last day begins.     *)
ReadBaseline_UpToRecent(u) ==
    /\ pc = "next" /\ u \in todo
    /\ todo' = todo \ {u} /\ user' = u /\ asOf' = now
    /\ \E n \in 0 .. Len(GetSessions(u, now - Window * Day, "kept")) :
         LET rows == GetSessions(u, now - Window * Day, "kept")
         IN  /\ \A i \in DOMAIN rows : rows[i].time < now - Day <=> i <= n
             /\ baseline' = SubSeq(rows, 1, n)
    /\ pc' = "recent" /\ raced' = FALSE
    /\ UNCHANGED <<now, ticks, tableVars, managerVars, recent>>

ReadBaseline(u) ==
    /\ pc = "next" /\ u \in todo
    /\ todo' = todo \ {u} /\ user' = u /\ asOf' = now
    /\ \E ties \in {"kept", "swapped"} :
         baseline' = GetSessions(u, now - Window * Day, ties)
    /\ pc' = "recent" /\ raced' = FALSE
    /\ UNCHANGED <<now, ticks, tableVars, managerVars, recent>>

(* ... and then, in a second statement, the last day.                       *)
ReadRecent ==
    /\ pc = "recent"
    /\ \E ties \in {"kept", "swapped"} : recent' = GetSessions(user, asOf - Day, ties)
    /\ pc' = "judge"
    /\ UNCHANGED <<now, ticks, tableVars, managerVars, todo, user, asOf, baseline, raced>>

insert_anomaly_report(type, severity) ==
    /\ report_id' = report_id + 1
    /\ anomaly_reports' = anomaly_reports \cup {[id |-> report_id', user |-> user, type |-> type,
                                                 severity |-> severity, status |-> "pending"]}

Judge ==
    LET found == Anomalies(baseline, recent)
    IN  /\ pc = "judge"
        /\ IF found # {} THEN insert_anomaly_report(AnomalyType(found), Severity(found))
           ELSE UNCHANGED <<anomaly_reports, report_id>>
        /\ pc' = "next" /\ baseline' = << >> /\ recent' = << >> /\ asOf' = 0 /\ raced' = FALSE
        /\ UNCHANGED <<now, ticks, sessions, session_id, managerVars, todo, user>>

StopDetector ==
    /\ pc = "next" /\ todo = {}
    /\ pc' = "idle"
    /\ UNCHANGED <<now, ticks, tableVars, managerVars, todo, user, asOf, baseline, recent, raced>>

(* A query or the insertion fails: sqlcipher returned an error, or found the *)
(* database busy. The exception ends the program, for every other user too. *)
DetectorFails ==
    /\ \/ pc = "next" /\ todo # {}
       \/ pc = "recent"
       \/ pc = "judge" /\ Anomalies(baseline, recent) # {}
    /\ pc' = "idle" /\ todo' = {}
    /\ baseline' = << >> /\ recent' = << >> /\ asOf' = 0 /\ raced' = FALSE
    /\ UNCHANGED <<now, ticks, tableVars, managerVars, user>>

LogStep ==
    \/ \E u \in Users, c \in Containers : Authenticate(u, c)
    \/ \E u \in Users : Reject(u)
    \/ Abandon
    \/ Connect
    \/ \E event \in {"ssh_disconnected", "timeout"} : End(event)
    \/ Tick

DetectorStep ==
    \/ StartDetector
    \/ \E u \in Users : ReadBaseline(u)
    \/ ReadRecent
    \/ Judge
    \/ StopDetector
    \/ DetectorFails

Next == LogStep \/ DetectorStep

Spec == Init /\ [][Next]_vars

--------------------------------------------------------------------------------
(***************************************************************************)
(* Properties                                                              *)
(***************************************************************************)

(* The loop of compute_durations pairs exactly the ends with the            *)
(* connections a reader of the log would pair (anomaly_detect.py:47).       *)
DurationsPaired ==
    pc = "judge" => ComputeDurations(baseline) = DurationsOf(baseline)

(* A connection of the last day is itself part of the baseline, so that no  *)
(* hour has a share of nothing (anomaly_detect.py:67, 91), unless it was    *)
(* logged between the two queries.                                          *)
RecentInBaseline ==
    pc = "judge" /\ ~raced =>
        \A i \in DOMAIN recent : \E j \in DOMAIN baseline : baseline[j] = recent[i]

(* The busiest day can stand out only among enough days: a z-score of n     *)
(* numbers is at most (n - 1) / sqrt(n), so that with the code's threshold  *)
(* of 2.5 nothing is reported for a user active on fewer than 9 days of the *)
(* window, however many sessions the last day has (anomaly_detect.py:95).   *)
EnoughDays ==
    pc = "judge" /\ ~raced /\ (\E a \in Anomalies(baseline, recent) : a.type = "high_frequency") =>
        LET n == Cardinality(DOMAIN DailyCounts(baseline))
        IN  100 * Square(n - 1) > Square(ZLow) * n
================================================================================
