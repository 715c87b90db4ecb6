----------------------------- MODULE DetectProofs -----------------------------
(***************************************************************************)
(* The detector and the baseline generator beside the manager: what the    *)
(* rows of the two queries, the durations and the verdicts are, for all    *)
(* users, containers, clocks and numbers of sessions.                      *)
(***************************************************************************)
EXTENDS UserBaseline, StatsProofs

Tables == sessions \subseteq Row /\ IsFiniteSet(sessions)

(* Identifiers are given out once and in order.                             *)
IdsInv ==
    /\ \A r \in sessions : r.id <= session_id
    /\ \A q, r \in sessions : q.id = r.id => q = r
    /\ generated \subseteq 1 .. session_id

(* The clock; the generator works while the manager and the detector rest.  *)
ClockInv ==
    /\ Days * Day <= now
    /\ gen # "off" => Days * Day <= genNow
    /\ since <= now
    /\ gen \in {"sessions", "reports", "write"} => pc = "idle" /\ session = "idle"
    /\ gen = "write" => day > 0

(* The rows of a query: those of the table that it asks for, each once, in  *)
(* the order of their times, and every such row up to any row it returned   *)
(* (rows that were logged later have greater identifiers).                  *)
Answers(rows, u, from) ==
    /\ RowSeq(rows)
    /\ \A i \in DOMAIN rows : rows[i] \in sessions /\ rows[i].user = u /\ rows[i].time >= from
    /\ \A i, j \in DOMAIN rows : rows[i] = rows[j] => i = j
    /\ \A i, j \in DOMAIN rows : i < j => rows[i].time <= rows[j].time
    /\ \A i \in DOMAIN rows, r \in sessions :
          r.user = u /\ r.time >= from /\ r.id <= rows[i].id => \E j \in DOMAIN rows : rows[j] = r

Since == asOf - Window * Day

(* The baseline has all rows it asks for until one is logged between the    *)
(* queries.                                                                 *)
BaselineInv ==
    pc \in {"recent", "judge"} =>
        /\ Answers(baseline, user, Since)
        /\ pc = "recent" /\ ~raced =>
              \A r \in sessions :
                  r.user = user /\ r.time >= Since => \E j \in DOMAIN baseline : baseline[j] = r

(* The last day: a part of the baseline unless a row was logged in between, *)
(* and all of the baseline's rows of that day.                              *)
RecentInv ==
    pc = "judge" =>
        /\ Answers(recent, user, asOf - Day)
        /\ \A i \in DOMAIN baseline :
              baseline[i].time >= asOf - Day => \E j \in DOMAIN recent : recent[j] = baseline[i]
        /\ RecentInBaseline

(* The rows of connections and ends that the manager logged. The sleeps of   *)
(* the manager keep any two of them apart in time.                          *)
IsReal(r) == r.id \notin generated /\ ~IsAuth(r)

OrderInv ==
    /\ \A q, r \in sessions : IsReal(q) /\ IsReal(r) /\ q.id < r.id => q.time < r.time
    /\ \A r \in sessions : IsReal(r) => r.time <= now /\ (session # "idle" => r.time <= since)

(* A session that was connected and ended: nothing was logged in between    *)
(* but authentications, and --clean deletes both of its rows or neither.    *)
EndedOK(a, b) ==
    /\ a \in 1 .. session_id /\ b \in 1 .. session_id /\ a < b
    /\ a \notin generated /\ b \notin generated
    /\ \A r \in sessions : IsReal(r) => ~ (a < r.id /\ r.id < b)
    /\ (\E q \in sessions : q.id = a) <=> (\E r \in sessions : r.id = b)
    /\ \A q, r \in sessions :
          q.id = a /\ r.id = b =>
              /\ q.user = r.user /\ q.container = r.container
              /\ q.event = "ssh_connected" /\ r.event \in {"ssh_disconnected", "timeout"}

EndsInv ==
    /\ \A e \in ended : EndedOK(e[1], e[2])
    /\ \A r \in sessions :
          IsReal(r) /\ r.event = "ssh_disconnected" => \E e \in ended : e[2] = r.id

(* The live connection's row is the last of its kind.                       *)
LiveInv ==
    session = "connected" =>
        /\ opened \in 1 .. session_id /\ opened \notin generated
        /\ \E q \in sessions : q.id = opened
        /\ \A q \in sessions :
              q.id = opened => q.event = "ssh_connected" /\ q.user = of[1] /\ q.container = of[2]
        /\ \A r \in sessions : IsReal(r) => r.id <= opened

(* No generated connection falls into the hour of the run, if the normal    *)
(* hours are away from midnight.                                            *)
HourInv ==
    /\ gen = "off" => generated = {}
    /\ {0, Hours - 1} \cap NormalHours(genNow) = {} =>
          \A r \in sessions :
              r.id \in generated /\ r.event = "ssh_connected" => Hour(r.time) # Hour(genNow)

DetectInv ==
    /\ BaselineTypeOK /\ IdsInv /\ ClockInv /\ BaselineInv /\ RecentInv
    /\ OrderInv /\ EndsInv /\ LiveInv /\ HourInv

--------------------------------------------------------------------------------
(* Rows stand in the order of their times, and of their identifiers either   *)
(* way within one unit.                                                     *)
Before(a, b, ties) ==
    \/ a.time < b.time
    \/ a.time = b.time /\ (IF ties = "kept" THEN a.id < b.id ELSE b.id < a.id)

Below(S, r, ties) == {q \in S : q = r \/ Before(q, r, ties)}

(* The order of the rows is total, as no two rows share an identifier.      *)
LEMMA BeforeTotal ==
    ASSUME NEW S \in SUBSET Row, \A q, r \in S : q.id = r.id => q = r, NEW ties
    PROVE  /\ \A a, b \in S : a = b \/ Before(a, b, ties) \/ Before(b, a, ties)
           /\ \A a, b \in S : ~ (Before(a, b, ties) /\ (a = b \/ Before(b, a, ties)))
           /\ \A a, b, c \in S : Before(a, b, ties) /\ Before(b, c, ties) => Before(a, c, ties)
<1>1. \A r \in S : r.id \in Int /\ r.time \in Int
    BY DEF Row
<1>2. \A a, b \in S : a = b \/ Before(a, b, ties) \/ Before(b, a, ties)
    BY <1>1 DEF Before
<1>3. \A a, b \in S : ~ (Before(a, b, ties) /\ (a = b \/ Before(b, a, ties)))
    BY <1>1 DEF Before
<1>4. \A a, b, c \in S : Before(a, b, ties) /\ Before(b, c, ties) => Before(a, c, ties)
    BY <1>1 DEF Before
<1> QED BY <1>2, <1>3, <1>4

(* Each row of a finite table has a place of its own.                       *)
LEMMA BelowPlaces ==
    ASSUME NEW S \in SUBSET Row, IsFiniteSet(S), \A q, r \in S : q.id = r.id => q = r, NEW ties
    PROVE  LET place == [r \in S |-> Cardinality(Below(S, r, ties))]
           IN  /\ place \in [S -> 1 .. Cardinality(S)]
               /\ \A a, b \in S : Before(a, b, ties) => place[a] < place[b]
               /\ \A a, b \in S : place[a] = place[b] => a = b
<1> DEFINE place == [r \in S |-> Cardinality(Below(S, r, ties))]
<1>1. ASSUME NEW r \in S
      PROVE  /\ Below(S, r, ties) \in SUBSET S /\ IsFiniteSet(Below(S, r, ties))
             /\ r \in Below(S, r, ties)
             /\ Cardinality(Below(S, r, ties)) \in 1 .. Cardinality(S)
    <2>1. Below(S, r, ties) \in SUBSET S /\ r \in Below(S, r, ties)
        BY DEF Below
    <2>2. IsFiniteSet(Below(S, r, ties)) /\ Cardinality(Below(S, r, ties)) <= Cardinality(S)
        BY <2>1, FS_Subset
    <2>3. Cardinality(Below(S, r, ties)) # 0
        BY <2>1, <2>2, FS_EmptySet
    <2>4. Cardinality(Below(S, r, ties)) \in Nat /\ Cardinality(S) \in Nat
        BY <2>2, FS_CardinalityType
    <2> QED BY <2>1, <2>2, <2>3, <2>4
<1>2. ASSUME NEW a \in S, NEW b \in S, Before(a, b, ties)
      PROVE  Cardinality(Below(S, a, ties)) < Cardinality(Below(S, b, ties))
    <2>1. Below(S, a, ties) \in SUBSET Below(S, b, ties)
        BY <1>2, BeforeTotal DEF Below
    <2>2. b \in Below(S, b, ties) /\ b \notin Below(S, a, ties)
        BY <1>2, BeforeTotal DEF Below
    <2>3. Cardinality(Below(S, a, ties)) <= Cardinality(Below(S, b, ties))
        BY <1>1, <2>1, FS_Subset
    <2>4. Cardinality(Below(S, a, ties)) # Cardinality(Below(S, b, ties))
        BY <1>1, <2>1, <2>2, FS_Subset
    <2>5. Cardinality(Below(S, a, ties)) \in Int /\ Cardinality(Below(S, b, ties)) \in Int
        BY <1>1
    <2> QED BY <2>3, <2>4, <2>5
<1>3. place \in [S -> 1 .. Cardinality(S)]
    BY <1>1
<1>4. \A a, b \in S : Before(a, b, ties) => place[a] < place[b]
    BY <1>2
<1>5. \A a, b \in S : place[a] = place[b] => a = b
    <2> HIDE DEF place
    <2>1. \A a \in S : place[a] \in Int
        BY <1>3
    <2> QED BY <1>4, <2>1, BeforeTotal
<1> QED BY <1>3, <1>4, <1>5

(* get_sessions returns the rows it is asked for, each once, in the order of *)
(* their times.                                                             *)
LEMMA GetSessionsRows ==
    ASSUME Tables, \A q, r \in sessions : q.id = r.id => q = r,
           NEW u, NEW from \in Int, NEW ties
    PROVE  /\ GetSessions(u, from, ties) \in Seq(Row)
           /\ Answers(GetSessions(u, from, ties), u, from)
           /\ \A r \in sessions :
                 r.user = u /\ r.time >= from =>
                     \E j \in DOMAIN GetSessions(u, from, ties) : GetSessions(u, from, ties)[j] = r
<1> DEFINE S == {r \in sessions : r.user = u /\ r.time >= from}
           N == Cardinality(S)
           place == [r \in S |-> Cardinality(Below(S, r, ties))]
           rows == Inverse(place, S, 1 .. N)
<1>1. GetSessions(u, from, ties) = rows
    BY DEF GetSessions, Below, Before
<1>2. S \in SUBSET Row /\ IsFiniteSet(S) /\ S \in SUBSET sessions /\ N \in Nat
    <2>1. S \in SUBSET sessions
        OBVIOUS
    <2> HIDE DEF S
    <2> QED BY <2>1, FS_Subset, FS_CardinalityType DEF Tables
<1>3. \A r \in S : r \in sessions /\ r.user = u /\ r.time >= from
    OBVIOUS
<1>4. \A r \in sessions : r.user = u /\ r.time >= from => r \in S
    OBVIOUS
<1> HIDE DEF S
<1>5. /\ place \in [S -> 1 .. N]
      /\ \A a, b \in S : Before(a, b, ties) => place[a] < place[b]
      /\ \A a, b \in S : place[a] = place[b] => a = b
    BY <1>2, BelowPlaces
<1>6. /\ rows \in [1 .. N -> S]
      /\ \A k \in 1 .. N : place[rows[k]] = k
      /\ \A r \in S : rows[place[r]] = r
    <2> HIDE DEF place
    <2> QED BY <1>2, <1>5, PlacesInverse
<1> HIDE DEF rows, place, N
<1>7. rows \in Seq(Row) /\ Len(rows) = N /\ DOMAIN rows = 1 .. N
    BY <1>2, <1>6
<1>8. \A i \in 1 .. N : rows[i] \in S /\ rows[i].time \in Int /\ rows[i].event \in EventNames
    BY <1>2, <1>6 DEF Row, Events, EventNames
<1>9. \A i, j \in DOMAIN rows : i < j => rows[i].time <= rows[j].time
    <2> SUFFICES ASSUME NEW i \in 1 .. N, NEW j \in 1 .. N, i < j
                 PROVE  rows[i].time <= rows[j].time
        BY <1>7
    <2>1. place[rows[i]] = i /\ place[rows[j]] = j
        BY <1>6
    <2>2. ~ Before(rows[j], rows[i], ties)
        BY <1>2, <1>5, <1>8, <2>1
    <2>3. rows[i].time \in Int /\ rows[j].time \in Int
        BY <1>8
    <2> QED BY <2>2, <2>3 DEF Before
<1>10. \A i, j \in DOMAIN rows : rows[i] = rows[j] => i = j
    BY <1>6, <1>7
<1>11. \A r \in S : \E j \in DOMAIN rows : rows[j] = r
    BY <1>5, <1>6, <1>7
<1>12. Answers(rows, u, from)
    BY <1>2, <1>3, <1>4, <1>7, <1>8, <1>9, <1>10, <1>11 DEF Answers, RowSeq
<1> QED BY <1>1, <1>4, <1>7, <1>11, <1>12

--------------------------------------------------------------------------------
(***************************************************************************)
(* The sessions logged before                                              *)
(***************************************************************************)

LEMMA Chosen == GenUser \in Users /\ GenContainer \in Containers
BY DetectAssumption DEF GenUser, GenContainer

LEMMA DayPositive ==
    /\ HourLength \in Nat \ {0} /\ Hours \in Nat \ {0} /\ Day \in Nat \ {0}
    /\ Window \in Nat \ {0} /\ Days \in Nat
<1>1. \A a, b \in Nat \ {0} : a * b \in Nat \ {0}
    OBVIOUS
<1> QED BY <1>1, StatsAssumption, DetectAssumption, GeneratorAssumption DEF Day

(* A sequence of sessions as Init takes it.                                 *)
PastSeq(p, m) ==
    /\ m \in Nat /\ p \in [1 .. m -> Visits(now)]
    /\ \A i \in 1 .. m - 1 : p[i].time + p[i].length < p[i + 1].time
    /\ m > 0 => p[m].time + p[m].length < now

PastTable(p, m) == UNION {Rows(p[i], 3 * (i - 1)) : i \in 1 .. m}

(* The k-th row of the i-th session.                                        *)
PastRow(r, p, i, k) ==
    /\ r.id = 3 * i - 3 + k
    /\ r.user = p[i].user
    /\ r.event = CASE k = 1 -> "auth_ok" [] k = 2 -> "ssh_connected" [] k = 3 -> "ssh_disconnected"
    /\ r.container = IF k = 1 THEN NoContainer ELSE p[i].container
    /\ k = 3 => p[i].length # 0
    /\ r.time = IF k = 3 THEN p[i].time + p[i].length ELSE p[i].time

LEMMA VisitType ==
    ASSUME now \in Starts, NEW v \in Visits(now)
    PROVE  v.user \in Users /\ v.container \in Containers /\ v.time \in Nat /\ v.length \in Nat
<1>1. PICK a \in Ago : v.time = now - a
    BY DEF Visits
<1>2. a \in Nat /\ now \in Nat /\ a <= now
    BY DetectAssumption, ClockAssumption
<1>3. v.user \in Users /\ v.container \in Containers /\ v.length \in Lengths
    BY DEF Visits
<1>4. v.time \in Nat
    BY <1>1, <1>2
<1>5. v.length \in Nat
    BY <1>3, DetectAssumption
<1> QED BY <1>3, <1>4, <1>5

(* Every row logged before is one of the three of a session.                *)
LEMMA PastRows ==
    ASSUME now \in Starts, NEW p, NEW m, PastSeq(p, m), NEW r \in PastTable(p, m)
    PROVE  r \in Row /\ \E i \in 1 .. m, k \in 1 .. 3 : PastRow(r, p, i, k)
<1>1. PICK i \in 1 .. m : r \in Rows(p[i], 3 * (i - 1))
    BY DEF PastTable
<1>2. p[i] \in Visits(now) /\ i \in Nat \ {0}
    BY DEF PastSeq
<1>3. /\ p[i].user \in Users /\ p[i].container \in Containers
      /\ p[i].time \in Nat /\ p[i].length \in Nat
    BY <1>2, VisitType
<1>4. 3 * (i - 1) + 1 = 3 * i - 3 + 1 /\ 3 * (i - 1) + 2 = 3 * i - 3 + 2 /\ 3 * (i - 1) + 3 = 3 * i - 3 + 3
    BY <1>2
<1>5. 3 * (i - 1) + 1 \in Nat /\ 3 * (i - 1) + 2 \in Nat /\ 3 * (i - 1) + 3 \in Nat
    BY <1>2
<1> DEFINE row(k, c, event, time) ==
              [id |-> 3 * (i - 1) + k, user |-> p[i].user, container |-> c, event |-> event, time |-> time]
<1>6. \/ r = row(1, NoContainer, "auth_ok", p[i].time)
      \/ r = row(2, p[i].container, "ssh_connected", p[i].time)
      \/ /\ r = row(3, p[i].container, "ssh_disconnected", p[i].time + p[i].length)
         /\ p[i].length # 0
    BY <1>1 DEF Rows
<1>7. CASE r = row(1, NoContainer, "auth_ok", p[i].time)
    <2>1. r \in Row
        BY <1>3, <1>5, <1>7 DEF Row, Events
    <2>2. PastRow(r, p, i, 1)
        BY <1>4, <1>7 DEF PastRow
    <2> QED BY <2>1, <2>2
<1>8. CASE r = row(2, p[i].container, "ssh_connected", p[i].time)
    <2>1. r \in Row
        BY <1>3, <1>5, <1>8 DEF Row, Events
    <2>2. PastRow(r, p, i, 2)
        BY <1>4, <1>8 DEF PastRow
    <2> QED BY <2>1, <2>2
<1>9. CASE /\ r = row(3, p[i].container, "ssh_disconnected", p[i].time + p[i].length)
            /\ p[i].length # 0
    <2>1. r \in Row
        BY <1>3, <1>5, <1>9 DEF Row, Events
    <2>2. PastRow(r, p, i, 3)
        BY <1>4, <1>9 DEF PastRow
    <2> QED BY <2>1, <2>2
<1> QED BY <1>6, <1>7, <1>8, <1>9

LEMMA RowEqual ==
    ASSUME NEW q \in Row, NEW r \in Row,
           q.id = r.id, q.user = r.user, q.container = r.container, q.event = r.event, q.time = r.time
    PROVE  q = r
BY DEF Row

(* The rows logged before have identifiers of their own, and there are      *)
(* finitely many.                                                           *)
LEMMA PastIds ==
    ASSUME now \in Starts, NEW p, NEW m, PastSeq(p, m)
    PROVE  /\ \A r \in PastTable(p, m) : r.id \in 1 .. 3 * m
           /\ \A q, r \in PastTable(p, m) : q.id = r.id => q = r
           /\ IsFiniteSet(PastTable(p, m))
<1> DEFINE T == PastTable(p, m)
<1>1. m \in Nat
    BY DEF PastSeq
<1>2. \A r \in T : r.id \in 1 .. 3 * m
    <2> SUFFICES ASSUME NEW r \in T PROVE r.id \in 1 .. 3 * m
        OBVIOUS
    <2>1. PICK i \in 1 .. m, k \in 1 .. 3 : PastRow(r, p, i, k)
        BY PastRows
    <2> QED BY <1>1, <2>1 DEF PastRow
<1>3. \A q, r \in T : q.id = r.id => q = r
    <2> SUFFICES ASSUME NEW q \in T, NEW r \in T, q.id = r.id PROVE q = r
        OBVIOUS
    <2>1. PICK i \in 1 .. m, k \in 1 .. 3 : PastRow(q, p, i, k)
        BY PastRows
    <2>2. PICK j \in 1 .. m, l \in 1 .. 3 : PastRow(r, p, j, l)
        BY PastRows
    <2>3. 3 * i - 3 + k = 3 * j - 3 + l
        BY <2>1, <2>2 DEF PastRow
    <2>4. i = j /\ k = l
        BY <1>1, <2>3
    <2>5. q \in Row /\ r \in Row
        BY PastRows
    <2>6. q.user = r.user /\ q.container = r.container /\ q.event = r.event /\ q.time = r.time
        BY <2>1, <2>2, <2>4 DEF PastRow
    <2> QED BY <2>5, <2>6, RowEqual
<1>4. IsFiniteSet(T)
    <2> DEFINE f == [r \in T |-> r.id]
    <2>1. f \in Injection(T, 1 .. 3 * m)
        <3> HIDE DEF T
        <3> QED BY <1>2, <1>3 DEF Injection, IsInjective
    <2>2. IsFiniteSet(1 .. 3 * m)
        BY <1>1, FS_Interval
    <2> HIDE DEF f, T
    <2> QED BY <2>1, <2>2, FS_Injection
<1> QED BY <1>2, <1>3, <1>4

(* The earlier sessions lie apart from each other and before now.           *)
LEMMA PastOrder ==
    ASSUME now \in Starts, NEW p, NEW m, PastSeq(p, m)
    PROVE  /\ \A i \in 1 .. m : p[i].time \in Nat /\ p[i].length \in Nat
           /\ \A i, j \in 1 .. m : i < j => p[i].time + p[i].length < p[j].time
           /\ \A i \in 1 .. m : p[i].time + p[i].length < now
<1>1. m \in Nat
    BY DEF PastSeq
<1>2. \A i \in 1 .. m : p[i].time \in Nat /\ p[i].length \in Nat
    BY VisitType DEF PastSeq
<1> DEFINE S == {n \in Nat : \A i \in 1 .. m :
                    i + n + 1 <= m => p[i].time + p[i].length < p[i + n + 1].time}
<1>3. 0 \in S
    <2>1. \A i \in 1 .. m : i + 0 + 1 <= m => i \in 1 .. m - 1 /\ i + 0 + 1 = i + 1
        BY <1>1
    <2> QED BY <2>1 DEF PastSeq
<1>4. ASSUME NEW n \in S PROVE n + 1 \in S
    <2> SUFFICES ASSUME NEW i \in 1 .. m, i + (n + 1) + 1 <= m
                 PROVE  p[i].time + p[i].length < p[i + (n + 1) + 1].time
        OBVIOUS
    <2> DEFINE j == i + n + 1
    <2>1. j \in 1 .. m - 1 /\ j \in 1 .. m /\ j + 1 \in 1 .. m /\ i + (n + 1) + 1 = j + 1
        BY <1>1
    <2>2. p[i].time + p[i].length < p[j].time
        BY <2>1
    <2>3. p[j].time + p[j].length < p[j + 1].time
        BY <2>1 DEF PastSeq
    <2> HIDE DEF j
    <2>4. /\ p[i].time \in Nat /\ p[i].length \in Nat /\ p[j].time \in Nat /\ p[j].length \in Nat
          /\ p[j + 1].time \in Nat
        BY <1>2, <2>1
    <2> QED BY <2>1, <2>2, <2>3, <2>4
<1>5. S = Nat
    <2> HIDE DEF S
    <2>1. S \in SUBSET Nat
        BY DEF S
    <2> QED BY <1>3, <1>4, <2>1, SetInduction
<1>6. ASSUME NEW i \in 1 .. m, NEW j \in 1 .. m, i < j
      PROVE  p[i].time + p[i].length < p[j].time
    <2> DEFINE n == j - i - 1
    <2>1. n \in Nat /\ i + n + 1 = j /\ j <= m
        BY <1>1, <1>6
    <2>2. n \in S
        BY <1>5, <2>1
    <2> HIDE DEF n
    <2> QED BY <2>1, <2>2
<1>7. ASSUME NEW i \in 1 .. m
      PROVE  p[i].time + p[i].length < now
    <2>1. m > 0 /\ m \in 1 .. m /\ p[m].time + p[m].length < now
        BY <1>1 DEF PastSeq
    <2>2. CASE i = m
        BY <2>1, <2>2
    <2>3. CASE i # m
        <3>1. p[i].time + p[i].length < p[m].time
            BY <1>1, <1>6, <2>1, <2>3
        <3>2. now \in Nat
            BY DetectAssumption
        <3>3. p[i].time \in Nat /\ p[i].length \in Nat /\ p[m].time \in Nat /\ p[m].length \in Nat
            BY <1>2, <2>1
        <3> QED BY <2>1, <3>1, <3>2, <3>3
    <2> QED BY <2>2, <2>3
<1> QED BY <1>2, <1>6, <1>7

(* The rows of a session that ended.                                        *)
LEMMA PastSession ==
    ASSUME now \in Starts, NEW p, NEW m, PastSeq(p, m), NEW i \in 1 .. m, p[i].length # 0
    PROVE  /\ \E q \in PastTable(p, m) : PastRow(q, p, i, 2)
           /\ \E e \in PastTable(p, m) : PastRow(e, p, i, 3)
<1> DEFINE row(k, event, time) ==
              [id |-> 3 * (i - 1) + k, user |-> p[i].user, container |-> p[i].container,
               event |-> event, time |-> time]
           q == row(2, "ssh_connected", p[i].time)
           e == row(3, "ssh_disconnected", p[i].time + p[i].length)
<1>1. q \in Rows(p[i], 3 * (i - 1)) /\ e \in Rows(p[i], 3 * (i - 1))
    BY DEF Rows
<1>2. q \in PastTable(p, m) /\ e \in PastTable(p, m)
    BY <1>1 DEF PastTable
<1>3. i \in Nat
    BY DEF PastSeq
<1>4. 3 * (i - 1) + 2 = 3 * i - 3 + 2 /\ 3 * (i - 1) + 3 = 3 * i - 3 + 3
    BY <1>3
<1>5. PastRow(q, p, i, 2) /\ PastRow(e, p, i, 3)
    BY <1>4 DEF PastRow
<1> QED BY <1>2, <1>5

(* The log with which the behaviours begin is as the invariant says.        *)
LEMMA PastLog ==
    ASSUME now \in Starts, NEW p, NEW m, PastSeq(p, m), sessions = PastTable(p, m),
           session_id = 3 * m, generated = {}, session = "idle",
           ended = {<<3 * i - 1, 3 * i>> : i \in {k \in 1 .. m : p[k].length # 0}}
    PROVE  OrderInv /\ EndsInv /\ LiveInv
<1>1. /\ m \in Nat /\ now \in Nat
      /\ \A i \in 1 .. m : p[i].time \in Nat /\ p[i].length \in Nat
      /\ \A i, j \in 1 .. m : i < j => p[i].time + p[i].length < p[j].time
      /\ \A i \in 1 .. m : p[i].time + p[i].length < now
    BY PastOrder, DetectAssumption DEF PastSeq
<1>2. \A r \in sessions : \E i \in 1 .. m, k \in 1 .. 3 : PastRow(r, p, i, k)
    BY PastRows
<1>3. ASSUME NEW r \in sessions PROVE r.time <= now
    <2>1. PICK i \in 1 .. m, k \in 1 .. 3 : PastRow(r, p, i, k)
        BY <1>2
    <2>2. r.time = p[i].time \/ r.time = p[i].time + p[i].length
        BY <2>1 DEF PastRow
    <2>3. /\ p[i].time \in Nat /\ p[i].length \in Nat
          /\ p[i].time + p[i].length < now
        BY <1>1
    <2> QED BY <1>1, <2>2, <2>3
<1>4. ASSUME NEW q \in sessions, NEW r \in sessions, ~IsAuth(q), ~IsAuth(r), q.id < r.id
      PROVE  q.time < r.time
    <2>1. PICK i \in 1 .. m, k \in 1 .. 3 : PastRow(q, p, i, k)
        BY <1>2
    <2>2. PICK j \in 1 .. m, l \in 1 .. 3 : PastRow(r, p, j, l)
        BY <1>2
    <2>3. k # 1 /\ l # 1
        BY <1>4, <2>1, <2>2 DEF PastRow, IsAuth
    <2>4. i < j \/ (i = j /\ k = 2 /\ l = 3)
        BY <1>1, <1>4, <2>1, <2>2, <2>3 DEF PastRow
    <2>5. /\ q.time \in {p[i].time, p[i].time + p[i].length}
          /\ r.time \in {p[j].time, p[j].time + p[j].length}
          /\ k = 2 => q.time = p[i].time
          /\ l = 3 => r.time = p[j].time + p[j].length /\ p[j].length # 0
        BY <2>1, <2>2 DEF PastRow
    <2>6. /\ p[i].time \in Nat /\ p[i].length \in Nat /\ p[j].time \in Nat /\ p[j].length \in Nat
          /\ i < j => p[i].time + p[i].length < p[j].time
        BY <1>1
    <2> QED BY <2>4, <2>5, <2>6
<1>5. OrderInv
    BY <1>3, <1>4 DEF OrderInv, IsReal
<1>6. ASSUME NEW e \in ended PROVE EndedOK(e[1], e[2])
    <2>1. PICK i \in 1 .. m : p[i].length # 0 /\ e = <<3 * i - 1, 3 * i>>
        OBVIOUS
    <2>2. /\ 3 * i - 1 \in 1 .. session_id /\ 3 * i \in 1 .. session_id /\ 3 * i - 1 < 3 * i
          /\ \A n \in Nat : ~ (3 * i - 1 < n /\ n < 3 * i)
        BY <1>1
    <2>3. \A r \in sessions : r.id \in Nat
        BY PastRows DEF Row
    <2>4. PICK q \in sessions, r \in sessions : PastRow(q, p, i, 2) /\ PastRow(r, p, i, 3)
        BY <2>1, PastSession
    <2>5. /\ q.id = 3 * i - 1 /\ r.id = 3 * i
          /\ q.user = r.user /\ q.container = r.container
          /\ q.event = "ssh_connected" /\ r.event = "ssh_disconnected"
        BY <1>1, <2>4 DEF PastRow
    <2>6. \A x, y \in sessions : x.id = y.id => x = y
        BY PastIds
    <2> QED BY <2>1, <2>2, <2>3, <2>5, <2>6 DEF EndedOK
<1>7. ASSUME NEW r \in sessions, r.event = "ssh_disconnected"
      PROVE  \E e \in ended : e[2] = r.id
    <2>1. PICK i \in 1 .. m, k \in 1 .. 3 : PastRow(r, p, i, k)
        BY <1>2
    <2>2. k = 3 /\ p[i].length # 0 /\ r.id = 3 * i
        BY <1>1, <1>7, <2>1 DEF PastRow
    <2>3. <<3 * i - 1, 3 * i>> \in ended
        BY <2>2
    <2> QED BY <2>2, <2>3
<1> QED BY <1>5, <1>6, <1>7 DEF EndsInv, LiveInv

LEMMA BaselineInitInv == BaselineInit => DetectInv
<1> SUFFICES ASSUME BaselineInit PROVE DetectInv
    OBVIOUS
<1>1. now \in Starts /\ now \in Nat
    BY DetectAssumption DEF BaselineInit, Init
<1>2. PICK p \in Past(now) :
         /\ sessions = UNION {Rows(p[i], 3 * (i - 1)) : i \in DOMAIN p}
         /\ session_id = 3 * Len(p)
         /\ ended = {<<3 * i - 1, 3 * i>> : i \in {k \in DOMAIN p : p[k].length # 0}}
    BY DEF BaselineInit, Init
<1>3. PICK m \in 0 .. MaxPast : p \in [1 .. m -> Visits(now)]
    BY DEF Past, SeqOf
<1>4. m \in Nat /\ Len(p) = m /\ DOMAIN p = 1 .. m
    BY <1>3
<1>5. PastSeq(p, m)
    <2>1. m > 0 => p # << >>
        BY <1>4
    <2> QED BY <1>3, <1>4, <2>1 DEF PastSeq, Past, Last
<1>6. sessions = PastTable(p, m) /\ session_id = 3 * m
    BY <1>2, <1>4 DEF PastTable
<1>7. \A i \in 1 .. m : p[i].user \in Users /\ p[i].length \in Nat
    BY <1>1, <1>5, VisitType DEF PastSeq
<1>8. ended = {<<3 * i - 1, 3 * i>> : i \in {k \in 1 .. m : p[k].length # 0}}
    BY <1>2, <1>4
<1>9. ended \subseteq Nat \X Nat
    <2>1. \A i \in 1 .. m : 3 * i - 1 \in Nat /\ 3 * i \in Nat
        BY <1>4
    <2> QED BY <1>8, <2>1
<1>10. /\ ticks = 0 /\ session = "idle" /\ of = <<GenUser, NoContainer>>
       /\ since = 0 /\ left = MaxSessions /\ opened = 0 /\ anomaly_reports = {} /\ report_id = 0
       /\ pc = "idle" /\ todo = {} /\ user = of[1] /\ asOf = 0 /\ baseline = << >>
       /\ recent = << >> /\ raced = FALSE
       /\ gen = "off" /\ genNow = 0 /\ day = 0 /\ n_sessions = 0 /\ generated = {}
    BY DEF BaselineInit, Init, GenUser
<1>11. BaselineTypeOK
    <2>1. sessions \subseteq Row /\ IsFiniteSet(sessions) /\ session_id \in Nat
        BY <1>1, <1>4, <1>5, <1>6, PastRows, PastIds
    <2>3. MaxTicks \in Nat /\ MaxSessions \in Nat /\ Days \in Nat
        BY DetectAssumption, DayPositive
    <2>4. of \in Users \X (Containers \cup {NoContainer}) /\ user \in Users
        BY <1>10, Chosen
    <2>5. raced \in BOOLEAN
        BY <1>10
    <2>6. baseline \in Seq(Row) /\ recent \in Seq(Row)
        BY <1>10
    <2>7. ticks \in 0 .. MaxTicks /\ left \in 0 .. MaxSessions /\ day \in 0 .. Days
        BY <1>10, <2>3
    <2> QED BY <1>1, <1>9, <1>10, <2>1, <2>4, <2>5, <2>6, <2>7 DEF BaselineTypeOK, DetectTypeOK
<1>12. IdsInv
    <2>1. \A r \in sessions : r.id <= session_id
        BY <1>1, <1>5, <1>6, PastIds
    <2>2. \A q, r \in sessions : q.id = r.id => q = r
        BY <1>1, <1>5, <1>6, PastIds
    <2> QED BY <1>10, <2>1, <2>2 DEF IdsInv
<1>13. ClockInv
    <2>1. Days * Day <= now
        BY <1>1, GeneratorAssumption
    <2> QED BY <1>1, <1>10, <2>1 DEF ClockInv
<1>14. BaselineInv /\ RecentInv
    BY <1>10 DEF BaselineInv, RecentInv
<1>15. OrderInv /\ EndsInv /\ LiveInv
    BY <1>1, <1>5, <1>6, <1>8, <1>10, PastLog
<1>16. HourInv
    BY <1>10 DEF HourInv
<1> QED BY <1>11, <1>12, <1>13, <1>14, <1>15, <1>16 DEF DetectInv

--------------------------------------------------------------------------------
(***************************************************************************)
(* The manager's log                                                       *)
(***************************************************************************)

LEMMA ReportType ==
    ASSUME NEW n \in Nat, NEW u \in Users, NEW baseRows, NEW recentRows,
           Anomalies(baseRows, recentRows) # {}
    PROVE  [id |-> n, user |-> u, type |-> AnomalyType(Anomalies(baseRows, recentRows)),
            severity |-> Severity(Anomalies(baseRows, recentRows)), status |-> "pending"] \in Report
<1> DEFINE found == Anomalies(baseRows, recentRows)
<1>1. \A a \in found : a.type \in AnomalyNames /\ a.level \in 1 .. 3
    BY AnomaliesType
<1> HIDE DEF found
<1>2. found # {}
    BY DEF found
<1>3. Severity(found) \in 1 .. 3 /\ AnomalyType(found) \in AnomalyNames \cup {"composite"}
    BY <1>1, <1>2, VerdictType
<1> QED BY <1>3 DEF Report, AnomalyNames, found

(* What the parts of the invariant need of a step that leaves the tables     *)
(* alone or adds rows to them.                                              *)
LEMMA AnswersGrow ==
    ASSUME NEW rows, NEW u, NEW from, Answers(rows, u, from), sessions \subseteq sessions',
           \A q \in sessions, r \in sessions' : r \in sessions \/ ~ (r.id <= q.id)
    PROVE  Answers(rows, u, from)'
BY DEF Answers

LEMMA RecentFrame ==
    ASSUME RecentInv, UNCHANGED <<pc, user, asOf, baseline, recent>>, raced => raced',
           sessions \subseteq sessions',
           \A q \in sessions, r \in sessions' : r \in sessions \/ ~ (r.id <= q.id)
    PROVE  RecentInv'
<1> SUFFICES ASSUME pc = "judge"
             PROVE  /\ Answers(recent, user, asOf - Day)'
                    /\ \A i \in DOMAIN baseline :
                         baseline[i].time >= asOf - Day => \E j \in DOMAIN recent : recent[j] = baseline[i]
                    /\ RecentInBaseline'
    BY DEF RecentInv
<1>1. Answers(recent, user, asOf - Day)'
    BY AnswersGrow DEF RecentInv, Answers
<1>2. RecentInBaseline'
    BY DEF RecentInv, RecentInBaseline
<1> QED BY <1>1, <1>2 DEF RecentInv

LEMMA BaselineFrame ==
    ASSUME BaselineInv, UNCHANGED <<pc, user, asOf, baseline, sessions, raced>>
    PROVE  BaselineInv'
BY DEF BaselineInv, Answers, Since

LEMMA LogFrame ==
    ASSUME OrderInv, EndsInv, LiveInv,
           UNCHANGED <<sessions, session_id, session, of, since, opened, ended, now, generated>>
    PROVE  OrderInv' /\ EndsInv' /\ LiveInv'
BY DEF OrderInv, EndsInv, EndedOK, LiveInv, IsReal

LEMMA HourFrame ==
    ASSUME HourInv, UNCHANGED <<sessions, generated, genNow, gen>>
    PROVE  HourInv'
BY DEF HourInv

(* A new row.                                                               *)
NewRow(u, c, event) ==
    [id |-> session_id + 1, user |-> u, container |-> c, event |-> event, time |-> now]

(* What each row of the manager leaves of the invariant: only the log of    *)
(* whole sessions depends on the event.                                     *)
LEMMA LogsStep ==
    ASSUME DetectInv, NEW u \in Users, NEW c \in Containers \cup {NoContainer},
           NEW event \in Events, Logs(u, c, event), UNCHANGED <<gen, genNow, generated>>
    PROVE  /\ sessions' = sessions \cup {NewRow(u, c, event)}
           /\ NewRow(u, c, event) \in Row
           /\ sessions' \subseteq Row /\ IsFiniteSet(sessions') /\ session_id' \in Nat
           /\ \A r \in sessions : r.id < NewRow(u, c, event).id
           /\ NewRow(u, c, event).id = session_id' /\ session_id' = session_id + 1
           /\ raced' \in BOOLEAN
           /\ IdsInv' /\ BaselineInv' /\ RecentInv' /\ HourInv'
<1> DEFINE r0 == NewRow(u, c, event)
<1>1. sessions' = sessions \cup {r0} /\ session_id' = session_id + 1
    BY DEF Logs, Insert, NewRow
<1>2. /\ now \in Nat /\ session_id \in Nat /\ sessions \subseteq Row /\ IsFiniteSet(sessions)
      /\ raced \in BOOLEAN
    BY DEF DetectInv, BaselineTypeOK, DetectTypeOK
<1>3. r0 \in Row /\ r0.id = session_id + 1 /\ r0.user = u /\ r0.event = event
    BY <1>2 DEF NewRow, Row
<1>4. sessions' \subseteq Row /\ IsFiniteSet(sessions') /\ session_id' \in Nat
    BY <1>1, <1>2, <1>3, FS_AddElement
<1>5. \A r \in sessions : r.id \in Nat /\ r.id <= session_id
    BY <1>2 DEF DetectInv, IdsInv, Row
<1>6. \A r \in sessions : r.id < r0.id
    BY <1>2, <1>3, <1>5
<1> HIDE DEF r0
<1>7. IdsInv'
    <2>1. \A r \in sessions' : r.id <= session_id'
        BY <1>1, <1>2, <1>3, <1>5
    <2>2. \A q, r \in sessions' : q.id = r.id => q = r
        <3>1. \A r \in sessions : r.id # r0.id
            BY <1>2, <1>3, <1>5
        <3> QED BY <1>1, <3>1 DEF DetectInv, IdsInv
    <2>3. generated' \subseteq 1 .. session_id'
        BY <1>1, <1>2 DEF DetectInv, IdsInv
    <2> QED BY <2>1, <2>2, <2>3 DEF IdsInv
<1>8. /\ raced' = (raced \/ (pc = "recent" /\ u = user))
      /\ UNCHANGED <<pc, user, asOf, baseline, recent>>
    BY DEF Logs, detectorVars
<1>12. \A q \in sessions, r \in sessions' : r \in sessions \/ ~ (r.id <= q.id)
    BY <1>1, <1>2, <1>3, <1>5
<1>9. BaselineInv'
    <2> SUFFICES ASSUME pc \in {"recent", "judge"}
                 PROVE  /\ Answers(baseline, user, Since)'
                        /\ pc = "recent" /\ ~raced' =>
                              \A r \in sessions' : r.user = user /\ r.time >= Since =>
                                  \E j \in DOMAIN baseline : baseline[j] = r
        BY <1>8 DEF BaselineInv, Since
    <2>1. /\ Answers(baseline, user, Since)
          /\ pc = "recent" /\ ~raced =>
                \A r \in sessions : r.user = user /\ r.time >= Since =>
                    \E j \in DOMAIN baseline : baseline[j] = r
        BY DEF DetectInv, BaselineInv
    <2>2. Answers(baseline, user, Since)'
        BY <1>1, <1>5, <1>8, <1>12, <2>1 DEF Answers, Since
    <2>4. raced' = FALSE /\ pc = "recent" => r0.user # user /\ ~raced
        BY <1>3, <1>8
    <2> QED BY <1>1, <2>1, <2>2, <2>4
<1>10. RecentInv'
    BY <1>1, <1>8, <1>12, RecentFrame DEF DetectInv
<1>11. HourInv'
    <2>1. r0.id \notin generated
        BY <1>2, <1>3 DEF DetectInv, IdsInv
    <2> QED BY <1>1, <2>1 DEF DetectInv, HourInv
<1> QED BY <1>1, <1>2, <1>3, <1>4, <1>6, <1>7, <1>8, <1>9, <1>10, <1>11 DEF r0

(* What a row of the manager, logged now, does to the order of the rows.     *)
LEMMA OrderKept ==
    ASSUME OrderInv, Tables, now \in Nat, NEW r0, sessions' = sessions \cup {r0},
           r0.id \in Nat, r0.time = now, \A r \in sessions : r.id < r0.id,
           generated' = generated, now' = now, since \in Nat,
           since' = now \/ session' = "idle" \/ (IsAuth(r0) /\ since' = since /\ session' = session),
           IsAuth(r0) \/ (session # "idle" /\ now > since)
    PROVE  OrderInv'
<1>1. \A r \in sessions : r.id \in Nat /\ r.time \in Nat
    BY DEF Tables, Row
<1>2. \A r : IsReal(r)' <=> IsReal(r)
    BY DEF IsReal
<1>3. \A q, r \in sessions : IsReal(q) /\ IsReal(r) /\ q.id < r.id => q.time < r.time
    BY DEF OrderInv
<1>4. \A r \in sessions : IsReal(r) => r.time <= now /\ (session # "idle" => r.time <= since)
    BY DEF OrderInv
<1>5. IsReal(r0) => \A r \in sessions : IsReal(r) => r.time < r0.time
    BY <1>1, <1>4 DEF IsReal
<1>6. \A r \in sessions : ~ (r0.id < r.id)
    BY <1>1
<1>7. ASSUME NEW q \in sessions', NEW r \in sessions', IsReal(q), IsReal(r), q.id < r.id
      PROVE  q.time < r.time
    BY <1>3, <1>5, <1>6, <1>7
<1>8. ASSUME NEW r \in sessions', IsReal(r)
      PROVE  r.time <= now /\ (session' # "idle" => r.time <= since')
    <2>1. CASE r \in sessions
        BY <1>4, <1>8, <2>1
    <2>2. CASE r = r0
        BY <1>8, <2>2 DEF IsReal
    <2> QED BY <2>1, <2>2
<1> QED BY <1>2, <1>7, <1>8 DEF OrderInv

(* A session that ended stays as it is.                                     *)
LEMMA EndedKept ==
    ASSUME Tables, session_id \in Nat, NEW a, NEW b, EndedOK(a, b),
           NEW r0, sessions' = sessions \cup {r0}, r0.id = session_id + 1,
           session_id' = session_id + 1, generated' = generated
    PROVE  EndedOK(a, b)'
<1>1. a \in 1 .. session_id /\ b \in 1 .. session_id /\ r0.id # a /\ r0.id # b /\ ~ (r0.id < b)
    BY DEF EndedOK
<1>2. a \in 1 .. session_id' /\ b \in 1 .. session_id'
    BY <1>1
<1>3. \A r : IsReal(r)' <=> IsReal(r)
    BY DEF IsReal
<1> QED BY <1>1, <1>2, <1>3 DEF EndedOK

(* The rows of an authentication, or of its failure, concern no session.    *)
LEMMA AuthKept ==
    ASSUME DetectInv, NEW u \in Users, NEW event \in {"auth_ok", "auth_fail"},
           Logs(u, NoContainer, event), UNCHANGED <<gen, genNow, generated, opened, ended>>,
           session = "idle", session' # "connected",
           since' = now \/ (since' = since /\ session' = session)
    PROVE  OrderInv' /\ EndsInv' /\ LiveInv'
<1>0. PICK r0 : r0 = NewRow(u, NoContainer, event)
    OBVIOUS
<1>1. /\ sessions' = sessions \cup {r0} /\ r0 \in Row /\ r0.id = session_id + 1
      /\ session_id' = session_id + 1 /\ \A r \in sessions : r.id < r0.id
    BY <1>0, LogsStep DEF Events
<1>2. r0.time = now /\ IsAuth(r0) /\ r0.id \in Nat
    BY <1>0, <1>1 DEF NewRow, IsAuth, Row
<1>3. /\ OrderInv /\ EndsInv /\ Tables /\ now \in Nat /\ since \in Nat /\ session_id \in Nat
    BY DEF DetectInv, Tables, BaselineTypeOK, DetectTypeOK
<1>4. now' = now
    BY DEF Logs
<1>5. OrderInv'
    BY <1>1, <1>2, <1>3, <1>4, OrderKept
<1>6. EndsInv'
    <2>1. \A e \in ended' : EndedOK(e[1], e[2])'
        BY <1>1, <1>3, EndedKept DEF EndsInv
    <2>2. \A r : IsReal(r)' <=> IsReal(r)
        BY DEF IsReal
    <2>3. ~ IsReal(r0)
        BY <1>2 DEF IsReal
    <2> QED BY <1>1, <1>3, <2>1, <2>2, <2>3 DEF EndsInv
<1> QED BY <1>5, <1>6 DEF LiveInv

LEMMA AuthenticateStep ==
    ASSUME DetectInv, NEW u \in Users, NEW c \in Containers, Authenticate(u, c),
           UNCHANGED genVars, gen \in {"off", "done"}
    PROVE  DetectInv'
<1>1. Logs(u, NoContainer, "auth_ok") /\ UNCHANGED <<gen, genNow, generated, day, n_sessions>>
    BY DEF Authenticate, genVars
<1>2. /\ session = "idle" /\ session' = "authenticated" /\ of' = <<u, c>> /\ left > 0 /\ left' = left - 1
      /\ since' = now /\ UNCHANGED <<opened, ended>>
    BY DEF Authenticate
<1>3. UNCHANGED <<now, ticks, anomaly_reports, report_id, detectorVars>>
    BY <1>1 DEF Logs
<1>4. BaselineTypeOK /\ now \in Nat
    BY DEF DetectInv, BaselineTypeOK, DetectTypeOK
<1>5. /\ sessions' \subseteq Row /\ IsFiniteSet(sessions') /\ session_id' \in Nat /\ raced' \in BOOLEAN
      /\ IdsInv' /\ BaselineInv' /\ RecentInv' /\ HourInv'
    BY <1>1, LogsStep DEF Events
<1>6. BaselineTypeOK'
    <2>1. left' \in 0 .. MaxSessions
        BY <1>2, <1>4, DetectAssumption DEF BaselineTypeOK, DetectTypeOK
    <2> QED BY <1>1, <1>2, <1>3, <1>4, <1>5, <2>1 DEF BaselineTypeOK, DetectTypeOK, detectorVars
<1>7. ClockInv'
    BY <1>1, <1>2, <1>3, <1>4 DEF DetectInv, ClockInv
<1>8. OrderInv' /\ EndsInv' /\ LiveInv'
    BY <1>1, <1>2, AuthKept
<1> QED BY <1>5, <1>6, <1>7, <1>8 DEF DetectInv

LEMMA RejectStep ==
    ASSUME DetectInv, NEW u \in Users, Reject(u), UNCHANGED genVars, gen \in {"off", "done"}
    PROVE  DetectInv'
<1>1. Logs(u, NoContainer, "auth_fail") /\ UNCHANGED <<gen, genNow, generated, day, n_sessions>>
    BY DEF Reject, genVars
<1>2. /\ session = "idle" /\ left > 0 /\ left' = left - 1
      /\ UNCHANGED <<session, of, since, opened, ended>>
    BY DEF Reject
<1>3. UNCHANGED <<now, ticks, anomaly_reports, report_id, detectorVars>>
    BY <1>1 DEF Logs
<1>4. BaselineTypeOK
    BY DEF DetectInv
<1>5. /\ sessions' \subseteq Row /\ IsFiniteSet(sessions') /\ session_id' \in Nat /\ raced' \in BOOLEAN
      /\ IdsInv' /\ BaselineInv' /\ RecentInv' /\ HourInv'
    BY <1>1, LogsStep DEF Events
<1>6. BaselineTypeOK'
    <2>1. left' \in 0 .. MaxSessions
        BY <1>2, <1>4, DetectAssumption DEF BaselineTypeOK, DetectTypeOK
    <2> QED BY <1>1, <1>2, <1>3, <1>4, <1>5, <2>1 DEF BaselineTypeOK, DetectTypeOK, detectorVars
<1>7. ClockInv'
    BY <1>1, <1>2, <1>3 DEF DetectInv, ClockInv
<1>8. OrderInv' /\ EndsInv' /\ LiveInv'
    BY <1>1, <1>2, AuthKept
<1> QED BY <1>5, <1>6, <1>7, <1>8 DEF DetectInv

LEMMA AbandonStep ==
    ASSUME DetectInv, Abandon, UNCHANGED genVars, gen \in {"off", "done"}
    PROVE  DetectInv'
<1>1. /\ session' = "idle"
      /\ UNCHANGED <<now, ticks, sessions, session_id, anomaly_reports, report_id, of, since, left,
                     opened, ended, pc, todo, user, asOf, baseline, recent, raced, gen, genNow, day,
                     n_sessions, generated>>
    BY DEF Abandon, tableVars, detectorVars, genVars
<1>2. BaselineTypeOK'
    BY <1>1 DEF DetectInv, BaselineTypeOK, DetectTypeOK
<1>3. IdsInv' /\ ClockInv'
    BY <1>1 DEF DetectInv, IdsInv, ClockInv
<1>4. BaselineInv' /\ RecentInv' /\ HourInv'
    <2>1. \A q \in sessions, r \in sessions' : r \in sessions \/ ~ (r.id <= q.id)
        BY <1>1
    <2> QED BY <1>1, <2>1, BaselineFrame, RecentFrame, HourFrame DEF DetectInv
<1>5. OrderInv' /\ EndsInv' /\ LiveInv'
    BY <1>1 DEF DetectInv, OrderInv, EndsInv, EndedOK, LiveInv, IsReal
<1> QED BY <1>2, <1>3, <1>4, <1>5 DEF DetectInv

LEMMA ConnectStep ==
    ASSUME DetectInv, Connect, UNCHANGED genVars, gen \in {"off", "done"}
    PROVE  DetectInv'
<1>0. PICK r0 : r0 = NewRow(of[1], of[2], "ssh_connected")
    OBVIOUS
<1>1. Logs(of[1], of[2], "ssh_connected") /\ UNCHANGED <<gen, genNow, generated, day, n_sessions>>
    BY DEF Connect, genVars
<1>2. /\ session = "authenticated" /\ now > since /\ session' = "connected" /\ since' = now
      /\ opened' = session_id' /\ UNCHANGED <<of, left, ended>>
    BY DEF Connect
<1>3. UNCHANGED <<now, ticks, anomaly_reports, report_id, detectorVars>>
    BY <1>1 DEF Logs
<1>4. BaselineTypeOK
    BY DEF DetectInv
<1>5. /\ of[1] \in Users /\ of[2] \in Containers \cup {NoContainer}
      /\ now \in Nat /\ since \in Nat /\ session_id \in Nat
    BY <1>4 DEF BaselineTypeOK, DetectTypeOK
<1>6. /\ sessions' = sessions \cup {r0} /\ r0 \in Row
      /\ sessions' \subseteq Row /\ IsFiniteSet(sessions') /\ session_id' \in Nat /\ raced' \in BOOLEAN
      /\ \A r \in sessions : r.id < r0.id
      /\ r0.id = session_id + 1 /\ session_id' = session_id + 1
      /\ IdsInv' /\ BaselineInv' /\ RecentInv' /\ HourInv'
    BY <1>0, <1>1, <1>5, LogsStep DEF Events
<1>7. BaselineTypeOK'
    BY <1>1, <1>2, <1>3, <1>4, <1>6 DEF BaselineTypeOK, DetectTypeOK, detectorVars
<1>8. ClockInv'
    BY <1>1, <1>2, <1>3, <1>5 DEF DetectInv, ClockInv
<1>9. OrderInv /\ EndsInv /\ Tables /\ generated \subseteq 1 .. session_id
    BY <1>4 DEF DetectInv, Tables, BaselineTypeOK, DetectTypeOK, IdsInv
<1>10. /\ r0.user = of[1] /\ r0.container = of[2] /\ r0.time = now /\ r0.id \in Nat
       /\ r0.event = "ssh_connected"
    BY <1>0, <1>6 DEF NewRow, Row
<1>11. OrderInv'
    BY <1>1, <1>2, <1>3, <1>5, <1>6, <1>9, <1>10, OrderKept
<1>12. EndsInv'
    <2>1. \A e \in ended' : EndedOK(e[1], e[2])'
        BY <1>1, <1>2, <1>5, <1>6, <1>9, EndedKept DEF EndsInv
    <2>2. \A r : IsReal(r)' <=> IsReal(r)
        BY <1>1 DEF IsReal
    <2> QED BY <1>2, <1>6, <1>9, <1>10, <2>1, <2>2 DEF EndsInv
<1>13. LiveInv'
    <2>1. opened' \in 1 .. session_id' /\ opened' \notin generated' /\ opened' = r0.id
        BY <1>1, <1>2, <1>5, <1>6, <1>9
    <2>2. \A q \in sessions' : q.id = opened' => q = r0
        <3>1. \A q \in sessions : q.id \in Nat /\ q.id # r0.id
            BY <1>6, <1>9, <1>10 DEF Tables, Row
        <3> QED BY <1>6, <2>1, <3>1
    <2>3. \A q \in sessions' : q.id <= opened'
        <3>1. \A q \in sessions : q.id \in Nat
            BY <1>9 DEF Tables, Row
        <3> QED BY <1>6, <1>10, <2>1, <3>1
    <2> QED BY <1>2, <1>6, <1>10, <2>1, <2>2, <2>3 DEF LiveInv
<1> QED BY <1>6, <1>7, <1>8, <1>11, <1>12, <1>13 DEF DetectInv

LEMMA EndStep ==
    ASSUME DetectInv, NEW event \in {"ssh_disconnected", "timeout"}, End(event),
           UNCHANGED genVars, gen \in {"off", "done"}
    PROVE  DetectInv'
<1>0. PICK r0 : r0 = NewRow(of[1], of[2], event)
    OBVIOUS
<1>1. Logs(of[1], of[2], event) /\ UNCHANGED <<gen, genNow, generated, day, n_sessions>>
    BY DEF End, genVars
<1>2. /\ session = "connected" \/ (session = "authenticated" /\ event = "timeout")
      /\ now > since /\ session' = "idle" /\ UNCHANGED <<of, since, left, opened>>
      /\ session = "connected" => ended' = ended \cup {<<opened, session_id'>>}
      /\ session # "connected" => ended' = ended
    BY DEF End
<1>3. UNCHANGED <<now, ticks, anomaly_reports, report_id, detectorVars>>
    BY <1>1 DEF Logs
<1>4. BaselineTypeOK
    BY DEF DetectInv
<1>5. /\ of[1] \in Users /\ of[2] \in Containers \cup {NoContainer}
      /\ now \in Nat /\ since \in Nat /\ session_id \in Nat /\ opened \in Nat
      /\ ended \subseteq Nat \X Nat
    BY <1>4 DEF BaselineTypeOK, DetectTypeOK
<1>6. /\ sessions' = sessions \cup {r0} /\ r0 \in Row
      /\ sessions' \subseteq Row /\ IsFiniteSet(sessions') /\ session_id' \in Nat /\ raced' \in BOOLEAN
      /\ \A r \in sessions : r.id < r0.id
      /\ r0.id = session_id + 1 /\ session_id' = session_id + 1
      /\ IdsInv' /\ BaselineInv' /\ RecentInv' /\ HourInv'
    BY <1>0, <1>1, <1>5, LogsStep DEF Events
<1>7. BaselineTypeOK'
    <2>1. ended' \subseteq Nat \X Nat
        BY <1>2, <1>5, <1>6
    <2> QED BY <1>1, <1>2, <1>3, <1>4, <1>6, <2>1 DEF BaselineTypeOK, DetectTypeOK, detectorVars
<1>8. ClockInv'
    BY <1>1, <1>2, <1>3 DEF DetectInv, ClockInv
<1>9. OrderInv /\ EndsInv /\ LiveInv /\ Tables /\ generated \subseteq 1 .. session_id
    BY <1>4 DEF DetectInv, Tables, BaselineTypeOK, DetectTypeOK, IdsInv
<1>10. /\ r0.user = of[1] /\ r0.container = of[2] /\ r0.time = now /\ r0.id \in Nat
       /\ r0.event = event
    BY <1>0, <1>6 DEF NewRow, Row
<1>11. OrderInv'
    BY <1>1, <1>2, <1>3, <1>5, <1>6, <1>9, <1>10, OrderKept
<1>12. \A r : IsReal(r)' <=> IsReal(r)
    BY <1>1 DEF IsReal
<1>13. ASSUME session = "connected", NEW n, n = session_id'
       PROVE  EndedOK(opened, n)'
    <2>1. /\ opened \in 1 .. session_id /\ opened \notin generated
          /\ \E q \in sessions : q.id = opened
          /\ \A q \in sessions :
                q.id = opened => q.event = "ssh_connected" /\ q.user = of[1] /\ q.container = of[2]
          /\ \A r \in sessions : IsReal(r) => r.id <= opened
        BY <1>9, <1>13 DEF LiveInv
    <2>2. \A r \in sessions : r.id \in Nat /\ r.id # n
        BY <1>6, <1>9, <1>10, <1>13 DEF Tables, Row
    <2>3. /\ opened \in 1 .. session_id' /\ n \in 1 .. session_id' /\ opened < n
          /\ opened # n /\ n \notin generated
        BY <1>5, <1>6, <1>9, <1>13, <2>1
    <2>4. \A r \in sessions' : IsReal(r) => ~ (opened < r.id /\ r.id < n)
        BY <1>6, <2>1, <2>2, <2>3
    <2>5. (\E q \in sessions' : q.id = opened) /\ (\E r \in sessions' : r.id = n)
        BY <1>6, <1>13, <2>1
    <2>6. \A q, r \in sessions' : q.id = opened /\ r.id = n => q \in sessions /\ r = r0
        BY <1>6, <2>2, <2>3
    <2> QED BY <1>1, <1>2, <1>10, <1>12, <2>1, <2>3, <2>4, <2>5, <2>6 DEF EndedOK
<1>14. EndsInv'
    <2>1. \A e \in ended : EndedOK(e[1], e[2])'
        BY <1>1, <1>5, <1>6, <1>9, EndedKept DEF EndsInv
    <2>2. \A e \in ended' : EndedOK(e[1], e[2])'
        BY <1>2, <1>13, <2>1
    <2>3. ASSUME NEW r \in sessions', IsReal(r), r.event = "ssh_disconnected"
          PROVE  \E e \in ended' : e[2] = r.id
        <3>1. CASE r \in sessions
            BY <1>2, <1>9, <2>3, <3>1 DEF EndsInv
        <3>2. CASE r = r0
            <4>1. session = "connected"
                BY <1>2, <1>10, <2>3, <3>2
            <4>2. <<opened, session_id'>> \in ended' /\ r.id = session_id'
                BY <1>2, <1>6, <3>2, <4>1
            <4> QED BY <4>2
        <3> QED BY <1>6, <3>1, <3>2
    <2> QED BY <1>12, <2>2, <2>3 DEF EndsInv
<1>15. LiveInv'
    BY <1>2 DEF LiveInv
<1> QED BY <1>6, <1>7, <1>8, <1>11, <1>14, <1>15 DEF DetectInv

LEMMA TickStep ==
    ASSUME DetectInv, Tick, UNCHANGED genVars
    PROVE  DetectInv'
<1>1. BaselineTypeOK /\ now \in Nat
    BY DEF DetectInv, BaselineTypeOK, DetectTypeOK
<1>2. now' \in Nat /\ now <= now'
    BY <1>1, DetectAssumption DEF Tick
<1>3. /\ ticks < MaxTicks /\ ticks' = ticks + 1
      /\ UNCHANGED <<sessions, session_id, anomaly_reports, report_id, session, of, since, left, opened,
                     ended, pc, todo, user, asOf, baseline, recent, raced, gen, genNow, day, n_sessions,
                     generated>>
    BY DEF Tick, tableVars, managerVars, detectorVars, genVars
<1>4. BaselineTypeOK'
    <2>1. ticks' \in 0 .. MaxTicks
        BY <1>1, <1>3, DetectAssumption DEF BaselineTypeOK, DetectTypeOK
    <2> QED BY <1>1, <1>2, <1>3, <2>1 DEF BaselineTypeOK, DetectTypeOK
<1>5. IdsInv'
    BY <1>3 DEF DetectInv, IdsInv
<1>6. ClockInv'
    <2>1. Days * Day \in Int
        BY DayPositive
    <2>2. Days * Day <= now' /\ since <= now'
        BY <1>1, <1>2, <2>1 DEF DetectInv, ClockInv, BaselineTypeOK, DetectTypeOK
    <2> QED BY <1>3, <2>2 DEF DetectInv, ClockInv
<1>7. BaselineInv' /\ RecentInv' /\ HourInv'
    <2>1. \A q \in sessions, r \in sessions' : r \in sessions \/ ~ (r.id <= q.id)
        BY <1>3
    <2> QED BY <1>3, <2>1, BaselineFrame, RecentFrame, HourFrame DEF DetectInv
<1>8. OrderInv' /\ EndsInv' /\ LiveInv'
    <2>1. \A r \in sessions : r.time \in Nat
        BY <1>1 DEF BaselineTypeOK, DetectTypeOK, Row
    <2>2. \A r \in sessions : r.time <= now => r.time <= now'
        BY <1>1, <1>2, <2>1
    <2> QED BY <1>3, <2>2 DEF DetectInv, OrderInv, EndsInv, EndedOK, LiveInv, IsReal
<1> QED BY <1>4, <1>5, <1>6, <1>7, <1>8 DEF DetectInv

--------------------------------------------------------------------------------
(***************************************************************************)
(* The detector                                                            *)
(***************************************************************************)

(* What no step of the detector changes.                                    *)
LEMMA DetectorFrame ==
    ASSUME DetectInv, gen \in {"off", "done"},
           UNCHANGED <<now, sessions, session_id, session, of, since, opened, ended,
                       gen, genNow, generated, day>>
    PROVE  IdsInv' /\ ClockInv' /\ OrderInv' /\ EndsInv' /\ LiveInv' /\ HourInv'
<1>1. IdsInv'
    BY DEF DetectInv, IdsInv
<1>2. ClockInv'
    BY DEF DetectInv, ClockInv
<1>3. OrderInv' /\ EndsInv' /\ LiveInv' /\ HourInv'
    BY LogFrame, HourFrame DEF DetectInv
<1> QED BY <1>1, <1>2, <1>3

LEMMA StartStopStep ==
    ASSUME DetectInv, StartDetector \/ StopDetector, UNCHANGED genVars, gen \in {"off", "done"}
    PROVE  DetectInv'
<1>1. /\ UNCHANGED <<now, ticks, sessions, session_id, anomaly_reports, report_id, session, of, since,
                     left, opened, ended, user, asOf, baseline, recent, raced, gen, genNow, day,
                     n_sessions, generated>>
      /\ pc' \in {"idle", "next"} /\ todo' \subseteq Users
    BY DEF StartDetector, StopDetector, tableVars, managerVars, genVars, get_all_users,
           DetectInv, BaselineTypeOK, DetectTypeOK
<1>2. BaselineTypeOK'
    BY <1>1 DEF DetectInv, BaselineTypeOK, DetectTypeOK
<1>3. BaselineInv' /\ RecentInv'
    BY <1>1 DEF BaselineInv, RecentInv
<1> QED BY <1>1, <1>2, <1>3, DetectorFrame DEF DetectInv

LEMMA ReadBaselineStep ==
    ASSUME DetectInv, NEW u \in Users, ReadBaseline(u), UNCHANGED genVars, gen \in {"off", "done"}
    PROVE  DetectInv'
<1>1. /\ UNCHANGED <<now, ticks, sessions, session_id, anomaly_reports, report_id, session, of, since,
                     left, opened, ended, recent, gen, genNow, day, n_sessions, generated>>
      /\ pc' = "recent" /\ raced' = FALSE /\ user' = u /\ asOf' = now /\ todo' = todo \ {u}
    BY DEF ReadBaseline, tableVars, managerVars, genVars
<1>2. PICK ties : baseline' = GetSessions(u, now - Window * Day, ties)
    BY DEF ReadBaseline
<1>3. BaselineTypeOK /\ now \in Nat /\ Tables /\ \A q, r \in sessions : q.id = r.id => q = r
    BY DEF DetectInv, BaselineTypeOK, DetectTypeOK, Tables, IdsInv
<1>4. now - Window * Day \in Int
    BY <1>3, DayPositive
<1>5. /\ baseline' \in Seq(Row)
      /\ Answers(baseline', u, now - Window * Day)
      /\ \A r \in sessions : r.user = u /\ r.time >= now - Window * Day =>
            \E j \in DOMAIN baseline' : baseline'[j] = r
    <2>1. PICK rows : rows = GetSessions(u, now - Window * Day, ties)
        OBVIOUS
    <2>2. /\ rows \in Seq(Row)
          /\ Answers(rows, u, now - Window * Day)
          /\ \A r \in sessions : r.user = u /\ r.time >= now - Window * Day =>
                \E j \in DOMAIN rows : rows[j] = r
        BY <1>3, <1>4, <2>1, GetSessionsRows
    <2>3. baseline' = rows
        BY <1>2, <2>1
    <2> QED BY <2>2, <2>3
<1>6. BaselineTypeOK'
    BY <1>1, <1>3, <1>5 DEF BaselineTypeOK, DetectTypeOK
<1>7. BaselineInv'
    BY <1>1, <1>5 DEF BaselineInv, Answers, Since
<1>8. RecentInv'
    BY <1>1 DEF RecentInv
<1> QED BY <1>1, <1>6, <1>7, <1>8, DetectorFrame DEF DetectInv

LEMMA ReadRecentStep ==
    ASSUME DetectInv, ReadRecent, UNCHANGED genVars, gen \in {"off", "done"}
    PROVE  DetectInv'
<1>1. /\ UNCHANGED <<now, ticks, sessions, session_id, anomaly_reports, report_id, session, of, since,
                     left, opened, ended, todo, user, asOf, baseline, raced, gen, genNow, day,
                     n_sessions, generated>>
      /\ pc = "recent" /\ pc' = "judge"
    BY DEF ReadRecent, tableVars, managerVars, genVars
<1>2. PICK ties : recent' = GetSessions(user, asOf - Day, ties)
    BY DEF ReadRecent
<1>3. BaselineTypeOK /\ asOf \in Nat /\ Tables /\ \A q, r \in sessions : q.id = r.id => q = r
    BY DEF DetectInv, BaselineTypeOK, DetectTypeOK, Tables, IdsInv
<1>4. asOf - Day \in Int /\ Since \in Int /\ Since <= asOf - Day
    <2>1. Window * Day >= Day /\ Window * Day \in Nat /\ Day \in Nat
        <3>1. (Window - 1) * Day >= 0 /\ (Window - 1) * Day = Window * Day - Day
            BY DayPositive
        <3> QED BY <3>1, DayPositive
    <2> QED BY <1>3, <2>1 DEF Since
<1>5. /\ recent' \in Seq(Row)
      /\ Answers(recent', user, asOf - Day)
      /\ \A r \in sessions : r.user = user /\ r.time >= asOf - Day =>
            \E j \in DOMAIN recent' : recent'[j] = r
    BY <1>2, <1>3, <1>4, GetSessionsRows
<1>6. BaselineTypeOK'
    BY <1>1, <1>3, <1>5 DEF BaselineTypeOK, DetectTypeOK
<1>7. BaselineInv'
    BY <1>1 DEF DetectInv, BaselineInv, Answers, Since
<1>8. /\ Answers(baseline, user, Since)
      /\ ~raced => \A r \in sessions :
            r.user = user /\ r.time >= Since => \E j \in DOMAIN baseline : baseline[j] = r
    BY <1>1 DEF DetectInv, BaselineInv
<1>9. \A i \in DOMAIN baseline :
          baseline[i].time >= asOf - Day => \E j \in DOMAIN recent' : recent'[j] = baseline[i]
    BY <1>5, <1>8 DEF Answers
<1>10. ~raced => \A i \in DOMAIN recent' : \E j \in DOMAIN baseline : baseline[j] = recent'[i]
    <2> SUFFICES ASSUME ~raced, NEW i \in DOMAIN recent'
                 PROVE  \E j \in DOMAIN baseline : baseline[j] = recent'[i]
        OBVIOUS
    <2>1. /\ recent'[i] \in sessions /\ recent'[i].user = user /\ recent'[i].time >= asOf - Day
          /\ recent'[i].time \in Int
        BY <1>3, <1>5 DEF Answers, Tables, Row
    <2>2. recent'[i].time >= Since
        BY <1>4, <2>1
    <2> QED BY <1>8, <2>1, <2>2
<1>11. RecentInv'
    <2>1. Answers(recent, user, asOf - Day)'
        BY <1>1, <1>5 DEF Answers
    <2>2. RecentInBaseline'
        BY <1>1, <1>10 DEF RecentInBaseline
    <2> QED BY <1>1, <1>9, <2>1, <2>2 DEF RecentInv
<1> QED BY <1>1, <1>6, <1>7, <1>11, DetectorFrame DEF DetectInv

LEMMA JudgeStep ==
    ASSUME DetectInv, Judge, UNCHANGED genVars, gen \in {"off", "done"}
    PROVE  DetectInv'
<1>1. /\ UNCHANGED <<now, ticks, sessions, session_id, session, of, since, left, opened, ended, todo,
                     user, gen, genNow, day, n_sessions, generated>>
      /\ pc' = "next" /\ baseline' = << >> /\ recent' = << >> /\ asOf' = 0 /\ raced' = FALSE
    BY DEF Judge, managerVars, genVars
<1>2. BaselineTypeOK /\ report_id \in Nat /\ user \in Users /\ anomaly_reports \subseteq Report
    BY DEF DetectInv, BaselineTypeOK, DetectTypeOK
<1>3. anomaly_reports' \subseteq Report /\ report_id' \in Nat
    <2>1. CASE Anomalies(baseline, recent) = {}
        BY <1>2, <2>1 DEF Judge
    <2>2. CASE Anomalies(baseline, recent) # {}
        <3>1. report_id + 1 \in Nat
            BY <1>2
        <3>2. /\ report_id' = report_id + 1
              /\ anomaly_reports' = anomaly_reports \cup
                    {[id |-> report_id + 1, user |-> user, type |-> AnomalyType(Anomalies(baseline, recent)),
                      severity |-> Severity(Anomalies(baseline, recent)), status |-> "pending"]}
            BY <2>2 DEF Judge, insert_anomaly_report
        <3> QED BY <1>2, <2>2, <3>1, <3>2, ReportType
    <2> QED BY <2>1, <2>2
<1>4. BaselineTypeOK'
    <2>1. << >> \in Seq(Row)
        OBVIOUS
    <2> QED BY <1>1, <1>2, <1>3, <2>1 DEF BaselineTypeOK, DetectTypeOK
<1>5. BaselineInv' /\ RecentInv'
    BY <1>1 DEF BaselineInv, RecentInv
<1> QED BY <1>1, <1>4, <1>5, DetectorFrame DEF DetectInv

LEMMA DetectorFailsStep ==
    ASSUME DetectInv, DetectorFails, UNCHANGED genVars, gen \in {"off", "done"}
    PROVE  DetectInv'
<1>1. /\ UNCHANGED <<now, ticks, sessions, session_id, anomaly_reports, report_id, session, of, since,
                     left, opened, ended, user, gen, genNow, day, n_sessions, generated>>
      /\ pc' = "idle" /\ todo' = {} /\ baseline' = << >> /\ recent' = << >> /\ asOf' = 0
      /\ raced' = FALSE
    BY DEF DetectorFails, tableVars, managerVars, genVars
<1>2. BaselineTypeOK'
    <2>1. << >> \in Seq(Row)
        OBVIOUS
    <2> QED BY <1>1, <2>1 DEF DetectInv, BaselineTypeOK, DetectTypeOK
<1>3. BaselineInv' /\ RecentInv'
    BY <1>1 DEF BaselineInv, RecentInv
<1> QED BY <1>1, <1>2, <1>3, DetectorFrame DEF DetectInv

--------------------------------------------------------------------------------
(***************************************************************************)
(* The generator                                                           *)
(***************************************************************************)

(* The normal hours are hours of a day.                                     *)
LEMMA NormalHoursType ==
    ASSUME NEW t \in Int
    PROVE  NormalHours(t) \subseteq 0 .. Hours - 1
<1>1. \A x \in Int : LocalHour(x) \in 0 .. Hours - 1
    <2> SUFFICES ASSUME NEW x \in Int PROVE LocalHour(x) \in 0 .. Hours - 1
        OBVIOUS
    <2>1. x \div HourLength \in Int
        BY DayPositive, Division
    <2>2. (x \div HourLength) + Zone \in Int
        BY <2>1, GeneratorAssumption
    <2> QED BY <2>2, DayPositive, Division DEF LocalHour
<1>2. FromAgo * HourLength \in Int /\ ToAgo * HourLength \in Int
    <2>1. FromAgo \in Int /\ ToAgo \in Int
        BY GeneratorAssumption
    <2> QED BY <2>1, DayPositive
<1>3. LocalHour(t - FromAgo * HourLength) \in 0 .. Hours - 1
    BY <1>1, <1>2
<1>4. LocalHour(t - ToAgo * HourLength) \in 0 .. Hours - 1
    BY <1>1, <1>2
<1>5. Hours - 1 \in Int
    BY DayPositive
<1> DEFINE first == LocalHour(t - FromAgo * HourLength)
           last == LocalHour(t - ToAgo * HourLength)
<1> HIDE DEF first, last
<1>6. first .. last \subseteq 0 .. Hours - 1
    BY <1>3, <1>4, <1>5 DEF first, last
<1> QED BY <1>6 DEF NormalHours, first, last

(* A generated start lies after the epoch and, with normal hours away from  *)
(* midnight, not in the hour of the run.                                    *)
LEMMA StartTimesType ==
    ASSUME genNow \in Nat, NEW d \in 0 .. Days, Days * Day <= genNow, NEW t \in StartTimes(d)
    PROVE  /\ t \in Nat
           /\ {0, Hours - 1} \cap NormalHours(genNow) = {} => Hour(t) # Hour(genNow)
<1>1. PICK h \in NormalHours(genNow), m \in 0 .. HourLength :
          t = genNow - d * Day + h * HourLength + m
    BY DEF StartTimes
<1>2. h \in 0 .. Hours - 1
    BY <1>1, NormalHoursType
<1>3. d \in Nat /\ d * Day \in Nat /\ d * Day <= genNow
    <2>1. d \in Nat /\ Days - d \in Nat
        BY DayPositive
    <2>2. (Days - d) * Day >= 0 /\ (Days - d) * Day = Days * Day - d * Day
        BY <2>1, DayPositive
    <2>3. d * Day \in Nat /\ Days * Day \in Nat
        BY <2>1, DayPositive
    <2> QED BY <2>1, <2>2, <2>3
<1>4. h \in Nat /\ h * HourLength \in Nat /\ m \in Nat
    BY <1>1, <1>2, DayPositive
<1>5. t \in Nat
    BY <1>1, <1>3, <1>4
<1>6. ASSUME {0, Hours - 1} \cap NormalHours(genNow) = {}
      PROVE  Hour(t) # Hour(genNow)
    <2>1. h # 0 /\ h # Hours - 1
        BY <1>1, <1>6
    <2>2. h \in 1 .. Hours - 2
        BY <1>2, <2>1, DayPositive
    <2> QED BY <1>1, <1>3, <2>2, HourApart
<1> QED BY <1>5, <1>6

LEMMA TurnToType ==
    ASSUME NEW d \in 0 .. Days, TurnTo(d)
    PROVE  day' \in 0 .. Days /\ n_sessions' \in Nat /\ (Writing = "write" => day' > 0)
           /\ Writing \in {"write", "done"}
<1>1. day' = d
    BY DEF TurnTo
<1>2. n_sessions' \in Nat
    <2>1. PerDay \subseteq Nat
        BY GeneratorAssumption
    <2>2. CASE d = 0
        BY <2>2 DEF TurnTo
    <2>3. CASE d # 0
        BY <2>1, <2>3 DEF TurnTo
    <2> QED BY <2>2, <2>3
<1>3. d = 0 \/ d > 0
    BY DayPositive
<1> QED BY <1>1, <1>2, <1>3 DEF Writing

LEMMA StartGeneratorStep ==
    ASSUME DetectInv, NEW clean \in BOOLEAN, StartGenerator(clean)
    PROVE  DetectInv'
<1>1. /\ UNCHANGED <<now, ticks, sessions, session_id, anomaly_reports, report_id, session, of, since,
                     left, opened, ended, pc, todo, user, asOf, baseline, recent, raced, generated>>
      /\ gen = "off" /\ session = "idle" /\ pc = "idle" /\ genNow' = now /\ TurnTo(Days)
      /\ gen' = IF clean THEN "sessions" ELSE Writing
    BY DEF StartGenerator, Elsewhere, tableVars, managerVars, detectorVars
<1>2. BaselineTypeOK /\ now \in Nat
    BY DEF DetectInv, BaselineTypeOK, DetectTypeOK
<1>3. /\ day' \in 0 .. Days /\ n_sessions' \in Nat /\ (Writing = "write" => day' > 0)
      /\ Writing \in {"write", "done"}
    <2>1. Days \in 0 .. Days
        BY DayPositive
    <2> QED BY <1>1, <2>1, TurnToType
<1>4. gen' \in {"sessions", "write", "done"} /\ (gen' = "write" => day' > 0)
    BY <1>1, <1>3
<1>5. BaselineTypeOK'
    BY <1>1, <1>2, <1>3, <1>4 DEF BaselineTypeOK, DetectTypeOK
<1>6. IdsInv'
    BY <1>1 DEF DetectInv, IdsInv
<1>7. ClockInv'
    BY <1>1, <1>4 DEF DetectInv, ClockInv
<1>8. BaselineInv' /\ RecentInv' /\ OrderInv' /\ EndsInv' /\ LiveInv'
    <2>1. \A q \in sessions, r \in sessions' : r \in sessions \/ ~ (r.id <= q.id)
        BY <1>1
    <2> QED BY <1>1, <2>1, BaselineFrame, RecentFrame, LogFrame DEF DetectInv
<1>9. HourInv'
    <2>1. generated' = {}
        BY <1>1 DEF DetectInv, HourInv
    <2> QED BY <2>1 DEF HourInv
<1> QED BY <1>5, <1>6, <1>7, <1>8, <1>9 DEF DetectInv

LEMMA CleanSessionsStep ==
    ASSUME DetectInv, CleanSessions
    PROVE  DetectInv'
<1>1. /\ UNCHANGED <<now, ticks, session_id, anomaly_reports, report_id, session, of, since, left,
                     opened, ended, pc, todo, user, asOf, baseline, recent, raced, genNow, day, n_sessions,
                     generated>>
      /\ gen = "sessions" /\ gen' = "reports"
      /\ sessions' = {r \in sessions : r.user # GenUser \/ r.container # GenContainer}
    BY DEF CleanSessions, Elsewhere, managerVars, detectorVars
<1>2. BaselineTypeOK /\ IsFiniteSet(sessions) /\ sessions \subseteq Row
    BY DEF DetectInv, BaselineTypeOK, DetectTypeOK
<1>3. sessions' \subseteq sessions
    BY <1>1
<1>4. BaselineTypeOK'
    <2>1. IsFiniteSet(sessions') /\ sessions' \subseteq Row
        BY <1>2, <1>3, FS_Subset
    <2> QED BY <1>1, <1>2, <2>1 DEF BaselineTypeOK, DetectTypeOK
<1>5. IdsInv'
    BY <1>1, <1>3 DEF DetectInv, IdsInv
<1>6. ClockInv'
    BY <1>1 DEF DetectInv, ClockInv
<1>7. BaselineInv' /\ RecentInv'
    BY <1>1 DEF DetectInv, ClockInv, BaselineInv, RecentInv
<1>8. OrderInv' /\ EndsInv' /\ LiveInv'
    <2>1. \A r : IsReal(r)' <=> IsReal(r)
        BY <1>1 DEF IsReal
    <2>2. OrderInv'
        BY <1>1, <1>3, <2>1 DEF DetectInv, OrderInv
    <2>3. ASSUME NEW e \in ended PROVE EndedOK(e[1], e[2])'
        <3> DEFINE a == e[1]
                   b == e[2]
        <3>1. EndedOK(a, b)
            BY DEF DetectInv, EndsInv
        <3> HIDE DEF a, b
        <3>2. \A q, r \in sessions :
                 q.id = a /\ r.id = b => (q \in sessions' <=> r \in sessions')
            BY <1>1, <3>1 DEF EndedOK
        <3>3. (\E q \in sessions : q.id = a) <=> (\E r \in sessions : r.id = b)
            BY <3>1 DEF EndedOK
        <3>4. (\E q \in sessions' : q.id = a) <=> (\E r \in sessions' : r.id = b)
            BY <1>3, <3>2, <3>3
        <3>5. EndedOK(a, b)'
            BY <1>1, <1>3, <2>1, <3>1, <3>4 DEF EndedOK
        <3> QED BY <3>5 DEF a, b
    <2>4. EndsInv'
        BY <1>1, <1>3, <2>1, <2>3 DEF DetectInv, EndsInv
    <2>5. LiveInv'
        BY <1>1 DEF DetectInv, ClockInv, LiveInv
    <2> QED BY <2>2, <2>4, <2>5
<1>9. HourInv'
    BY <1>1, <1>3 DEF DetectInv, HourInv
<1> QED BY <1>4, <1>5, <1>6, <1>7, <1>8, <1>9 DEF DetectInv

LEMMA CleanReportsStep ==
    ASSUME DetectInv, CleanReports
    PROVE  DetectInv'
<1>1. /\ UNCHANGED <<now, ticks, sessions, session_id, report_id, session, of, since, left, opened,
                     ended, pc, todo, user, asOf, baseline, recent, raced, genNow, day, n_sessions,
                     generated>>
      /\ gen = "reports" /\ gen' = Writing
      /\ anomaly_reports' = {r \in anomaly_reports : r.user # GenUser}
    BY DEF CleanReports, Elsewhere, managerVars, detectorVars
<1>2. BaselineTypeOK /\ day \in 0 .. Days
    BY DEF DetectInv, BaselineTypeOK
<1>3. gen' \in {"write", "done"} /\ (gen' = "write" => day' > 0)
    BY <1>1, <1>2, DayPositive DEF Writing
<1>4. BaselineTypeOK'
    <2>1. anomaly_reports' \subseteq Report
        BY <1>1, <1>2 DEF BaselineTypeOK, DetectTypeOK
    <2> QED BY <1>1, <1>2, <1>3, <2>1 DEF BaselineTypeOK, DetectTypeOK
<1>5. IdsInv'
    BY <1>1 DEF DetectInv, IdsInv
<1>6. ClockInv'
    BY <1>1, <1>3 DEF DetectInv, ClockInv
<1>7. BaselineInv' /\ RecentInv' /\ OrderInv' /\ EndsInv' /\ LiveInv'
    <2>1. \A q \in sessions, r \in sessions' : r \in sessions \/ ~ (r.id <= q.id)
        BY <1>1
    <2> QED BY <1>1, <2>1, BaselineFrame, RecentFrame, LogFrame DEF DetectInv
<1>8. HourInv'
    BY <1>1, <1>3 DEF DetectInv, HourInv
<1> QED BY <1>4, <1>5, <1>6, <1>7, <1>8 DEF DetectInv

LEMMA WriteSessionStep ==
    ASSUME DetectInv, WriteSession
    PROVE  DetectInv'
<1> DEFINE row(i, event, t) == [id |-> session_id + i, user |-> GenUser,
                                container |-> GenContainer, event |-> event, time |-> t]
<1>1. /\ UNCHANGED <<now, ticks, anomaly_reports, report_id, session, of, since, left,
                     opened, ended, pc, todo, user, asOf, baseline, recent, raced, genNow>>
      /\ gen = "write" /\ gen' = Writing /\ session_id' = session_id + 3
      /\ generated' = generated \cup (session_id + 1 .. session_id + 3)
    BY DEF WriteSession, Elsewhere, managerVars, detectorVars
<1>2. PICK time \in StartTimes(day), length \in Durations :
          sessions' = sessions \cup {row(1, "auth_ok", time), row(2, "ssh_connected", time),
                                     row(3, "ssh_disconnected", time + length)}
    BY DEF WriteSession
<1>3. /\ BaselineTypeOK /\ session_id \in Nat /\ sessions \subseteq Row /\ IsFiniteSet(sessions)
      /\ genNow \in Nat /\ day \in 0 .. Days /\ day > 0 /\ n_sessions \in Nat /\ generated \subseteq Nat
      /\ Days * Day <= genNow /\ pc = "idle" /\ session = "idle"
    BY <1>1 DEF DetectInv, BaselineTypeOK, DetectTypeOK, ClockInv
<1>4. /\ time \in Nat
      /\ {0, Hours - 1} \cap NormalHours(genNow) = {} => Hour(time) # Hour(genNow)
    BY <1>2, <1>3, StartTimesType
<1>5. length \in Nat
    BY <1>2, GeneratorAssumption
<1>6. PICK r1, r2, r3 : /\ r1 = row(1, "auth_ok", time) /\ r2 = row(2, "ssh_connected", time)
                        /\ r3 = row(3, "ssh_disconnected", time + length)
    OBVIOUS
<1>7. /\ r1 \in Row /\ r2 \in Row /\ r3 \in Row
      /\ r1.id = session_id + 1 /\ r2.id = session_id + 2 /\ r3.id = session_id + 3
      /\ r1.event = "auth_ok" /\ r2.event = "ssh_connected" /\ r3.event = "ssh_disconnected"
      /\ r2.time = time
    <2>1. session_id + 1 \in Nat /\ session_id + 2 \in Nat /\ session_id + 3 \in Nat /\ time + length \in Nat
        BY <1>3, <1>4, <1>5
    <2> QED BY <1>4, <1>6, <2>1, Chosen DEF Row, Events, GenContainer
<1>8. sessions' = sessions \cup {r1, r2, r3}
    BY <1>2, <1>6
<1> HIDE DEF row
<1>9. \A r \in sessions : r.id \in Nat /\ r.id <= session_id
    BY <1>3 DEF DetectInv, IdsInv, Row
<1>10. IsFiniteSet(sessions') /\ sessions' \subseteq Row
    <2>1. IsFiniteSet(sessions \cup {r1}) /\ IsFiniteSet(sessions \cup {r1} \cup {r2})
        BY <1>3, FS_AddElement
    <2>2. IsFiniteSet(sessions \cup {r1} \cup {r2} \cup {r3})
        BY <2>1, FS_AddElement
    <2>3. sessions' = sessions \cup {r1} \cup {r2} \cup {r3}
        BY <1>8
    <2> QED BY <1>3, <1>7, <2>2, <2>3
<1>11. /\ day' \in 0 .. Days /\ n_sessions' \in Nat
       /\ gen' \in {"write", "done"} /\ (gen' = "write" => day' > 0)
    <2>1. CASE n_sessions > 1
        <3>1. n_sessions' = n_sessions - 1 /\ day' = day
            BY <2>1 DEF WriteSession
        <3> QED BY <1>1, <1>3, <2>1, <3>1 DEF Writing
    <2>2. CASE ~ (n_sessions > 1)
        <3>1. TurnTo(day - 1) /\ day - 1 \in 0 .. Days
            BY <1>3, <2>2, DayPositive DEF WriteSession
        <3> QED BY <1>1, <3>1, TurnToType
    <2> QED BY <2>1, <2>2
<1>12. BaselineTypeOK'
    <2>1. generated' \subseteq Nat /\ session_id' \in Nat
        BY <1>1, <1>3
    <2> QED BY <1>1, <1>3, <1>10, <1>11, <2>1 DEF BaselineTypeOK, DetectTypeOK
<1>13. IdsInv'
    <2>1. \A r \in sessions' : r.id <= session_id'
        BY <1>1, <1>3, <1>7, <1>8, <1>9
    <2>2. \A q, r \in sessions' : q.id = r.id => q = r
        <3>1. \A r \in sessions : r.id # r1.id /\ r.id # r2.id /\ r.id # r3.id
            BY <1>3, <1>7, <1>9
        <3>2. r1.id # r2.id /\ r1.id # r3.id /\ r2.id # r3.id
            BY <1>3, <1>7
        <3>3. \A q, r \in sessions : q.id = r.id => q = r
            BY DEF DetectInv, IdsInv
        <3> QED BY <1>8, <3>1, <3>2, <3>3
    <2>3. generated' \subseteq 1 .. session_id'
        BY <1>1, <1>3 DEF DetectInv, IdsInv
    <2> QED BY <2>1, <2>2, <2>3 DEF IdsInv
<1>14. ClockInv'
    BY <1>1, <1>3, <1>11 DEF DetectInv, ClockInv
<1>15. BaselineInv' /\ RecentInv'
    BY <1>1, <1>3 DEF BaselineInv, RecentInv
<1>16. OrderInv' /\ EndsInv' /\ LiveInv'
    <2>1. \A r \in sessions : IsReal(r)' <=> IsReal(r)
        BY <1>1, <1>3, <1>9 DEF IsReal
    <2>2. ~IsReal(r1)' /\ ~IsReal(r2)' /\ ~IsReal(r3)'
        BY <1>1, <1>3, <1>7 DEF IsReal
    <2>3. \A r \in sessions' : IsReal(r)' => r \in sessions /\ IsReal(r)
        BY <1>8, <2>1, <2>2
    <2>4. OrderInv'
        BY <1>1, <2>3 DEF DetectInv, OrderInv
    <2>5. ASSUME NEW e \in ended PROVE EndedOK(e[1], e[2])'
        <3> DEFINE a == e[1]
                   b == e[2]
        <3>1. EndedOK(a, b)
            BY DEF DetectInv, EndsInv
        <3> HIDE DEF a, b
        <3>2. a \in 1 .. session_id /\ b \in 1 .. session_id
            BY <3>1 DEF EndedOK
        <3>3. \A r \in sessions' : r.id = a \/ r.id = b => r \in sessions
            BY <1>3, <1>7, <1>8, <3>2
        <3>4. a \in 1 .. session_id' /\ b \in 1 .. session_id' /\ a \notin generated' /\ b \notin generated'
            BY <1>1, <1>3, <3>1, <3>2 DEF EndedOK
        <3>5. EndedOK(a, b)'
            BY <1>8, <2>3, <3>1, <3>3, <3>4 DEF EndedOK
        <3> QED BY <3>5 DEF a, b
    <2>6. EndsInv'
        BY <1>1, <2>3, <2>5 DEF DetectInv, EndsInv
    <2>7. LiveInv'
        BY <1>1, <1>3 DEF LiveInv
    <2> QED BY <2>4, <2>6, <2>7
<1>17. HourInv'
    <2> SUFFICES ASSUME {0, Hours - 1} \cap NormalHours(genNow) = {},
                        NEW r \in sessions', r.id \in generated', r.event = "ssh_connected"
                 PROVE  Hour(r.time) # Hour(genNow)
        BY <1>1, <1>11 DEF HourInv
    <2>1. CASE r \in sessions
        <3>1. r.id \in generated
            BY <1>1, <1>3, <1>9, <2>1
        <3> QED BY <2>1, <3>1 DEF DetectInv, HourInv
    <2>2. CASE r \notin sessions
        <3>1. r = r2
            BY <1>7, <1>8, <2>2
        <3> QED BY <1>4, <1>7, <3>1
    <2> QED BY <2>1, <2>2
<1> QED BY <1>12, <1>13, <1>14, <1>15, <1>16, <1>17 DEF DetectInv

--------------------------------------------------------------------------------
(***************************************************************************)
(* The invariant and what follows from it                                  *)
(***************************************************************************)

LEMMA DetectStep == DetectInv /\ [BaselineNext]_allVars => DetectInv'
<1> SUFFICES ASSUME DetectInv, [BaselineNext]_allVars PROVE DetectInv'
    OBVIOUS
<1>1. CASE gen \in {"off", "done"} /\ Next /\ UNCHANGED genVars
    <2>1. ASSUME NEW u \in Users, NEW c \in Containers, Authenticate(u, c) PROVE DetectInv'
        BY <1>1, <2>1, AuthenticateStep
    <2>9. ASSUME NEW u \in Users, Reject(u) PROVE DetectInv'
        BY <1>1, <2>9, RejectStep
    <2>10. CASE Abandon
        BY <1>1, <2>10, AbandonStep
    <2>11. CASE DetectorFails
        BY <1>1, <2>11, DetectorFailsStep
    <2>2. CASE Connect
        BY <1>1, <2>2, ConnectStep
    <2>3. ASSUME NEW event \in {"ssh_disconnected", "timeout"}, End(event) PROVE DetectInv'
        BY <1>1, <2>3, EndStep
    <2>4. CASE Tick
        BY <1>1, <2>4, TickStep
    <2>5. CASE StartDetector \/ StopDetector
        BY <1>1, <2>5, StartStopStep
    <2>6. ASSUME NEW u \in Users, ReadBaseline(u) PROVE DetectInv'
        BY <1>1, <2>6, ReadBaselineStep
    <2>7. CASE ReadRecent
        BY <1>1, <2>7, ReadRecentStep
    <2>8. CASE Judge
        BY <1>1, <2>8, JudgeStep
    <2> QED BY <1>1, <2>1, <2>2, <2>3, <2>4, <2>5, <2>6, <2>7, <2>8, <2>9, <2>10, <2>11 DEF Next, LogStep, DetectorStep
<1>2. ASSUME NEW clean \in BOOLEAN, StartGenerator(clean) PROVE DetectInv'
    BY <1>2, StartGeneratorStep
<1>3. CASE CleanSessions
    BY <1>3, CleanSessionsStep
<1>4. CASE CleanReports
    BY <1>4, CleanReportsStep
<1>5. CASE WriteSession
    BY <1>5, WriteSessionStep
<1>6. CASE UNCHANGED allVars
    <2>1. UNCHANGED <<now, ticks, sessions, session_id, anomaly_reports, report_id, session, of, since,
                      left, opened, ended, pc, todo, user, asOf, baseline, recent, raced, gen, genNow,
                      day, n_sessions, generated>>
        BY <1>6 DEF allVars, vars, tableVars, managerVars, detectorVars, genVars
    <2>2. BaselineTypeOK'
        BY <2>1 DEF DetectInv, BaselineTypeOK, DetectTypeOK
    <2>3. IdsInv' /\ ClockInv'
        BY <2>1 DEF DetectInv, IdsInv, ClockInv
    <2>4. BaselineInv' /\ RecentInv' /\ OrderInv' /\ EndsInv' /\ LiveInv' /\ HourInv'
        <3>1. \A q \in sessions, r \in sessions' : r \in sessions \/ ~ (r.id <= q.id)
            BY <2>1
        <3> QED BY <2>1, <3>1, BaselineFrame, RecentFrame, LogFrame, HourFrame DEF DetectInv
    <2> QED BY <2>2, <2>3, <2>4 DEF DetectInv
<1> QED BY <1>1, <1>2, <1>3, <1>4, <1>5, <1>6 DEF BaselineNext, GeneratorStep

(* The tables, the clock, what the queries returned and the log of whole    *)
(* sessions are as the inductive invariant says in every state of the       *)
(* manager, the detector and the generator.                                 *)
LEMMA DetectInvCorrect == BaselineSpec => []DetectInv
BY BaselineInitInv, DetectStep, PTL DEF BaselineSpec

(* The tables hold rows and reports of the declared kinds: a report's        *)
(* severity is one of the three that the table admits, and no time is        *)
(* negative (db_access.py, anomaly_detect.py:173, generate_user_baseline.py).*)
THEOREM BaselineTypeCorrect == BaselineSpec => []BaselineTypeOK
<1>1. DetectInv => BaselineTypeOK
    BY DEF DetectInv
<1> QED BY <1>1, DetectInvCorrect, PTL

(* compute_durations pairs the ends with the connections that a reader of    *)
(* the log would pair, whatever the query returns (anomaly_detect.py:47).    *)
THEOREM DurationsPairedCorrect == BaselineSpec => []DurationsPaired
<1>1. DetectInv => DurationsPaired
    <2> SUFFICES ASSUME DetectInv, pc = "judge"
                 PROVE  ComputeDurations(baseline) = DurationsOf(baseline)
        BY DEF DurationsPaired
    <2>1. RowSeq(baseline)
        BY DEF DetectInv, BaselineInv, Answers
    <2> QED BY <2>1, ComputeDurationsCorrect
<1> QED BY <1>1, DetectInvCorrect, PTL

(* A connection of the last day is in the baseline it is held against,       *)
(* unless it was logged between the two queries (anomaly_detect.py:67).      *)
THEOREM RecentInBaselineCorrect == BaselineSpec => []RecentInBaseline
<1>1. DetectInv => RecentInBaseline
    BY DEF DetectInv, RecentInv, RecentInBaseline
<1> QED BY <1>1, DetectInvCorrect, PTL

(* What DurationsReal says of one pair of rows.                             *)
SessionPair(rows, i, j) ==
    /\ i < j /\ rows[i].container = rows[j].container /\ rows[i].event = "ssh_connected"
    /\ \/ <<rows[i].id, rows[j].id>> \in ended
       \/ {rows[i].id, rows[j].id} \cap generated # {}
       \/ /\ rows[j].event = "timeout"
          /\ \A e \in ended : {e[1], e[2]} \cap {rows[i].id, rows[j].id} = {}

(* The end that the loop pairs with a connection is the one that the log     *)
(* has for it: any other row in question would have been in the answer of   *)
(* the query, between the two.                                              *)
LEMMA PairIsSession ==
    ASSUME DetectInv, NEW rows, NEW from \in Int, Answers(rows, user, from), NEW i \in PairedEnds(rows)
    PROVE  /\ Max(Bracket(rows, i)) \in DOMAIN rows /\ i \in DOMAIN rows
           /\ SessionPair(rows, Max(Bracket(rows, i)), i)
<1>1. /\ RowSeq(rows) /\ sessions \subseteq Row
      /\ \A n \in DOMAIN rows, r \in sessions :
            r.user = user /\ r.time >= from /\ r.id <= rows[n].id => \E j \in DOMAIN rows : rows[j] = r
      /\ \A x, y \in DOMAIN rows : x < y => rows[x].time <= rows[y].time
    BY DEF DetectInv, Answers, BaselineTypeOK, DetectTypeOK
<1>2. OrderInv /\ EndsInv /\ (\A q, r \in sessions : q.id = r.id => q = r) /\ ended \subseteq Nat \X Nat
    BY DEF DetectInv, IdsInv, BaselineTypeOK, DetectTypeOK
<1> DEFINE T == Bracket(rows, i)
           k == Max(T)
<1>3. /\ i \in 1 .. Len(rows) /\ Len(rows) \in Nat
      /\ rows[i].event \in {"ssh_disconnected", "timeout"}
      /\ T # {} /\ rows[k].event = "ssh_connected" /\ rows[k].time < rows[i].time
    BY <1>1 DEF PairedEnds, RowSeq
<1>4. k \in T /\ \A y \in T : y <= k
    <2>1. i - 1 \in Nat /\ T \in SUBSET (1 .. i - 1)
        BY <1>3 DEF Bracket
    <2> HIDE DEF T
    <2> QED BY <1>3, <2>1, MaxOfInterval
<1>5. k \in 1 .. i - 1 /\ rows[k].container = rows[i].container
    BY <1>4 DEF Bracket
<1> HIDE DEF k
<1>6. PICK c, e : c = rows[k] /\ e = rows[i]
    OBVIOUS
<1>7. /\ c \in sessions /\ e \in sessions /\ c.user = user /\ e.user = user /\ c.time >= from
      /\ c.container = e.container /\ c.event = "ssh_connected" /\ c.time < e.time
      /\ e.event \in {"ssh_disconnected", "timeout"}
      /\ k \in DOMAIN rows /\ i \in DOMAIN rows /\ k < i
    BY <1>1, <1>3, <1>5, <1>6 DEF Answers, RowSeq
<1>8. \A r \in sessions : r.id \in Nat /\ r.time \in Nat
    BY <1>1 DEF Row
<1> SUFFICES ASSUME c.id \notin generated, e.id \notin generated
             PROVE  \/ <<c.id, e.id>> \in ended
                    \/ /\ e.event = "timeout"
                       /\ \A x \in ended : {x[1], x[2]} \cap {c.id, e.id} = {}
    BY <1>6, <1>7 DEF SessionPair, k
<1>9. IsReal(c) /\ IsReal(e)
    BY <1>7 DEF IsReal, IsAuth
<1>10. c.id < e.id
    <2>1. ~ (e.id < c.id) /\ e.id # c.id
        BY <1>2, <1>7, <1>8, <1>9 DEF OrderInv
    <2> QED BY <1>7, <1>8, <2>1
(* No event of the container lies between the two.                          *)
<1>11. ASSUME NEW f \in sessions, IsReal(f), f.user = user, f.container = c.container,
              c.id < f.id, f.id < e.id
       PROVE  FALSE
    <2>1. c.time < f.time /\ f.time < e.time
        BY <1>2, <1>7, <1>9, <1>11 DEF OrderInv
    <2>2. f.time >= from /\ f.id <= rows[i].id
        BY <1>6, <1>7, <1>8, <1>11, <2>1
    <2>3. PICK j \in DOMAIN rows : rows[j] = f
        BY <1>1, <1>7, <1>11, <2>2
    <2>4. j \in 1 .. Len(rows) /\ k \in 1 .. Len(rows)
        BY <1>1, <1>7, <2>3 DEF RowSeq
    <2>5. j < i
        <3>1. ~ (i < j) /\ i # j
            BY <1>1, <1>6, <1>7, <1>8, <2>1, <2>3
        <3> QED BY <1>3, <2>4, <3>1
    <2>6. k < j
        <3>1. ~ (j < k) /\ j # k
            BY <1>1, <1>6, <1>7, <1>8, <2>1, <2>3
        <3> QED BY <2>4, <3>1
    <2>7. j \in T
        BY <1>3, <1>6, <1>7, <1>11, <2>3, <2>4, <2>5 DEF Bracket, IsReal
    <2> QED BY <1>4, <2>4, <2>6, <2>7
(* The session that the end ended is the one that was connected, ...        *)
<1>12. ASSUME NEW x \in ended, x[2] = e.id
       PROVE  x[1] = c.id
    <2>1. EndedOK(x[1], e.id) /\ x[1] \in Nat
        BY <1>2, <1>12 DEF EndsInv
    <2>2. PICK q \in sessions : q.id = x[1]
        BY <1>7, <2>1 DEF EndedOK
    <2>3. /\ q.user = user /\ q.container = c.container /\ IsReal(q) /\ q.id < e.id
        BY <1>7, <2>1, <2>2 DEF EndedOK, IsReal, IsAuth
    <2>4. ~ (c.id < q.id)
        BY <1>11, <2>3
    <2>5. ~ (q.id < c.id)
        BY <1>7, <1>9, <1>10, <2>1, <2>2 DEF EndedOK
    <2> QED BY <1>7, <1>8, <2>2, <2>4, <2>5
(* ... and the session that was connected has no other end.                 *)
<1>13. ASSUME NEW x \in ended, x[1] = c.id
       PROVE  x[2] = e.id
    <2>1. EndedOK(c.id, x[2]) /\ x[2] \in Nat
        BY <1>2, <1>13 DEF EndsInv
    <2>2. PICK r \in sessions : r.id = x[2]
        BY <1>7, <2>1 DEF EndedOK
    <2>3. r.user = user /\ r.container = c.container /\ IsReal(r) /\ c.id < r.id
        BY <1>7, <2>1, <2>2 DEF EndedOK, IsReal, IsAuth
    <2>4. ~ (r.id < e.id)
        BY <1>11, <2>3
    <2>5. ~ (e.id < r.id)
        BY <1>7, <1>9, <1>10, <2>1, <2>2 DEF EndedOK
    <2> QED BY <1>7, <1>8, <2>2, <2>4, <2>5
<1>14. CASE \E x \in ended : x[2] = e.id
    <2>1. PICK x \in ended : x[2] = e.id
        BY <1>14
    <2>2. x = <<c.id, e.id>>
        BY <1>2, <1>12, <2>1
    <2> QED BY <2>1, <2>2
<1>15. CASE \A x \in ended : x[2] # e.id
    <2>1. e.event = "timeout"
        BY <1>2, <1>7, <1>9, <1>15 DEF EndsInv
    <2>2. ASSUME NEW x \in ended PROVE {x[1], x[2]} \cap {c.id, e.id} = {}
        <3>1. x[2] # e.id /\ x[1] # c.id
            BY <1>13, <1>15
        <3>2. x[1] # e.id
            <4>1. x[1] = e.id => e.event = "ssh_connected"
                <5> SUFFICES ASSUME x[1] = e.id PROVE e.event = "ssh_connected"
                    OBVIOUS
                <5>1. EndedOK(e.id, x[2])
                    BY <1>2 DEF EndsInv
                <5> QED BY <1>7, <5>1 DEF EndedOK
            <4> QED BY <1>7, <4>1
        <3>3. x[2] # c.id
            <4>1. x[2] = c.id => c.event # "ssh_connected"
                <5> SUFFICES ASSUME x[2] = c.id PROVE c.event # "ssh_connected"
                    OBVIOUS
                <5>1. EndedOK(x[1], c.id)
                    BY <1>2 DEF EndsInv
                <5> QED BY <1>7, <5>1 DEF EndedOK
            <4> QED BY <1>7, <4>1
        <3> QED BY <3>1, <3>2, <3>3
    <2> QED BY <2>1, <2>2
<1> QED BY <1>14, <1>15

(* Every duration of either query's rows is that of one session, or of rows  *)
(* one of which was generated, or of a session without an end and a later   *)
(* one's time-out, whatever the windows cut off, whenever the manager is     *)
(* killed or a session fails, and whatever is logged between the queries     *)
(* (anomaly_detect.py:47, 110, 111).                                        *)
THEOREM DurationsRealCorrect == BaselineSpec => []DurationsReal
<1>1. ASSUME DetectInv, NEW rows, NEW from \in Int, Answers(rows, user, from),
             NEW d \in Range(ComputeDurations(rows))
      PROVE  \E i, j \in DOMAIN rows : SessionPair(rows, i, j) /\ d = rows[j].time - rows[i].time
    <2>1. RowSeq(rows)
        BY <1>1 DEF Answers
    <2>2. PICK j \in PairedEnds(rows) : d = Duration(rows, j)
        BY <1>1, <2>1, DurationsRange
    <2> QED BY <1>1, <2>2, PairIsSession DEF Duration
<1>2. DetectInv => DurationsReal
    <2> SUFFICES ASSUME DetectInv, pc = "judge", NEW rows \in {baseline, recent},
                        NEW d \in Range(ComputeDurations(rows))
                 PROVE  \E i, j \in DOMAIN rows :
                            SessionPair(rows, i, j) /\ d = rows[j].time - rows[i].time
        BY DEF DurationsReal, SessionPair
    <2>1. asOf \in Nat /\ Since \in Int /\ asOf - Day \in Int
        BY DayPositive DEF DetectInv, BaselineTypeOK, DetectTypeOK, Since
    <2>2. Answers(baseline, user, Since) /\ Answers(recent, user, asOf - Day)
        BY DEF DetectInv, BaselineInv, RecentInv
    <2> QED BY <1>1, <2>1, <2>2
<1> QED BY <1>2, DetectInvCorrect, PTL

LEMMA ConnectsFinite ==
    ASSUME NEW rows, RowSeq(rows), NEW X \in SUBSET Connects(rows)
    PROVE  IsFiniteSet(X) /\ Cardinality(X) \in Nat
<1>1. X \in SUBSET (1 .. Len(rows)) /\ Len(rows) \in Nat
    BY DEF Connects, RowSeq
<1>2. IsFiniteSet(1 .. Len(rows))
    BY <1>1, FS_Interval
<1> QED BY <1>1, <1>2, FS_Subset, FS_CardinalityType

OnDay(rows, d) == {i \in Connects(rows) : DayOf(rows[i].time) = d}

(* sessions_per_day: the number of connections on each day that has one.    *)
LEMMA DailyCountsType ==
    ASSUME NEW rows, RowSeq(rows)
    PROVE  /\ DailyCounts(rows) = [d \in DOMAIN DailyCounts(rows) |-> Cardinality(OnDay(rows, d))]
           /\ IsFiniteSet(DOMAIN DailyCounts(rows))
           /\ \A d \in DOMAIN DailyCounts(rows) : DailyCounts(rows)[d] \in Nat
           /\ \A d : d \in DOMAIN DailyCounts(rows) <=>
                  \E i \in Connects(rows) : d = DayOf(rows[i].time)
<1> DEFINE days == {DayOf(rows[i].time) : i \in Connects(rows)}
           f == [i \in Connects(rows) |-> DayOf(rows[i].time)]
<1>1. DailyCounts(rows) = [d \in days |-> Cardinality(OnDay(rows, d))]
    BY DEF DailyCounts, OnDay
<1>2. f \in Surjection(Connects(rows), days)
    BY DEF Surjection
<1>3. IsFiniteSet(days)
    <2> HIDE DEF days, f
    <2>1. IsFiniteSet(Connects(rows))
        BY ConnectsFinite
    <2> QED BY <1>2, <2>1, FS_Surjection
<1>4. \A d : d \in days <=> \E i \in Connects(rows) : d = DayOf(rows[i].time)
    OBVIOUS
<1>5. \A d : Cardinality(OnDay(rows, d)) \in Nat
    BY ConnectsFinite DEF OnDay
<1> HIDE DEF days
<1> QED BY <1>1, <1>3, <1>4, <1>5

(* The last day's connections are connections of the baseline.              *)
LEMMA DayWithin ==
    ASSUME NEW baseRows, RowSeq(baseRows), NEW recentRows, RowSeq(recentRows), NEW d,
           \A i, j \in DOMAIN recentRows : recentRows[i] = recentRows[j] => i = j,
           \A i \in DOMAIN recentRows : \E j \in DOMAIN baseRows : baseRows[j] = recentRows[i]
    PROVE  Cardinality(OnDay(recentRows, d)) <= Cardinality(OnDay(baseRows, d))
<1> DEFINE S == OnDay(recentRows, d)
           T == OnDay(baseRows, d)
           f == [i \in S |-> CHOOSE j \in DOMAIN baseRows : baseRows[j] = recentRows[i]]
<1>1. \A i \in S : i \in DOMAIN recentRows
    BY DEF OnDay, Connects
<1>2. \A i \in S : f[i] \in DOMAIN baseRows /\ baseRows[f[i]] = recentRows[i]
    BY <1>1
<1>3. \A i \in S : f[i] \in T
    BY <1>2 DEF OnDay, Connects
<1>4. f \in Injection(S, T)
    <2>1. f \in [S -> T]
        BY <1>3
    <2>2. \A i, j \in S : f[i] = f[j] => i = j
        <3> HIDE DEF f
        <3> QED BY <1>1, <1>2
    <2> HIDE DEF S, T, f
    <2> QED BY <2>1, <2>2 DEF Injection, IsInjective
<1>5. IsFiniteSet(T)
    BY ConnectsFinite DEF OnDay
<1> HIDE DEF f
<1> QED BY <1>4, <1>5, FS_Injection

(* A busy day is reported only to a user who was active on enough days for   *)
(* the threshold: (n - 1) / sqrt(n) > Z, whatever Z is (anomaly_detect.py:95).*)
THEOREM EnoughDaysCorrect == BaselineSpec => []EnoughDays
<1>1. DetectInv => EnoughDays
    <2> SUFFICES ASSUME DetectInv, pc = "judge", ~ raced,
                        NEW a \in Anomalies(baseline, recent), a.type = "high_frequency"
                 PROVE  LET n == Cardinality(DOMAIN DailyCounts(baseline))
                        IN  100 * Square(n - 1) > Square(ZLow) * n
        BY DEF EnoughDays
    <2> DEFINE usual == DailyCounts(baseline)
               counts == DailyCounts(recent)
    <2>1. /\ RowSeq(baseline) /\ RowSeq(recent)
          /\ \A i, j \in DOMAIN recent : recent[i] = recent[j] => i = j
          /\ \A i \in DOMAIN recent : \E j \in DOMAIN baseline : baseline[j] = recent[i]
        BY DEF DetectInv, BaselineInv, RecentInv, RecentInBaseline, Answers
    <2>2. a \in HighFrequencies(baseline, recent)
        <3>1. \A x \in UnusualTimes(baseline, recent) : x.type = "unusual_time"
            BY DEF UnusualTimes
        <3>2. \A x \in LongDurations(baseline, recent) : x.type = "long_duration"
            BY DEF LongDurations
        <3> QED BY <3>1, <3>2 DEF Anomalies
    <2>3. PICK x \in Range(counts) : Deviant(x, usual, ZLow)
        BY <2>2 DEF HighFrequencies
    <2> HIDE DEF usual, counts
    <2>4. PICK d \in DOMAIN counts : x = counts[d]
        BY <2>3 DEF Range
    <2>5. /\ x = Cardinality(OnDay(recent, d)) /\ x \in Nat
          /\ \E i \in Connects(recent) : d = DayOf(recent[i].time)
        BY <2>1, <2>4, DailyCountsType DEF counts
    <2>6. \E j \in Connects(baseline) : d = DayOf(baseline[j].time)
        BY <2>1, <2>5 DEF Connects
    <2>7. d \in DOMAIN usual /\ usual[d] = Cardinality(OnDay(baseline, d))
        BY <2>1, <2>6, DailyCountsType DEF usual
    <2>8. x <= usual[d]
        BY <2>1, <2>5, <2>7, DayWithin
    <2>9. IsFiniteSet(DOMAIN usual) /\ \A c \in DOMAIN usual : usual[c] \in Nat
        BY <2>1, DailyCountsType DEF usual
    <2>10. ZLow \in Nat
        BY StatsAssumption
    <2>11. 100 * Square(Cardinality(DOMAIN usual) - 1) > Square(ZLow) * Cardinality(DOMAIN usual)
        BY <2>3, <2>5, <2>7, <2>8, <2>9, <2>10, DeviantBound
    <2> QED BY <2>11 DEF usual
<1> QED BY <1>1, DetectInvCorrect, PTL

(* The generator's promise: the current session is flagged as unusual_time   *)
(* when the normal hours keep away from midnight, for every length of the    *)
(* day and of the hour (generate_user_baseline.py:110).                     *)
THEOREM CurrentSessionFlaggedCorrect == BaselineSpec => []CurrentSessionFlagged
<1>1. DetectInv => CurrentSessionFlagged
    <2> DEFINE base == Connects(baseline)
               own == {i \in base : baseline[i].id \notin generated}
    <2> SUFFICES ASSUME DetectInv, pc = "judge", gen = "done", ~ raced, Cardinality(own) = 1,
                        \A i \in own : /\ baseline[i].time >= asOf - Day
                                       /\ Hour(baseline[i].time) = Hour(genNow),
                        Cardinality(base) > Rare,
                        {0, Hours - 1} \cap NormalHours(genNow) = {},
                        Len(baseline) >= MinRows
                 PROVE  "unusual_time" \in Types(Anomalies(baseline, recent))
        BY DEF CurrentSessionFlagged
    <2>1. /\ RowSeq(baseline) /\ RowSeq(recent)
          /\ \A i \in DOMAIN baseline : baseline[i] \in sessions
          /\ \A i \in DOMAIN baseline :
                baseline[i].time >= asOf - Day => \E j \in DOMAIN recent : recent[j] = baseline[i]
        BY DEF DetectInv, BaselineInv, RecentInv, Answers
    <2>2. own \in SUBSET base /\ IsFiniteSet(own) /\ IsFiniteSet(base) /\ Cardinality(base) \in Nat
        <3>1. own \in SUBSET base
            OBVIOUS
        <3> QED BY <2>1, <3>1, ConnectsFinite
    <2>3. PICK k : own = {k}
        <3> HIDE DEF own
        <3> QED BY <2>2, FS_Singleton
    <2>4. k \in base /\ k \in DOMAIN baseline /\ baseline[k].event = "ssh_connected"
        BY <2>3 DEF Connects
    <2>5. PICK j \in DOMAIN recent : recent[j] = baseline[k]
        BY <2>1, <2>3, <2>4
    <2>6. j \in Connects(recent) /\ Hour(recent[j].time) = Hour(genNow)
        BY <2>3, <2>4, <2>5 DEF Connects
    <2> DEFINE same == {i \in base : Hour(baseline[i].time) = Hour(genNow)}
    <2>7. same \subseteq {k}
        <3> SUFFICES ASSUME NEW i \in base, i \notin own
                     PROVE  Hour(baseline[i].time) # Hour(genNow)
            BY <2>3
        <3>1. /\ baseline[i] \in sessions /\ baseline[i].event = "ssh_connected"
              /\ baseline[i].id \in generated
            BY <2>1 DEF Connects
        <3> QED BY <3>1 DEF DetectInv, HourInv
    <2>8. Cardinality(same) \in Nat /\ Cardinality(same) <= 1
        <3> HIDE DEF same
        <3>1. IsFiniteSet({k}) /\ Cardinality({k}) = 1
            BY FS_Singleton
        <3> QED BY <2>7, <3>1, FS_Subset, FS_CardinalityType
    <2>9. HourCount(baseline, Hour(recent[j].time)) = Cardinality(same)
        BY <2>6 DEF HourCount
    <2>10. Rare * HourCount(baseline, Hour(recent[j].time)) < Cardinality(base)
        <3> DEFINE n == Cardinality(same)
        <3>1. n = 0 \/ n = 1
            BY <2>8
        <3>2. Rare \in Nat
            BY StatsAssumption
        <3> HIDE DEF n
        <3>3. Rare * n <= Rare
            BY <3>1, <3>2
        <3>4. Rare * n \in Nat
            BY <3>1, <3>2
        <3> HIDE DEF base
        <3>5. Rare * n < Cardinality(base)
            BY <2>2, <3>2, <3>3, <3>4
        <3> QED BY <2>9, <3>5 DEF n
    <2>11. \E a \in UnusualTimes(baseline, recent) : a.type = "unusual_time"
        <3> DEFINE count(i) == HourCount(baseline, Hour(recent[i].time))
                   K == {i \in Connects(recent) : Rare * count(i) < Cardinality(base)}
                   a(i) == [type |-> "unusual_time", level |-> HourLevel(count(i), Cardinality(base))]
        <3>1. UnusualTimes(baseline, recent) = {a(i) : i \in K}
            BY DEF UnusualTimes
        <3>2. j \in K
            BY <2>6, <2>10
        <3>3. a(j).type = "unusual_time"
            OBVIOUS
        <3> HIDE DEF K, a
        <3> QED BY <3>1, <3>2, <3>3
    <2>12. ~ (Len(baseline) < MinRows)
        BY <2>1, StatsAssumption DEF RowSeq
    <2> QED BY <2>11, <2>12 DEF Anomalies, Types
<1> QED BY <1>1, DetectInvCorrect, PTL
================================================================================
