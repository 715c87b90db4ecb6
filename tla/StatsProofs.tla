------------------------------ MODULE StatsProofs ------------------------------
(***************************************************************************)
(* What the statistics of anomaly_detect.py compute, for every sequence of *)
(* rows and every function of numbers. Induction over the rows is          *)
(* induction over the natural numbers: SetInduction takes the set of the   *)
(* numbers for which a statement holds instead of the statement. A         *)
(* function that is defined by recursion is the one that CHOOSE finds      *)
(* among those that satisfy its equation, so each such definition needs a  *)
(* proof that there is one (PairingDef, SumTableDef).                      *)
(***************************************************************************)
EXTENDS SessionStats, FiniteSetTheorems, SequenceTheorems, TLAPS

(* Induction over the natural numbers, for a set instead of a predicate.    *)
LEMMA SetInduction ==
    ASSUME NEW S \in SUBSET Nat, 0 \in S, \A n \in S : n + 1 \in S
    PROVE  S = Nat
<1> DEFINE R == {p \in Nat \X Nat : p[1] < p[2]}
<1>1. IsWellFoundedOn(R, Nat)
    BY NatLessThanWellFounded DEF OpToRel
<1> SUFFICES ASSUME Nat \ S # {} PROVE FALSE
    OBVIOUS
<1>2. PICK x \in Nat \ S : \A y \in Nat \ S : ~ (<<y, x>> \in R)
    <2> HIDE DEF R
    <2> QED BY <1>1, WFMin
<1>3. x - 1 \in Nat /\ <<x - 1, x>> \in R
    OBVIOUS
<1> QED BY <1>2, <1>3

(* A set of numbers up to n that is not empty has its greatest element.     *)
LEMMA MaxOfInterval ==
    ASSUME NEW n \in Nat, NEW T \in SUBSET (1 .. n), T # {}
    PROVE  Max(T) \in T /\ \A y \in T : y <= Max(T)
<1> DEFINE S == {m \in Nat : \A U \in SUBSET (1 .. m) :
                    U # {} => \E x \in U : \A y \in U : x >= y}
<1>1. 0 \in S
    <2>1. 1 .. 0 = {}
        OBVIOUS
    <2> QED BY <2>1
<1>2. ASSUME NEW m \in S PROVE m + 1 \in S
    <2> SUFFICES ASSUME NEW U \in SUBSET (1 .. m + 1), U # {}
                 PROVE  \E x \in U : \A y \in U : x >= y
        OBVIOUS
    <2>1. CASE m + 1 \in U
        BY <2>1
    <2>2. CASE m + 1 \notin U
        <3>1. U \in SUBSET (1 .. m)
            BY <2>2
        <3> QED BY <3>1
    <2> QED BY <2>1, <2>2
<1>3. S = Nat
    <2> HIDE DEF S
    <2>1. S \in SUBSET Nat
        BY DEF S
    <2> QED BY <1>1, <1>2, <2>1, SetInduction
<1>4. \E x \in T : \A y \in T : x >= y
    BY <1>3
<1> QED BY <1>4 DEF Max

(* The loop of compute_durations is the function its recursion says.        *)
LEMMA PairingDef ==
    ASSUME NEW rows, Len(rows) \in Nat
    PROVE  Pairing(rows) =
               [n \in 0 .. Len(rows) |->
                   IF n = 0 THEN [pending |-> << >>, lengths |-> << >>]
                   ELSE PairUp(Pairing(rows)[n - 1], rows[n])]
<1> DEFINE F(g, m) == [n \in 0 .. m |->
                          IF n = 0 THEN [pending |-> << >>, lengths |-> << >>]
                          ELSE PairUp(g[n - 1], rows[n])]
           S == {m \in Nat : \E g : g = F(g, m)}
<1>1. 0 \in S
    <2>1. [n \in 0 .. 0 |-> [pending |-> << >>, lengths |-> << >>]]
            = F([n \in 0 .. 0 |-> [pending |-> << >>, lengths |-> << >>]], 0)
        OBVIOUS
    <2> HIDE DEF F
    <2> QED BY <2>1
<1>2. ASSUME NEW m \in S PROVE m + 1 \in S
    <2>1. PICK g : g = F(g, m)
        OBVIOUS
    <2> DEFINE h == [n \in 0 .. m + 1 |-> IF n = m + 1 THEN PairUp(g[m], rows[m + 1]) ELSE g[n]]
    <2>2. h = F(h, m + 1)
        <3>1. ASSUME NEW n \in 0 .. m + 1
              PROVE  h[n] = F(h, m + 1)[n]
            <4>1. CASE n = 0
                BY <4>1, <2>1
            <4>2. CASE n = m + 1
                <5>1. h[m] = g[m]
                    OBVIOUS
                <5> QED BY <4>2, <5>1
            <4>3. CASE n # 0 /\ n # m + 1
                <5>1. n \in 0 .. m /\ n - 1 \in 0 .. m + 1 /\ n - 1 # m + 1
                    BY <4>3
                <5>2. h[n - 1] = g[n - 1] /\ h[n] = g[n]
                    BY <5>1, <4>3
                <5>3. g[n] = PairUp(g[n - 1], rows[n])
                    BY <2>1, <5>1, <4>3
                <5> QED BY <5>2, <5>3, <4>3
            <4> QED BY <4>1, <4>2, <4>3
        <3> QED BY <3>1
    <2> HIDE DEF h, F
    <2> QED BY <2>2
<1>3. S = Nat
    <2> HIDE DEF S
    <2>1. S \in SUBSET Nat
        BY DEF S
    <2> QED BY <1>1, <1>2, <2>1, SetInduction
<1>4. \E g : g = F(g, Len(rows))
    <2> HIDE DEF F
    <2> QED BY <1>3
<1>5. Pairing(rows) = CHOOSE g : g = F(g, Len(rows))
    BY DEF Pairing
<1>6. Pairing(rows) = F(Pairing(rows), Len(rows))
    <2> HIDE DEF F
    <2> QED BY <1>4, <1>5
<1> QED BY <1>6

--------------------------------------------------------------------------------
EventNames == {"auth_ok", "auth_fail", "ssh_connected", "ssh_disconnected", "timeout"}

(* What the lemmas need of the rows of a query.                             *)
RowSeq(rows) ==
    /\ Len(rows) \in Nat /\ DOMAIN rows = 1 .. Len(rows)
    /\ \A i \in 1 .. Len(rows) : rows[i].time \in Int /\ rows[i].event \in EventNames

Seen(rows, c, n) ==
    {j \in 1 .. n : rows[j].container = c /\ ~IsAuth(rows[j])}

Ends(rows, n) == {i \in PairedEnds(rows) : i <= n}

Duration(rows, i) == rows[i].time - rows[Max(Bracket(rows, i))].time

IsOpen(rows, c, n) ==
    Seen(rows, c, n) # {} /\ rows[Max(Seen(rows, c, n))].event = "ssh_connected"

PairingOK(rows, n) ==
    LET acc == Pairing(rows)[n]
    IN  /\ acc = [pending |-> acc.pending, lengths |-> acc.lengths]
        /\ \A c : c \in DOMAIN acc.pending <=> IsOpen(rows, c, n)
        /\ \A c \in DOMAIN acc.pending : acc.pending[c] = rows[Max(Seen(rows, c, n))].time
        /\ acc.lengths \in Seq(Int)
        /\ Len(acc.lengths) = Cardinality(Ends(rows, n))
        /\ \A i \in Ends(rows, n) :
              acc.lengths[Cardinality(Ends(rows, i))] = Duration(rows, i)

(* The last event of a container after one more row.                        *)
LEMMA SeenNext ==
    ASSUME NEW rows, NEW c, NEW n \in Nat
    PROVE  /\ rows[n + 1].container = c /\ ~IsAuth(rows[n + 1]) =>
                /\ Seen(rows, c, n + 1) # {}
                /\ Max(Seen(rows, c, n + 1)) = n + 1
           /\ ~ (rows[n + 1].container = c /\ ~IsAuth(rows[n + 1])) =>
                Seen(rows, c, n + 1) = Seen(rows, c, n)
<1>1. ASSUME rows[n + 1].container = c, ~IsAuth(rows[n + 1])
      PROVE  Seen(rows, c, n + 1) # {} /\ Max(Seen(rows, c, n + 1)) = n + 1
    <2>1. n + 1 \in Seen(rows, c, n + 1) /\ Seen(rows, c, n + 1) \in SUBSET (1 .. n + 1)
        BY <1>1 DEF Seen
    <2> DEFINE T == Seen(rows, c, n + 1)
               m == n + 1
    <2>2. m \in Nat /\ T # {} /\ T \in SUBSET (1 .. m) /\ m \in T
        BY <2>1
    <2>3. Max(T) = m
        <3> HIDE DEF T, m
        <3>1. Max(T) \in T /\ \A y \in T : y <= Max(T)
            BY <2>2, MaxOfInterval
        <3>2. Max(T) \in 1 .. m /\ m <= Max(T)
            BY <2>2, <3>1
        <3> QED BY <2>2, <3>2
    <2> QED BY <2>2, <2>3
<1>2. ASSUME ~ (rows[n + 1].container = c /\ ~IsAuth(rows[n + 1]))
      PROVE  Seen(rows, c, n + 1) = Seen(rows, c, n)
    <2>1. \A j \in 1 .. n + 1 : j \in 1 .. n \/ j = n + 1
        OBVIOUS
    <2> QED BY <1>2, <2>1 DEF Seen
<1> QED BY <1>1, <1>2

(* The ends that are paired are finitely many.                              *)
LEMMA EndsFinite ==
    ASSUME NEW rows, RowSeq(rows), NEW n \in Nat
    PROVE  /\ Ends(rows, n) \in SUBSET (1 .. n)
           /\ IsFiniteSet(Ends(rows, n)) /\ Cardinality(Ends(rows, n)) \in Nat
<1>1. Ends(rows, n) \in SUBSET (1 .. n)
    BY DEF Ends, PairedEnds, RowSeq
<1>2. IsFiniteSet(1 .. n)
    BY FS_Interval
<1> QED BY <1>1, <1>2, FS_Subset, FS_CardinalityType

(* One more row is one more end, or none.                                   *)
LEMMA EndsNext ==
    ASSUME NEW rows, RowSeq(rows), NEW n \in Nat
    PROVE  /\ n + 1 \in PairedEnds(rows) =>
                /\ Ends(rows, n + 1) = Ends(rows, n) \cup {n + 1}
                /\ Cardinality(Ends(rows, n + 1)) = Cardinality(Ends(rows, n)) + 1
           /\ n + 1 \notin PairedEnds(rows) => Ends(rows, n + 1) = Ends(rows, n)
<1>1. \A i \in PairedEnds(rows) : i \in Nat /\ (i <= n + 1 <=> i <= n \/ i = n + 1)
    BY DEF PairedEnds, RowSeq
<1>2. n + 1 \in PairedEnds(rows) => Ends(rows, n + 1) = Ends(rows, n) \cup {n + 1}
    BY <1>1 DEF Ends
<1>3. n + 1 \notin PairedEnds(rows) => Ends(rows, n + 1) = Ends(rows, n)
    BY <1>1 DEF Ends
<1>4. n + 1 \notin Ends(rows, n)
    BY DEF Ends
<1>5. IsFiniteSet(Ends(rows, n))
    BY EndsFinite
<1> QED BY <1>2, <1>3, <1>4, <1>5, FS_AddElement

(* The next row is a paired end if the last event of its container is an    *)
(* earlier connection.                                                      *)
LEMMA EndNext ==
    ASSUME NEW rows, RowSeq(rows), NEW n \in Nat, n + 1 <= Len(rows)
    PROVE  n + 1 \in PairedEnds(rows) <=>
             /\ rows[n + 1].event \in {"ssh_disconnected", "timeout"}
             /\ IsOpen(rows, rows[n + 1].container, n)
             /\ rows[Max(Seen(rows, rows[n + 1].container, n))].time < rows[n + 1].time
<1>1. Bracket(rows, n + 1) = Seen(rows, rows[n + 1].container, n)
    BY DEF Bracket, Seen
<1>2. n + 1 \in DOMAIN rows
    BY DEF RowSeq
<1> QED BY <1>1, <1>2 DEF PairedEnds, IsOpen

(* One pass of the loop of compute_durations.                               *)
LEMMA PairingStep ==
    ASSUME NEW rows, RowSeq(rows), NEW n \in Nat, n + 1 <= Len(rows), PairingOK(rows, n)
    PROVE  PairingOK(rows, n + 1)
<1> DEFINE r == rows[n + 1]
           acc == Pairing(rows)[n]
           nxt == Pairing(rows)[n + 1]
<1>a. nxt = PairUp(acc, r)
    <2>1. Len(rows) \in Nat
        BY DEF RowSeq
    <2>2. n + 1 \in 0 .. Len(rows) /\ n + 1 # 0 /\ (n + 1) - 1 = n
        BY <2>1
    <2> QED BY <2>1, <2>2, PairingDef
<1>b. r.time \in Int /\ r.event \in EventNames
    BY DEF RowSeq
<1>c. /\ acc = [pending |-> acc.pending, lengths |-> acc.lengths]
      /\ \A c : c \in DOMAIN acc.pending <=> IsOpen(rows, c, n)
      /\ \A c \in DOMAIN acc.pending : acc.pending[c] = rows[Max(Seen(rows, c, n))].time
      /\ acc.lengths \in Seq(Int)
      /\ Len(acc.lengths) = Cardinality(Ends(rows, n))
      /\ \A i \in Ends(rows, n) :
            acc.lengths[Cardinality(Ends(rows, i))] = Duration(rows, i)
    BY DEF PairingOK
<1>d. ~IsAuth(r) =>
         /\ IsOpen(rows, r.container, n + 1) <=> r.event = "ssh_connected"
         /\ Max(Seen(rows, r.container, n + 1)) = n + 1
    BY SeenNext DEF IsOpen
<1>e. ASSUME NEW c, c # r.container \/ IsAuth(r)
      PROVE  /\ IsOpen(rows, c, n + 1) <=> IsOpen(rows, c, n)
             /\ Max(Seen(rows, c, n + 1)) = Max(Seen(rows, c, n))
    BY <1>e, SeenNext DEF IsOpen
<1>f. IsAuth(r) <=> r.event \in {"auth_ok", "auth_fail"}
    BY DEF IsAuth
<1> HIDE DEF r, acc, nxt
<1>1. CASE r.event = "ssh_connected"
    <2>1. nxt = [pending |-> Pend(acc.pending, r), lengths |-> acc.lengths]
        BY <1>1, <1>a, <1>c DEF PairUp
    <2>2. \A c : c \in DOMAIN nxt.pending <=> IsOpen(rows, c, n + 1)
        BY <2>1, <1>1, <1>c, <1>d, <1>e, <1>f DEF Pend
    <2>3. \A c \in DOMAIN nxt.pending : nxt.pending[c] = rows[Max(Seen(rows, c, n + 1))].time
        BY <2>1, <1>1, <1>c, <1>d, <1>e, <1>f DEF Pend, r
    <2>4. Ends(rows, n + 1) = Ends(rows, n)
        BY <1>1, EndNext, EndsNext DEF r
    <2>5. /\ nxt.lengths \in Seq(Int)
          /\ Len(nxt.lengths) = Cardinality(Ends(rows, n + 1))
          /\ \A i \in Ends(rows, n + 1) :
                nxt.lengths[Cardinality(Ends(rows, i))] = Duration(rows, i)
        BY <2>1, <2>4, <1>c
    <2> QED BY <2>1, <2>2, <2>3, <2>5 DEF PairingOK, nxt
<1>2. CASE r.event \in {"ssh_disconnected", "timeout"} /\ r.container \in DOMAIN acc.pending
    <2> DEFINE d == r.time - acc.pending[r.container]
               late == r.time > acc.pending[r.container]
    <2>1. nxt = [pending |-> Restrict(acc.pending, DOMAIN acc.pending \ {r.container}),
                 lengths |-> IF late THEN Append(acc.lengths, d) ELSE acc.lengths]
        BY <1>2, <1>a DEF PairUp
    <2>2. \A c : c \in DOMAIN nxt.pending <=> IsOpen(rows, c, n + 1)
        BY <2>1, <1>2, <1>c, <1>d, <1>e, <1>f DEF Restrict
    <2>3. \A c \in DOMAIN nxt.pending : nxt.pending[c] = rows[Max(Seen(rows, c, n + 1))].time
        BY <2>1, <1>2, <1>c, <1>d, <1>e, <1>f DEF Restrict
    <2>4. n + 1 \in PairedEnds(rows) <=> late
        <3>1. acc.pending[r.container] = rows[Max(Seen(rows, r.container, n))].time
            BY <1>2, <1>c
        <3>2. acc.pending[r.container] \in Int
            <4>1. Seen(rows, r.container, n) # {} /\ Seen(rows, r.container, n) \in SUBSET (1 .. n)
                BY <1>2, <1>c DEF IsOpen, Seen
            <4>2. Max(Seen(rows, r.container, n)) \in 1 .. n
                BY <4>1, MaxOfInterval
            <4> QED BY <4>2, <3>1 DEF RowSeq
        <3> QED BY <1>2, <1>b, <1>c, <3>1, <3>2, EndNext DEF r
    <2>5. CASE late
        <3>1. d = Duration(rows, n + 1) /\ d \in Int
            <4>1. Bracket(rows, n + 1) = Seen(rows, r.container, n)
                BY DEF Bracket, Seen, r
            <4>2. acc.pending[r.container] = rows[Max(Seen(rows, r.container, n))].time
                BY <1>2, <1>c
            <4>3. Seen(rows, r.container, n) # {} /\ Seen(rows, r.container, n) \in SUBSET (1 .. n)
                BY <1>2, <1>c DEF IsOpen, Seen
            <4>4. Max(Seen(rows, r.container, n)) \in 1 .. n
                BY <4>3, MaxOfInterval
            <4>5. acc.pending[r.container] \in Int
                BY <4>2, <4>4 DEF RowSeq
            <4> QED BY <4>1, <4>2, <4>5, <1>b DEF Duration, r
        <3>2. nxt.lengths = Append(acc.lengths, d)
            BY <2>1, <2>5
        <3>3. /\ Ends(rows, n + 1) = Ends(rows, n) \cup {n + 1}
              /\ Cardinality(Ends(rows, n + 1)) = Cardinality(Ends(rows, n)) + 1
            BY <2>4, <2>5, EndsNext
        <3>4. /\ nxt.lengths \in Seq(Int)
              /\ Len(nxt.lengths) = Cardinality(Ends(rows, n + 1))
            BY <3>1, <3>2, <3>3, <1>c
        <3>5. ASSUME NEW i \in Ends(rows, n)
              PROVE  nxt.lengths[Cardinality(Ends(rows, i))] = Duration(rows, i)
            <4>1. i \in 1 .. n
                BY EndsFinite
            <4>2. Ends(rows, i) \subseteq Ends(rows, n)
                BY <4>1 DEF Ends, PairedEnds, RowSeq
            <4>3. i \in Ends(rows, i)
                BY <4>1 DEF Ends
            <4>4. Cardinality(Ends(rows, i)) \in 1 .. Cardinality(Ends(rows, n))
                <5>1. IsFiniteSet(Ends(rows, n)) /\ IsFiniteSet(Ends(rows, i))
                    BY <4>1, EndsFinite
                <5>2. Cardinality(Ends(rows, i)) <= Cardinality(Ends(rows, n))
                    BY <4>2, <5>1, FS_Subset
                <5>3. Cardinality(Ends(rows, i)) # 0
                    BY <4>3, <5>1, FS_EmptySet
                <5>4. Cardinality(Ends(rows, i)) \in Nat /\ Cardinality(Ends(rows, n)) \in Nat
                    BY <4>1, EndsFinite
                <5> QED BY <5>2, <5>3, <5>4
            <4>5. nxt.lengths[Cardinality(Ends(rows, i))] = acc.lengths[Cardinality(Ends(rows, i))]
                BY <3>1, <3>2, <4>4, <1>c, AppendProperties
            <4> QED BY <4>5, <1>c
        <3>6. nxt.lengths[Cardinality(Ends(rows, n + 1))] = Duration(rows, n + 1)
            BY <3>1, <3>2, <3>3, <1>c, AppendProperties
        <3>7. \A i \in Ends(rows, n + 1) :
                 nxt.lengths[Cardinality(Ends(rows, i))] = Duration(rows, i)
            BY <3>3, <3>5, <3>6
        <3> QED BY <2>1, <2>2, <2>3, <3>4, <3>7 DEF PairingOK, nxt
    <2>6. CASE ~ late
        <3>1. nxt.lengths = acc.lengths
            BY <2>1, <2>6
        <3>2. Ends(rows, n + 1) = Ends(rows, n)
            BY <2>4, <2>6, EndsNext
        <3>3. /\ nxt.lengths \in Seq(Int)
              /\ Len(nxt.lengths) = Cardinality(Ends(rows, n + 1))
              /\ \A i \in Ends(rows, n + 1) :
                    nxt.lengths[Cardinality(Ends(rows, i))] = Duration(rows, i)
            BY <3>1, <3>2, <1>c
        <3> QED BY <2>1, <2>2, <2>3, <3>3 DEF PairingOK, nxt
    <2> QED BY <2>5, <2>6
<1>3. CASE IsAuth(r) \/ (r.event \in {"ssh_disconnected", "timeout"}
                                      /\ r.container \notin DOMAIN acc.pending)
    <2>1. nxt = acc
        BY <1>3, <1>a, <1>f DEF PairUp
    <2>2. \A c : IsOpen(rows, c, n + 1) <=> IsOpen(rows, c, n)
        BY <1>3, <1>c, <1>d, <1>e, <1>f
    <2>3. \A c \in DOMAIN acc.pending : Max(Seen(rows, c, n + 1)) = Max(Seen(rows, c, n))
        BY <1>3, <1>e, <1>f
    <2>4. Ends(rows, n + 1) = Ends(rows, n)
        BY <1>3, <1>c, <1>f, EndNext, EndsNext DEF r
    <2> QED BY <2>1, <2>2, <2>3, <2>4, <1>c DEF PairingOK, nxt, acc
<1> QED BY <1>1, <1>2, <1>3, <1>b, <1>f DEF EventNames

(* After n rows the loop knows the open connections and has the durations   *)
(* of the first n rows, in their order.                                     *)
LEMMA PairingCorrect ==
    ASSUME NEW rows, RowSeq(rows)
    PROVE  \A n \in 0 .. Len(rows) : PairingOK(rows, n)
<1> DEFINE S == {n \in Nat : n <= Len(rows) => PairingOK(rows, n)}
<1>1. 0 \in S
    <2>1. Pairing(rows)[0] = [pending |-> << >>, lengths |-> << >>]
        BY PairingDef DEF RowSeq
    <2>2. \A c : Seen(rows, c, 0) = {}
        BY DEF Seen
    <2>3. Ends(rows, 0) = {}
        BY DEF Ends, PairedEnds, RowSeq
    <2>4. DOMAIN << >> = {} /\ << >> \in Seq(Int) /\ Len(<< >>) = 0
        OBVIOUS
    <2>5. Cardinality({}) = 0
        BY FS_EmptySet
    <2> DEFINE acc == Pairing(rows)[0]
    <2>6. /\ acc = [pending |-> acc.pending, lengths |-> acc.lengths]
          /\ DOMAIN acc.pending = {} /\ acc.lengths \in Seq(Int) /\ Len(acc.lengths) = 0
        BY <2>1, <2>4
    <2>7. \A c : ~ IsOpen(rows, c, 0)
        BY <2>2 DEF IsOpen
    <2> QED BY <2>3, <2>5, <2>6, <2>7 DEF PairingOK
<1>2. ASSUME NEW n \in S PROVE n + 1 \in S
    BY PairingStep DEF RowSeq
<1>3. S = Nat
    <2> HIDE DEF S
    <2>1. S \in SUBSET Nat
        BY DEF S
    <2> QED BY <1>1, <1>2, <2>1, SetInduction
<1> QED BY <1>3 DEF RowSeq

(* The inverse of a function that gives every element of a finite set a      *)
(* place of its own among as many places as there are elements.             *)
LEMMA PlacesInverse ==
    ASSUME NEW S, IsFiniteSet(S), NEW place \in [S -> 1 .. Cardinality(S)],
           \A x, y \in S : place[x] = place[y] => x = y
    PROVE  LET at == Inverse(place, S, 1 .. Cardinality(S))
           IN  /\ at \in [1 .. Cardinality(S) -> S]
               /\ \A k \in 1 .. Cardinality(S) : place[at[k]] = k
               /\ \A x \in S : at[place[x]] = x
<1> DEFINE N == Cardinality(S)
           at == Inverse(place, S, 1 .. N)
<1>1. N \in Nat
    BY FS_CardinalityType
<1>2. IsFiniteSet(1 .. N) /\ Cardinality(1 .. N) = N
    BY <1>1, FS_Interval
<1>3. place \in Injection(S, 1 .. N)
    BY DEF Injection, IsInjective
<1>4. place \in Surjection(S, 1 .. N)
    <2> HIDE DEF N
    <2>1. Cardinality(S) = Cardinality(1 .. N)
        BY <1>2 DEF N
    <2> QED BY <1>2, <1>3, <2>1, FS_Injection
<1>5. ASSUME NEW k \in 1 .. N
      PROVE  at[k] \in S /\ place[at[k]] = k
    <2>1. \E x \in S : place[x] = k
        BY <1>4 DEF Surjection
    <2>2. k \in Range(place)
        BY <2>1 DEF Range
    <2>3. at[k] = CHOOSE x \in S : k \in Range(place) => place[x] = k
        BY DEF Inverse
    <2> HIDE DEF at, N
    <2> QED BY <2>1, <2>2, <2>3
<1>6. at \in [1 .. N -> S]
    <2>1. at = [k \in 1 .. N |-> at[k]]
        BY DEF Inverse
    <2> HIDE DEF at, N
    <2> QED BY <1>5, <2>1
<1>7. \A x \in S : at[place[x]] = x
    <2> HIDE DEF at
    <2> QED BY <1>5, <1>6
<1> QED BY <1>5, <1>6, <1>7

(* The k-th duration is that of the end that has k ends up to it.            *)
LEMMA EndPlaces ==
    ASSUME NEW rows, RowSeq(rows)
    PROVE  LET ends == PairedEnds(rows)
               place == [i \in ends |-> Cardinality({j \in ends : j <= i})]
           IN  /\ IsFiniteSet(ends) /\ Cardinality(ends) \in Nat
               /\ ends = Ends(rows, Len(rows))
               /\ \A i \in ends : {j \in ends : j <= i} = Ends(rows, i)
               /\ place \in [ends -> 1 .. Cardinality(ends)]
               /\ \A i, j \in ends : place[i] = place[j] => i = j
<1> DEFINE ends == PairedEnds(rows)
           place == [i \in ends |-> Cardinality({j \in ends : j <= i})]
<1>1. ends \in SUBSET (1 .. Len(rows)) /\ Len(rows) \in Nat
    BY DEF PairedEnds, RowSeq
<1>2. ends = Ends(rows, Len(rows))
    BY <1>1 DEF Ends
<1>3. IsFiniteSet(ends) /\ Cardinality(ends) \in Nat
    BY <1>1, <1>2, EndsFinite
<1>4. \A i \in ends : {j \in ends : j <= i} = Ends(rows, i)
    BY DEF Ends
<1>5. ASSUME NEW i \in ends
      PROVE  /\ Ends(rows, i) \subseteq ends /\ i \in Ends(rows, i)
             /\ IsFiniteSet(Ends(rows, i))
             /\ Cardinality(Ends(rows, i)) \in 1 .. Cardinality(ends)
    <2>1. Ends(rows, i) \subseteq ends /\ i \in Ends(rows, i)
        BY <1>1 DEF Ends
    <2> HIDE DEF ends
    <2>2. /\ IsFiniteSet(Ends(rows, i))
          /\ Cardinality(Ends(rows, i)) <= Cardinality(ends)
        BY <1>3, <2>1, FS_Subset
    <2>3. Cardinality(Ends(rows, i)) # 0 /\ Cardinality(Ends(rows, i)) \in Nat
        BY <2>1, <2>2, FS_EmptySet, FS_CardinalityType
    <2> QED BY <1>3, <2>1, <2>2, <2>3
<1>6. ASSUME NEW i \in ends, NEW j \in ends, i < j
      PROVE  Cardinality(Ends(rows, i)) # Cardinality(Ends(rows, j))
    <2>1. Ends(rows, i) \subseteq Ends(rows, j)
        BY <1>1, <1>6 DEF Ends
    <2>2. j \notin Ends(rows, i)
        BY <1>1, <1>6 DEF Ends
    <2> HIDE DEF ends
    <2>3. j \in Ends(rows, j) /\ IsFiniteSet(Ends(rows, j))
        BY <1>5
    <2> QED BY <2>1, <2>2, <2>3, FS_Subset
<1>7. \A i \in ends : place[i] = Cardinality(Ends(rows, i))
    BY <1>4
<1>8. place \in [ends -> 1 .. Cardinality(ends)]
    <2>1. place = [i \in ends |-> place[i]]
        OBVIOUS
    <2> HIDE DEF place, ends
    <2> QED BY <1>5, <1>7, <2>1
<1>9. \A i, j \in ends : place[i] = place[j] => i = j
    <2>1. \A i, j \in ends : i \in Int /\ j \in Int
        BY <1>1
    <2> HIDE DEF place, ends
    <2> QED BY <1>6, <1>7, <2>1
<1> QED BY <1>2, <1>3, <1>4, <1>8, <1>9

(* compute_durations returns what a reader of the rows would pair, for every *)
(* sequence of rows.                                                        *)
THEOREM ComputeDurationsCorrect ==
    ASSUME NEW rows, RowSeq(rows)
    PROVE  ComputeDurations(rows) = DurationsOf(rows)
<1> DEFINE ends == PairedEnds(rows)
           N == Cardinality(ends)
           place == [i \in ends |-> Cardinality({j \in ends : j <= i})]
           end == Inverse(place, ends, 1 .. N)
           lengths == ComputeDurations(rows)
<1>1. /\ IsFiniteSet(ends) /\ N \in Nat
      /\ ends = Ends(rows, Len(rows))
      /\ \A i \in ends : place[i] = Cardinality(Ends(rows, i))
      /\ place \in [ends -> 1 .. N]
      /\ \A i, j \in ends : place[i] = place[j] => i = j
    BY EndPlaces
<1>2. end \in [1 .. N -> ends] /\ \A k \in 1 .. N : place[end[k]] = k
    <2> HIDE DEF place, ends
    <2> QED BY <1>1, PlacesInverse
<1>3. /\ lengths \in Seq(Int) /\ Len(lengths) = N
      /\ \A i \in ends : lengths[place[i]] = Duration(rows, i)
    <2>1. PairingOK(rows, Len(rows))
        BY PairingCorrect DEF RowSeq
    <2> HIDE DEF place, ends
    <2> QED BY <1>1, <2>1 DEF PairingOK, ComputeDurations
<1>4. DurationsOf(rows) = [k \in 1 .. N |-> Duration(rows, end[k])]
    BY DEF DurationsOf, Duration
<1>5. \A k \in 1 .. N : lengths[k] = Duration(rows, end[k])
    <2> HIDE DEF place, ends, end, N, lengths
    <2> QED BY <1>2, <1>3
<1>6. lengths = [k \in 1 .. N |-> lengths[k]]
    <2> HIDE DEF lengths, N
    <2> QED BY <1>1, <1>3
<1> QED
    <2> HIDE DEF lengths, N, end
    <2>1. lengths = DurationsOf(rows)
        BY <1>4, <1>5, <1>6
    <2> QED BY <2>1 DEF lengths

(* Every duration is the time between a connection and the next event of a   *)
(* session of its container, which ends it.                                 *)
LEMMA DurationsRange ==
    ASSUME NEW rows, RowSeq(rows), NEW d \in Range(ComputeDurations(rows))
    PROVE  \E i \in PairedEnds(rows) : d = Duration(rows, i)
<1> DEFINE ends == PairedEnds(rows)
           N == Cardinality(ends)
           place == [i \in ends |-> Cardinality({j \in ends : j <= i})]
           end == Inverse(place, ends, 1 .. N)
<1>1. end \in [1 .. N -> ends]
    <2>1. /\ IsFiniteSet(ends) /\ place \in [ends -> 1 .. N]
          /\ \A i, j \in ends : place[i] = place[j] => i = j
        BY EndPlaces
    <2> HIDE DEF place, ends
    <2> QED BY <2>1, PlacesInverse
<1>2. DurationsOf(rows) = [k \in 1 .. N |-> Duration(rows, end[k])]
    BY DEF DurationsOf, Duration
<1>3. d \in Range([k \in 1 .. N |-> Duration(rows, end[k])])
    BY <1>2, ComputeDurationsCorrect
<1> HIDE DEF ends, N, end
<1>4. PICK k \in 1 .. N : d = Duration(rows, end[k])
    BY <1>3 DEF Range
<1>5. end[k] \in ends
    BY <1>1
<1> QED BY <1>4, <1>5 DEF ends

--------------------------------------------------------------------------------
(***************************************************************************)
(* Sums                                                                    *)
(***************************************************************************)

Pick(s) == CHOOSE x \in s : TRUE

(* SumFunction's table of the sums over the subsets of a function's domain.  *)
SumTable(f) ==
    CHOOSE iter : iter = [s \in SUBSET DOMAIN f |->
                            IF s = {} THEN 0 ELSE f[Pick(s)] + iter[s \ {Pick(s)}]]

LEMMA SumFunctionTable ==
    ASSUME NEW f
    PROVE  SumFunction(f) = SumTable(f)[DOMAIN f]
BY DEF SumFunction, SumFunctionOnSet, FoldFunctionOnSet, MapThenFoldSet, SumTable, Pick

LEMMA PickRemoved ==
    ASSUME NEW s, s # {}, IsFiniteSet(s)
    PROVE  /\ Pick(s) \in s
           /\ IsFiniteSet(s \ {Pick(s)})
           /\ Cardinality(s \ {Pick(s)}) = Cardinality(s) - 1
           /\ Cardinality(s) \in Nat \ {0}
<1>1. Pick(s) \in s
    BY DEF Pick
<1>2. Cardinality(s) \in Nat \ {0}
    BY FS_CardinalityType, FS_EmptySet
<1> QED BY <1>1, <1>2, FS_RemoveElement

(* The recursion that adds up the values of a function over a finite set    *)
(* has the function its equation says.                                      *)
LEMMA SumTableDef ==
    ASSUME NEW f, IsFiniteSet(DOMAIN f)
    PROVE  SumTable(f) = [s \in SUBSET DOMAIN f |->
                             IF s = {} THEN 0 ELSE f[Pick(s)] + SumTable(f)[s \ {Pick(s)}]]
<1> DEFINE D == DOMAIN f
           Small(n) == {s \in SUBSET D : Cardinality(s) <= n}
           F(g, U) == [s \in U |-> IF s = {} THEN 0 ELSE f[Pick(s)] + g[s \ {Pick(s)}]]
           S == {n \in Nat : \E g : g = F(g, Small(n))}
<1>0. \A s \in SUBSET D : IsFiniteSet(s) /\ Cardinality(s) \in Nat
    BY FS_Subset, FS_CardinalityType
<1>1. 0 \in S
    <2>1. \A s \in Small(0) : s = {}
        BY <1>0, FS_EmptySet
    <2>2. [s \in Small(0) |-> 0] = F([s \in Small(0) |-> 0], Small(0))
        <3> HIDE DEF Small
        <3> QED BY <2>1
    <2> HIDE DEF F
    <2> QED BY <2>2
<1>2. ASSUME NEW n \in S PROVE n + 1 \in S
    <2>1. PICK g : g = F(g, Small(n))
        OBVIOUS
    <2> DEFINE h == [s \in Small(n + 1) |->
                        IF s \in Small(n) THEN g[s] ELSE f[Pick(s)] + g[s \ {Pick(s)}]]
    <2>2. \A s \in Small(n + 1) : s # {} => s \ {Pick(s)} \in Small(n) /\ s \ {Pick(s)} \in Small(n + 1)
        BY <1>0, PickRemoved
    <2>3. {} \in Small(n) /\ \A s \in Small(n) : s \in Small(n + 1)
        BY <1>0, FS_EmptySet
    <2>4. \A s \in Small(n) : s # {} => s \ {Pick(s)} \in Small(n)
        BY <2>2, <2>3
    <2>5. ASSUME NEW s \in Small(n + 1)
          PROVE  h[s] = IF s = {} THEN 0 ELSE f[Pick(s)] + h[s \ {Pick(s)}]
        <3> HIDE DEF Small
        <3>1. CASE s = {}
            BY <2>1, <2>3, <3>1
        <3>2. CASE s # {}
            <4>1. h[s \ {Pick(s)}] = g[s \ {Pick(s)}]
                BY <2>2, <3>2
            <4>2. CASE s \in Small(n)
                BY <2>1, <3>2, <4>1, <4>2
            <4>3. CASE s \notin Small(n)
                BY <3>2, <4>1, <4>3
            <4> QED BY <4>2, <4>3
        <3> QED BY <3>1, <3>2
    <2>6. h = F(h, Small(n + 1))
        <3>1. h = [s \in Small(n + 1) |-> h[s]]
            OBVIOUS
        <3> HIDE DEF h, Small
        <3> QED BY <2>5, <3>1
    <2> HIDE DEF F, h
    <2> QED BY <2>6
<1>3. S = Nat
    <2> HIDE DEF S
    <2>1. S \in SUBSET Nat
        BY DEF S
    <2> QED BY <1>1, <1>2, <2>1, SetInduction
<1>4. Small(Cardinality(D)) = SUBSET D /\ Cardinality(D) \in Nat
    BY <1>0, FS_Subset, FS_CardinalityType
<1>5. \E g : g = F(g, SUBSET D)
    <2> HIDE DEF F, Small
    <2> QED BY <1>3, <1>4
<1>6. SumTable(f) = CHOOSE g : g = F(g, SUBSET D)
    BY DEF SumTable
<1>7. SumTable(f) = F(SumTable(f), SUBSET D)
    <2> HIDE DEF F
    <2> QED BY <1>5, <1>6
<1> QED BY <1>7

(* A sum of natural numbers, and what taking any element out leaves.         *)
LEMMA SumRemove ==
    ASSUME NEW f, IsFiniteSet(DOMAIN f), \A d \in DOMAIN f : f[d] \in Nat
    PROVE  /\ SumTable(f)[{}] = 0
           /\ \A s \in SUBSET DOMAIN f :
                /\ SumTable(f)[s] \in Nat
                /\ \A d \in s : SumTable(f)[s] = f[d] + SumTable(f)[s \ {d}]
<1> DEFINE D == DOMAIN f
           A == SumTable(f)
           P(s) == A[s] \in Nat /\ \A d \in s : A[s] = f[d] + A[s \ {d}]
           S == {n \in Nat : \A s \in SUBSET D : Cardinality(s) <= n => P(s)}
<1>0. \A s \in SUBSET D : IsFiniteSet(s) /\ Cardinality(s) \in Nat
    BY FS_Subset, FS_CardinalityType
<1>a. A[{}] = 0
    BY SumTableDef
<1>b. ASSUME NEW s \in SUBSET D, s # {}
      PROVE  A[s] = f[Pick(s)] + A[s \ {Pick(s)}] /\ Pick(s) \in s
    BY <1>b, SumTableDef DEF Pick
<1> HIDE DEF A
<1>1. 0 \in S
    <2>1. \A s \in SUBSET D : Cardinality(s) <= 0 => s = {}
        BY <1>0, FS_EmptySet
    <2> QED BY <1>a, <2>1
<1>2. ASSUME NEW n \in S PROVE n + 1 \in S
    <2>0. \A s \in SUBSET D : Cardinality(s) <= n => P(s)
        OBVIOUS
    <2> SUFFICES ASSUME NEW s \in SUBSET D, Cardinality(s) <= n + 1, s # {}
                 PROVE  P(s)
        <3>1. P({})
            BY <1>a
        <3> HIDE DEF P
        <3> QED BY <3>1
    <2> DEFINE p == Pick(s)
               s1 == s \ {p}
    <2>1. p \in s /\ A[s] = f[p] + A[s1]
        BY <1>b
    <2>2. s1 \in SUBSET D /\ Cardinality(s1) <= n
        BY <1>0, PickRemoved
    <2>3. A[s1] \in Nat /\ \A d \in s1 : A[s1] = f[d] + A[s1 \ {d}]
        BY <2>0, <2>2
    <2>4. A[s] \in Nat
        BY <2>1, <2>3
    <2>5. ASSUME NEW d \in s, d # p
          PROVE  A[s] = f[d] + A[s \ {d}]
        <3> DEFINE s2 == s \ {d}
                   s3 == s1 \ {d}
        <3>1. s2 \in SUBSET D /\ Cardinality(s2) <= n
            BY <1>0, FS_RemoveElement
        <3>2. p \in s2 /\ s2 \ {p} = s3 /\ d \in s1
            BY <2>1, <2>5
        <3>3. A[s2] = f[p] + A[s3]
            BY <2>0, <3>1, <3>2
        <3>4. A[s1] = f[d] + A[s3]
            BY <2>3, <3>2
        <3>5. A[s3] \in Nat
            <4>1. s3 \in SUBSET s1 /\ IsFiniteSet(s1)
                BY <1>0, <2>2
            <4>2. Cardinality(s3) <= Cardinality(s1)
                BY <4>1, FS_Subset
            <4>3. s3 \in SUBSET D /\ Cardinality(s3) <= n
                BY <1>0, <2>2, <4>1, <4>2
            <4> QED BY <2>0, <4>3
        <3>6. f[p] \in Nat /\ f[d] \in Nat
            BY <2>1
        <3> HIDE DEF s1, s2, s3, p
        <3>7. A[s] = f[d] + A[s2]
            BY <2>1, <3>3, <3>4, <3>5, <3>6
        <3> QED BY <3>7 DEF s2
    <2> QED BY <2>1, <2>4, <2>5
<1>3. S = Nat
    <2> HIDE DEF S
    <2>1. S \in SUBSET Nat
        BY DEF S
    <2> QED BY <1>1, <1>2, <2>1, SetInduction
<1>4. \A s \in SUBSET D : P(s)
    <2> HIDE DEF P
    <2> QED BY <1>0, <1>3
<1> QED BY <1>a, <1>4 DEF A

(* One more number a in the inequality of Cauchy: s is the sum of n         *)
(* numbers, q that of their squares.                                        *)
LEMMA CauchyStep ==
    ASSUME NEW n \in Nat, NEW a \in Nat, NEW s \in Nat, NEW q \in Nat, s * s <= n * q
    PROVE  (s + a) * (s + a) <= (n + 1) * (q + a * a)
<1>1. CASE n = 0
    <2>1. s = 0
        <3>1. s # 0 => s * s > 0
            OBVIOUS
        <3> QED BY <1>1, <3>1
    <2> QED BY <1>1, <2>1
<1>2. CASE n > 0
    <2> DEFINE x == q + n * (a * a) - 2 * (s * a)
    <2>1. n * x = (n * q - s * s) + (s - n * a) * (s - n * a)
        OBVIOUS
    <2>2. (s - n * a) * (s - n * a) >= 0
        <3>1. \A z \in Int : z * z >= 0
            OBVIOUS
        <3>2. s - n * a \in Int
            OBVIOUS
        <3> QED BY <3>1, <3>2
    <2>3. x \in Int /\ n * x >= 0
        <3>1. x \in Int /\ n * q \in Int /\ s * s \in Int /\ (s - n * a) * (s - n * a) \in Int
            OBVIOUS
        <3> HIDE DEF x
        <3> QED BY <2>1, <2>2, <3>1
    <2>4. x >= 0
        <3> HIDE DEF x
        <3>1. x < 0 => n * x < 0
            BY <1>2, <2>3
        <3> QED BY <2>3, <3>1
    <2>5. (n + 1) * (q + a * a) - (s + a) * (s + a) = (n * q - s * s) + x
        OBVIOUS
    <2> HIDE DEF x
    <2> QED BY <2>3, <2>4, <2>5
<1> QED BY <1>1, <1>2

(* The squared deviation of a from n others, against their spread.          *)
LEMMA DeviationStep ==
    ASSUME NEW n \in Nat, NEW a \in Nat, NEW s \in Nat, NEW q \in Nat, s * s <= n * q
    PROVE  ((n + 1) * a - (s + a)) * ((n + 1) * a - (s + a))
               <= n * ((n + 1) * (q + a * a) - (s + a) * (s + a))
<1> DEFINE v == n * q - s * s
<1>1. v \in Nat
    OBVIOUS
<1>2. n * ((n + 1) * (q + a * a) - (s + a) * (s + a))
        = ((n + 1) * a - (s + a)) * ((n + 1) * a - (s + a)) + (n + 1) * v
    OBVIOUS
<1>3. (n + 1) * v >= 0
    <2> HIDE DEF v
    <2> QED BY <1>1
<1>4. /\ n * ((n + 1) * (q + a * a) - (s + a) * (s + a)) \in Int
      /\ ((n + 1) * a - (s + a)) * ((n + 1) * a - (s + a)) \in Int
      /\ (n + 1) * v \in Int
    OBVIOUS
<1> QED BY <1>2, <1>3, <1>4

(* From w * w <= (n - 1) * v, with v the spread and u <= w a deviation that *)
(* exceeds the threshold t, to the number of numbers.                       *)
LEMMA BoundStep ==
    ASSUME NEW n \in Nat, n >= 2, NEW v \in Nat, v > 0, NEW u \in Nat, NEW w \in Nat, u <= w,
           NEW t \in Nat, w * w <= (n - 1) * v, 100 * (u * u) * (n - 1) > t * n * v
    PROVE  100 * ((n - 1) * (n - 1)) > t * n
<1> DEFINE k == n - 1
           x == 100 * (k * k)
           y == t * n
<1>1. k \in Nat /\ x \in Nat /\ y \in Nat
    OBVIOUS
<1>2. u * u <= w * w
    OBVIOUS
<1>3. u * u <= k * v
    <2>1. u * u \in Nat /\ w * w \in Nat /\ k * v \in Nat
        OBVIOUS
    <2> QED BY <1>2, <2>1
<1>4. (u * u) * k <= (k * v) * k
    <2> DEFINE p == u * u
               r == k * v
    <2>1. p \in Nat /\ r \in Nat /\ p <= r
        BY <1>3
    <2> HIDE DEF p, r, k
    <2>2. p * k <= r * k
        BY <1>1, <2>1
    <2> QED BY <2>2 DEF p, r
<1>5. 100 * (u * u) * k = 100 * ((u * u) * k) /\ 100 * ((k * v) * k) = x * v
    OBVIOUS
<1>6. x * v > y * v
    <2>1. (u * u) * k \in Nat /\ (k * v) * k \in Nat /\ y * v \in Nat /\ x * v \in Nat
        OBVIOUS
    <2>2. 100 * (u * u) * k > y * v
        OBVIOUS
    <2> HIDE DEF x, y, k
    <2> QED BY <1>4, <1>5, <2>1, <2>2
<1>7. x > y
    <2> HIDE DEF x, y, k
    <2>1. x <= y => x * v <= y * v
        BY <1>1
    <2>2. x * v \in Nat /\ y * v \in Nat
        BY <1>1
    <2> QED BY <1>1, <1>6, <2>1, <2>2
<1> QED BY <1>7

(* The squared sum of a function's values is at most their number times the  *)
(* sum of their squares.                                                    *)
Squares(f) == [d \in DOMAIN f |-> Square(f[d])]

LEMMA CauchySums ==
    ASSUME NEW f, IsFiniteSet(DOMAIN f), \A d \in DOMAIN f : f[d] \in Nat,
           NEW s \in SUBSET DOMAIN f
    PROVE  SumTable(f)[s] * SumTable(f)[s] <= Cardinality(s) * SumTable(Squares(f))[s]
<1> DEFINE D == DOMAIN f
           A == SumTable(f)
           B == SumTable(Squares(f))
           P(t) == A[t] * A[t] <= Cardinality(t) * B[t]
           S == {n \in Nat : \A t \in SUBSET D : Cardinality(t) <= n => P(t)}
<1>0. \A t \in SUBSET D : IsFiniteSet(t) /\ Cardinality(t) \in Nat
    BY FS_Subset, FS_CardinalityType
<1>a. /\ A[{}] = 0
      /\ \A t \in SUBSET D : A[t] \in Nat /\ \A d \in t : A[t] = f[d] + A[t \ {d}]
    BY SumRemove
<1>b. /\ B[{}] = 0
      /\ \A t \in SUBSET D : B[t] \in Nat /\ \A d \in t : B[t] = f[d] * f[d] + B[t \ {d}]
    <2>1. DOMAIN Squares(f) = D /\ \A d \in D : Squares(f)[d] = f[d] * f[d]
        BY DEF Squares, Square
    <2>2. \A d \in DOMAIN Squares(f) : Squares(f)[d] \in Nat
        BY <2>1
    <2> HIDE DEF D
    <2>3. IsFiniteSet(DOMAIN Squares(f))
        BY <2>1 DEF D
    <2>4. /\ B[{}] = 0
          /\ \A t \in SUBSET D : B[t] \in Nat /\ \A d \in t : B[t] = Squares(f)[d] + B[t \ {d}]
        BY <2>1, <2>2, <2>3, SumRemove
    <2> QED BY <2>1, <2>4
<1> HIDE DEF A, B
<1>1. P({})
    BY <1>a, <1>b, FS_EmptySet
<1>2. 0 \in S
    <2>1. \A t \in SUBSET D : Cardinality(t) <= 0 => t = {}
        BY <1>0, FS_EmptySet
    <2> HIDE DEF P
    <2> QED BY <1>1, <2>1
<1>3. ASSUME NEW n \in S PROVE n + 1 \in S
    <2>1. \A t \in SUBSET D : Cardinality(t) <= n => P(t)
        OBVIOUS
    <2> SUFFICES ASSUME NEW t \in SUBSET D, Cardinality(t) <= n + 1, t # {}
                 PROVE  P(t)
        <3> HIDE DEF P
        <3> QED BY <1>1
    <2> DEFINE d == Pick(t)
               u == t \ {d}
               m == Cardinality(u)
    <2>2. d \in t /\ m \in Nat /\ Cardinality(t) = m + 1 /\ u \in SUBSET D /\ m <= n
        BY <1>0, PickRemoved
    <2>3. A[u] * A[u] <= m * B[u]
        BY <2>1, <2>2
    <2>4. f[d] \in Nat /\ A[u] \in Nat /\ B[u] \in Nat
        BY <1>a, <1>b, <2>2
    <2>5. A[t] = A[u] + f[d] /\ B[t] = B[u] + f[d] * f[d]
        <3>1. A[t] = f[d] + A[u]
            BY <1>a, <2>2
        <3>2. B[t] = f[d] * f[d] + B[u]
            BY <1>b, <2>2
        <3>3. f[d] * f[d] \in Nat
            BY <2>4
        <3> QED BY <2>4, <3>1, <3>2, <3>3
    <2> HIDE DEF d, u, m
    <2>6. (A[u] + f[d]) * (A[u] + f[d]) <= (m + 1) * (B[u] + f[d] * f[d])
        BY <2>2, <2>3, <2>4, CauchyStep
    <2> QED BY <2>2, <2>5, <2>6
<1>4. S = Nat
    <2> HIDE DEF S
    <2>1. S \in SUBSET Nat
        BY DEF S
    <2> QED BY <1>2, <1>3, <2>1, SetInduction
<1>5. P(s)
    <2> HIDE DEF P
    <2> QED BY <1>0, <1>4
<1> QED BY <1>5 DEF A, B

(* A number that is at most one of n numbers lies at most (n - 1) / sqrt(n)   *)
(* of their sample deviations above their mean.                             *)
THEOREM DeviantBound ==
    ASSUME NEW f, IsFiniteSet(DOMAIN f), \A d \in DOMAIN f : f[d] \in Nat,
           NEW d \in DOMAIN f, NEW x \in Nat, x <= f[d], NEW T \in Nat,
           Deviant(x, f, T)
    PROVE  100 * Square(Cardinality(DOMAIN f) - 1) > Square(T) * Cardinality(DOMAIN f)
<1> DEFINE D == DOMAIN f
           n == Cardinality(D)
           sum == SumFunction(f)
           squares == SumFunction(Squares(f))
           rest == D \ {d}
           s == SumTable(f)[rest]
           q == SumTable(Squares(f))[rest]
<1>1. /\ n >= 2
      /\ n * squares > sum * sum
      /\ n * x > sum
      /\ 100 * ((n * x - sum) * (n * x - sum)) * (n - 1) > (T * T) * n * (n * squares - sum * sum)
    BY DEF Deviant, Squares, Square
<1>2. n \in Nat /\ Cardinality(rest) = n - 1 /\ n - 1 \in Nat
    BY <1>1, FS_CardinalityType, FS_RemoveElement
<1>3. f[d] \in Nat /\ s \in Nat /\ sum = s + f[d] /\ sum \in Nat
    <2>1. sum = SumTable(f)[D]
        BY SumFunctionTable
    <2>2. SumTable(f)[D] = f[d] + s /\ s \in Nat
        BY SumRemove
    <2> QED BY <2>1, <2>2
<1>4. q \in Nat /\ squares = q + f[d] * f[d] /\ squares \in Nat
    <2>1. DOMAIN Squares(f) = D /\ \A c \in D : Squares(f)[c] = f[c] * f[c]
        BY DEF Squares, Square
    <2>2. squares = SumTable(Squares(f))[D]
        BY <2>1, SumFunctionTable
    <2>3. \A c \in DOMAIN Squares(f) : Squares(f)[c] \in Nat
        BY <2>1
    <2> HIDE DEF D
    <2>4. IsFiniteSet(DOMAIN Squares(f)) /\ d \in DOMAIN Squares(f)
        BY <2>1 DEF D
    <2> DEFINE g == Squares(f)
    <2>5. SumTable(g)[D] = g[d] + q /\ q \in Nat
        <3>1. DOMAIN g = D /\ IsFiniteSet(DOMAIN g) /\ \A c \in DOMAIN g : g[c] \in Nat
            BY <2>1, <2>3, <2>4
        <3> HIDE DEF g
        <3>2. \A t \in SUBSET DOMAIN g :
                 SumTable(g)[t] \in Nat /\ \A c \in t : SumTable(g)[t] = g[c] + SumTable(g)[t \ {c}]
            BY <3>1, SumRemove
        <3>3. d \in D
            BY DEF D
        <3> QED BY <3>1, <3>2, <3>3 DEF g
    <2> QED BY <1>3, <2>1, <2>2, <2>4, <2>5
<1>5. s * s <= (n - 1) * q
    BY <1>2, CauchySums
<1> DEFINE v == n * squares - sum * sum
           u == n * x - sum
           w == n * f[d] - sum
<1> HIDE DEF n, sum, squares, s, q
<1>6. v \in Nat /\ v > 0
    BY <1>1, <1>2, <1>3, <1>4
<1>7. u \in Nat /\ w \in Nat /\ u <= w
    <2>1. n * x <= n * f[d]
        BY <1>2, <1>3
    <2> QED BY <1>1, <1>2, <1>3, <2>1
<1>8. w * w <= (n - 1) * v
    <2> DEFINE k == n - 1
    <2>1. k \in Nat /\ n = k + 1 /\ s * s <= k * q
        BY <1>2, <1>5
    <2> HIDE DEF k
    <2>2. ((k + 1) * f[d] - (s + f[d])) * ((k + 1) * f[d] - (s + f[d]))
             <= k * ((k + 1) * (q + f[d] * f[d]) - (s + f[d]) * (s + f[d]))
        BY <1>3, <1>4, <2>1, DeviationStep
    <2> QED BY <1>3, <1>4, <2>1, <2>2 DEF k
<1>9. T * T \in Nat
    OBVIOUS
<1>10. 100 * (u * u) * (n - 1) > (T * T) * n * v
    BY <1>1
<1> HIDE DEF u, v, w
<1>11. 100 * ((n - 1) * (n - 1)) > (T * T) * n
    BY <1>1, <1>2, <1>6, <1>7, <1>8, <1>9, <1>10, BoundStep
<1> QED BY <1>11 DEF n, Square

--------------------------------------------------------------------------------
(***************************************************************************)
(* Verdicts and hours                                                      *)
(***************************************************************************)

AnomalyNames == {"unusual_time", "high_frequency", "long_duration"}

(* Every anomaly is of one of the three kinds and three levels.             *)
LEMMA AnomaliesType ==
    ASSUME NEW baseRows, NEW recentRows, NEW a \in Anomalies(baseRows, recentRows)
    PROVE  a.type \in AnomalyNames /\ a.level \in 1 .. 3
<1>1. \A x, f : DeviantLevel(x, f) \in 1 .. 3
    BY DEF DeviantLevel
<1>2. \A count, total : HourLevel(count, total) \in 1 .. 3
    BY DEF HourLevel
<1>3. CASE a \in UnusualTimes(baseRows, recentRows)
    <2>1. \E count, total : a = [type |-> "unusual_time", level |-> HourLevel(count, total)]
        BY <1>3 DEF UnusualTimes
    <2> QED BY <1>2, <2>1 DEF AnomalyNames
<1>4. CASE a \in HighFrequencies(baseRows, recentRows)
    <2>1. \E x, f : a = [type |-> "high_frequency", level |-> DeviantLevel(x, f)]
        BY <1>4 DEF HighFrequencies
    <2> QED BY <1>1, <2>1 DEF AnomalyNames
<1>5. CASE a \in LongDurations(baseRows, recentRows)
    <2>1. \E x, f : a = [type |-> "long_duration", level |-> DeviantLevel(x, f)]
        BY <1>5 DEF LongDurations
    <2> QED BY <1>1, <2>1 DEF AnomalyNames
<1> QED BY <1>3, <1>4, <1>5 DEF Anomalies

(* The severity of a report stays within the three that the table admits.   *)
LEMMA VerdictType ==
    ASSUME NEW found, found # {}, \A a \in found : a.type \in AnomalyNames /\ a.level \in 1 .. 3
    PROVE  /\ Severity(found) \in 1 .. 3
           /\ AnomalyType(found) \in AnomalyNames \cup {"composite"}
<1> DEFINE levels == {a.level : a \in found}
<1>1. levels \in SUBSET (1 .. 3) /\ levels # {}
    OBVIOUS
<1>2. Max(levels) \in 1 .. 3
    <2> HIDE DEF levels
    <2> QED BY <1>1, MaxOfInterval
<1>3. Severity(found) \in 1 .. 3
    BY <1>2 DEF Severity
<1>4. Types(found) \in SUBSET AnomalyNames /\ Types(found) # {}
    BY DEF Types
<1>5. (CHOOSE type \in Types(found) : TRUE) \in AnomalyNames
    BY <1>4
<1>6. AnomalyType(found) \in AnomalyNames \cup {"composite"}
    BY <1>5 DEF AnomalyType
<1> QED BY <1>3, <1>6

LEMMA DivMod ==
    ASSUME NEW n \in Nat \ {0}, NEW q \in Int, NEW r \in 0 .. n - 1
    PROVE  (q * n + r) % n = r /\ (q * n + r) \div n = q
OBVIOUS

LEMMA Division ==
    ASSUME NEW n \in Nat \ {0}, NEW t \in Int
    PROVE  /\ t \div n \in Int /\ t % n \in 0 .. n - 1
           /\ t = (t \div n) * n + (t % n)
<1>1. t \div n \in Int /\ t % n \in Int
    OBVIOUS
<1>2. t % n >= 0 /\ t % n < n
    OBVIOUS
<1>3. t = n * (t \div n) + (t % n)
    OBVIOUS
<1>4. n * (t \div n) = (t \div n) * n
    BY <1>1
<1>5. t % n \in 0 .. n - 1
    BY <1>1, <1>2
<1> QED BY <1>1, <1>3, <1>4, <1>5

(* A time any number of days before another, plus h hours and up to one more, *)
(* is in another hour of the day, when h is neither 0 nor the day's last.    *)
LEMMA HourApart ==
    ASSUME NEW t \in Int, NEW d \in Int, NEW h \in 1 .. Hours - 2, NEW m \in 0 .. HourLength
    PROVE  Hour(t - d * Day + h * HourLength + m) # Hour(t)
<1> DEFINE L == HourLength
           a == t \div Day
           b == t % Day
           c == b \div L
           e == b % L
<1>1. L \in Nat \ {0} /\ Hours \in Nat \ {0} /\ Day = L * Hours /\ Day \in Nat \ {0}
    <2>1. \A x, y \in Nat \ {0} : x * y \in Nat \ {0}
        OBVIOUS
    <2> QED BY <2>1, StatsAssumption DEF Day
<1>2. a \in Int /\ b \in 0 .. Day - 1 /\ t = a * Day + b
    BY <1>1, Division
<1>3. c \in Int /\ e \in 0 .. L - 1 /\ b = c * L + e
    <2>1. b \in Int
        BY <1>1, <1>2
    <2> HIDE DEF b
    <2> QED BY <1>1, <2>1, Division
<1>4. Hour(t) = c
    BY DEF Hour
<1> HIDE DEF a, b, c, e, L
<1>5. c \in 0 .. Hours - 1
    <2>1. c < 0 => c * L + e < 0
        <3>1. c < 0 => (c + 1) * L <= 0
            BY <1>1, <1>3
        <3>2. (c + 1) * L = c * L + L /\ c * L \in Int /\ (c + 1) * L \in Int
            BY <1>1, <1>3
        <3> QED BY <1>1, <1>3, <3>1, <3>2
    <2>2. c >= Hours => c * L + e >= Day
        <3>1. c >= Hours => (c - Hours) * L >= 0
            BY <1>1, <1>3
        <3>2. (c - Hours) * L = c * L - Day /\ c * L \in Int /\ (c - Hours) * L \in Int
            BY <1>1, <1>3
        <3> QED BY <1>1, <1>3, <3>1, <3>2
    <2> QED BY <1>1, <1>2, <1>3, <2>1, <2>2
<1> SUFFICES ASSUME NEW k \in Int, NEW r \in 0 .. L - 1, h <= k - c, k - c <= h + 1,
                    t - d * Day + h * L + m = (a - d) * Day + (k * L + r)
             PROVE  Hour(t - d * Day + h * L + m) # c
    <2>0. PICK k \in Int, r \in 0 .. L - 1 :
              h <= k - c /\ k - c <= h + 1 /\ c * L + e + h * L + m = k * L + r
        <3>1. CASE e + m < L
            <4>1. c + h \in Int /\ e + m \in 0 .. L - 1
                BY <1>1, <1>3, <3>1 DEF L
            <4>2. c * L + e + h * L + m = (c + h) * L + (e + m)
                BY <1>1, <1>3 DEF L
            <4>3. h <= (c + h) - c /\ (c + h) - c <= h + 1
                BY <1>1, <1>3
            <4> QED BY <4>1, <4>2, <4>3
        <3>2. CASE e + m >= L
            <4>1. c + h + 1 \in Int /\ e + m - L \in 0 .. L - 1
                BY <1>1, <1>3, <3>2 DEF L
            <4>2. c * L + e + h * L + m = (c + h + 1) * L + (e + m - L)
                BY <1>1, <1>3 DEF L
            <4>3. h <= (c + h + 1) - c /\ (c + h + 1) - c <= h + 1
                BY <1>1, <1>3
            <4> QED BY <4>1, <4>2, <4>3
        <3>3. e + m \in Int /\ L \in Int
            BY <1>1, <1>3 DEF L
        <3> QED BY <3>1, <3>2, <3>3
    <2>1. t - d * Day + h * L + m = (a - d) * Day + (k * L + r)
        <3>1. t - d * Day = (a - d) * Day + (c * L + e)
            BY <1>1, <1>2, <1>3
        <3>2. /\ t - d * Day \in Int /\ (a - d) * Day \in Int /\ c * L \in Int /\ h * L \in Int
              /\ k * L \in Int /\ e \in Int /\ m \in Int /\ r \in Int
            BY <1>1, <1>2, <1>3
        <3> HIDE DEF L
        <3> QED BY <2>0, <3>1, <3>2
    <2> QED BY <1>4, <2>0, <2>1 DEF L
<1> DEFINE x == (a - d) * Day + (k * L + r)
<1>6. CASE k < Hours
    <2>1. k * L + r \in 0 .. Day - 1
        <3>1. k \in 0 .. Hours - 1
            BY <1>1, <1>5, <1>6
        <3>2. k * L >= 0 /\ (Hours - 1 - k) * L >= 0
            BY <1>1, <3>1
        <3>3. (Hours - 1 - k) * L = Day - L - k * L /\ k * L \in Int /\ (Hours - 1 - k) * L \in Int
            BY <1>1, <3>1
        <3> QED BY <1>1, <3>2, <3>3
    <2>2. x % Day = k * L + r
        <3>1. a - d \in Int
            BY <1>2
        <3> QED BY <1>1, <2>1, <3>1, DivMod
    <2>3. (k * L + r) \div L = k
        BY <1>1, DivMod
    <2>4. Hour(x) = k
        BY <2>2, <2>3 DEF Hour, L
    <2>5. k # c
        BY <1>5
    <2> QED BY <2>4, <2>5
<1>7. CASE k >= Hours
    <2> DEFINE k1 == k - Hours
    <2>1. k1 \in 0 .. Hours - 1 /\ k1 < c
        BY <1>1, <1>5, <1>7
    <2>2. x = (a - d + 1) * Day + (k1 * L + r)
        BY <1>1, <1>2
    <2> HIDE DEF k1
    <2>3. k1 * L + r \in 0 .. Day - 1
        <3>2. k1 * L >= 0 /\ (Hours - 1 - k1) * L >= 0
            BY <1>1, <2>1
        <3>3. (Hours - 1 - k1) * L = Day - L - k1 * L /\ k1 * L \in Int /\ (Hours - 1 - k1) * L \in Int
            BY <1>1, <2>1
        <3> QED BY <1>1, <3>2, <3>3
    <2>4. x % Day = k1 * L + r
        <3>1. a - d + 1 \in Int
            BY <1>2
        <3> HIDE DEF x
        <3> QED BY <1>1, <2>2, <2>3, <3>1, DivMod
    <2>5. (k1 * L + r) \div L = k1
        <3>1. k1 \in Int
            BY <1>1, <2>1
        <3> QED BY <1>1, <3>1, DivMod
    <2>6. Hour(x) = k1
        BY <2>4, <2>5 DEF Hour, L
    <2> QED BY <1>5, <2>1, <2>6
<1> QED BY <1>1, <1>6, <1>7
================================================================================
