------------------------- MODULE SessionQueryProofs -------------------------
(***************************************************************************)
(* Theorems of SessionQuery, for any keys, events, filters, limits and     *)
(* spellings: what the pages of a scan have to do with each other and with *)
(* the rows, whatever is written between them.                             *)
(***************************************************************************)
EXTENDS SessionQuery, SessionServiceProofs, FiniteSetTheorems

(******************************** sorting **********************************)

(* R, a set of pairs, is a strict total order of S.                        *)
Orders(R, S) ==
  /\ \A x \in S : <<x, x>> \notin R
  /\ \A x, y \in S : x # y => <<x, y>> \in R \/ <<y, x>> \in R
  /\ \A x, y, z \in S : <<x, y>> \in R /\ <<y, z>> \in R => <<x, z>> \in R

IsGreatest(m, U, R) == m \in U /\ \A x \in U : x # m => <<x, m>> \in R

Sorts(q, U, R) ==
  /\ q \in [1..Cardinality(U) -> U]
  /\ \A i, j \in 1..Cardinality(U) : i < j => <<q[i], q[j]>> \in R

(* A finite set that is not empty has a greatest element.                  *)
LEMMA GreatestExists ==
  ASSUME NEW S, IsFiniteSet(S), NEW R, Orders(R, S), NEW V \in SUBSET S, V # {}
  PROVE  \E m : IsGreatest(m, V, R)
<1> DEFINE N == Cardinality(S)
           Good(U) == U # {} => \E m : IsGreatest(m, U, R)
           X == {n \in 0..N : \A U \in SUBSET S : Cardinality(U) = n => Good(U)}
<1>1. N \in Nat
  BY FS_CardinalityType
<1>2. \A U \in SUBSET S : IsFiniteSet(U) /\ Cardinality(U) \in 0..N
  <2> TAKE U \in SUBSET S
  <2>1. IsFiniteSet(U) /\ Cardinality(U) <= N
    BY FS_Subset
  <2>2. Cardinality(U) \in Nat
    BY <2>1, FS_CardinalityType
  <2> QED
    BY <1>1, <2>1, <2>2
<1>3. 0 \in X
  <2>1. \A U \in SUBSET S : Cardinality(U) = 0 => U = {}
    BY <1>2, FS_EmptySet
  <2> QED
    BY <1>1, <2>1
<1>4. ASSUME NEW n \in 0..N, n \in X, n < N PROVE n + 1 \in X
  <2>1. ASSUME NEW U \in SUBSET S, Cardinality(U) = n + 1, NEW u \in U
        PROVE  \E m : IsGreatest(m, U, R)
    <3> DEFINE W == U \ {u}
    <3>1. W \in SUBSET S /\ Cardinality(W) = n
      <4>1. Cardinality(W) = Cardinality(U) - 1
        BY <1>2, FS_RemoveElement
      <4> QED
        BY <2>1, <4>1
    <3>2. Good(W)
      BY <1>4, <3>1
    <3>3. CASE W = {}
      BY <3>3 DEF IsGreatest
    <3>4. ASSUME NEW g, IsGreatest(g, W, R) PROVE \E m : IsGreatest(m, U, R)
      <4>1. g \in S /\ u \in S /\ g # u
        BY <3>4, <2>1 DEF IsGreatest
      <4>2. CASE <<u, g>> \in R
        <5>1. IsGreatest(g, U, R)
          BY <3>4, <4>2 DEF IsGreatest
        <5> QED
          BY <5>1
      <4>3. CASE <<g, u>> \in R
        <5>1. \A x \in U : x # u => <<x, u>> \in R
          BY <3>4, <4>1, <4>3, <2>1 DEF IsGreatest, Orders
        <5> QED
          BY <5>1 DEF IsGreatest
      <4> QED
        BY <4>1, <4>2, <4>3 DEF Orders
    <3> QED
      BY <3>2, <3>3, <3>4
  <2>2. \A U \in SUBSET S : Cardinality(U) = n + 1 => Good(U)
    BY <2>1
  <2>3. n + 1 \in 0..N
    BY <1>1, <1>4
  <2> QED
    BY <2>2, <2>3
<1> HIDE DEF X
<1>5. 0..N \subseteq X
  BY <1>1, <1>3, <1>4, CountUp
<1>6. Cardinality(V) \in X
  BY <1>2, <1>5
<1> QED
  BY <1>6 DEF X

(* It can be listed in order.                                              *)
LEMMA SortedExists ==
  ASSUME NEW S, IsFiniteSet(S), NEW R, Orders(R, S)
  PROVE  \E q : Sorts(q, S, R)
<1> DEFINE N == Cardinality(S)
           X == {n \in 0..N : \A U \in SUBSET S :
                                Cardinality(U) = n => \E q : Sorts(q, U, R)}
<1>1. N \in Nat
  BY FS_CardinalityType
<1>2. \A U \in SUBSET S : IsFiniteSet(U)
  BY FS_Subset
<1>3. 0 \in X
  <2>1. ASSUME NEW U \in SUBSET S, Cardinality(U) = 0 PROVE \E q : Sorts(q, U, R)
    <3> DEFINE q == [i \in 1..0 |-> i]
    <3>1. 1..Cardinality(U) = {} /\ q \in [{} -> U]
      BY <2>1
    <3>2. Sorts(q, U, R)
      BY <3>1 DEF Sorts
    <3> QED
      BY <3>2
  <2> QED
    BY <1>1, <2>1
<1>4. ASSUME NEW n \in 0..N, n \in X, n < N PROVE n + 1 \in X
  <2>1. ASSUME NEW U \in SUBSET S, Cardinality(U) = n + 1 PROVE \E q : Sorts(q, U, R)
    <3>1. U # {}
      BY <2>1, FS_EmptySet
    <3>2. PICK m : IsGreatest(m, U, R)
      BY <3>1, GreatestExists
    <3> DEFINE W == U \ {m}
    <3>3. W \in SUBSET S /\ Cardinality(W) = n /\ m \in U
      <4>1. m \in U
        BY <3>2 DEF IsGreatest
      <4>2. Cardinality(W) = Cardinality(U) - 1
        BY <1>2, <4>1, FS_RemoveElement
      <4> QED
        BY <2>1, <4>1, <4>2
    <3>4. PICK p : Sorts(p, W, R)
      BY <1>4, <3>3
    <3> DEFINE q == [i \in 1..(n + 1) |-> IF i = n + 1 THEN m ELSE p[i]]
    <3>5. \A i \in 1..(n + 1) : i # n + 1 => i \in 1..n
      OBVIOUS
    <3>6. \A i \in 1..n : p[i] \in W
      BY <3>3, <3>4 DEF Sorts
    <3>7. q \in [1..(n + 1) -> U]
      BY <3>3, <3>5, <3>6
    <3>8. ASSUME NEW i \in 1..(n + 1), NEW j \in 1..(n + 1), i < j
          PROVE  <<q[i], q[j]>> \in R
      <4>1. i \in 1..n /\ q[i] = p[i]
        BY <3>8
      <4>2. CASE j = n + 1
        BY <3>2, <3>6, <4>1, <4>2 DEF IsGreatest
      <4>3. CASE j # n + 1
        BY <3>3, <3>4, <3>5, <3>8, <4>1, <4>3 DEF Sorts
      <4> QED
        BY <4>2, <4>3
    <3> HIDE DEF q
    <3>9. Sorts(q, U, R)
      BY <2>1, <3>7, <3>8 DEF Sorts
    <3> QED
      BY <3>9
  <2>2. n + 1 \in 0..N
    BY <1>1, <1>4
  <2> QED
    BY <2>1, <2>2
<1> HIDE DEF X
<1>5. N \in X
  <2>1. 0..N \subseteq X
    BY <1>1, <1>3, <1>4, CountUp
  <2> QED
    BY <1>1, <2>1
<1> QED
  BY <1>5 DEF X

(* Such a list has every element.                                          *)
LEMMA SortedIsOnto ==
  ASSUME NEW S, IsFiniteSet(S), NEW R, Orders(R, S), NEW q, Sorts(q, S, R)
  PROVE  \A x \in S : \E i \in 1..Cardinality(S) : q[i] = x
<1> DEFINE D == 1..Cardinality(S)
<1>1. Cardinality(S) \in Nat
  BY FS_CardinalityType
<1>2. q \in [D -> S]
  BY DEF Sorts
<1>3. ASSUME NEW i \in D, NEW j \in D, q[i] = q[j] PROVE i = j
  <2>1. ~(i < j) /\ ~(j < i)
    BY <1>2, <1>3 DEF Sorts, Orders
  <2> QED
    BY <1>1, <2>1
<1>4. q \in Injection(D, S)
  BY <1>2, <1>3 DEF Injection, IsInjective
<1>5. Cardinality(D) = Cardinality(S) /\ IsFiniteSet(D)
  BY <1>1, FS_Interval
<1>6. q \in Surjection(D, S)
  BY <1>4, <1>5, FS_Injection
<1> QED
  BY <1>6 DEF Surjection
-----------------------------------------------------------------------------
(**************************** the sort keys ********************************)

Earlier(a, b) ==
  \/ a.tenant < b.tenant
  \/ a.tenant = b.tenant /\ a.username < b.username
  \/ a.tenant = b.tenant /\ a.username = b.username /\ a.ip < b.ip
  \/ /\ a.tenant = b.tenant /\ a.username = b.username /\ a.ip = b.ip
     /\ a.loginAt < b.loginAt
  \/ /\ a.tenant = b.tenant /\ a.username = b.username /\ a.ip = b.ip
     /\ a.loginAt = b.loginAt /\ a.id < b.id

(* The three statements of the order name the same columns.                *)
LEMMA OneOrder == OrderColumns = ComparedColumns /\ KeysetColumns = ComparedColumns
BY DEF OrderColumns, ComparedColumns, KeysetColumns

(* SortsBefore compares one column after the other.                        *)
LEMMA SortsBeforeIs ==
  ASSUME NEW a, NEW b
  PROVE  SortsBefore(a, b) <=> Earlier(a, b)
<1> DEFINE At(i) == /\ a[ComparedColumns[i]] < b[ComparedColumns[i]]
                    /\ \A j \in 1..(i - 1) : a[ComparedColumns[j]] = b[ComparedColumns[j]]
<1>1. /\ DOMAIN ComparedColumns = 1..5
      /\ ComparedColumns[1] = "tenant" /\ ComparedColumns[2] = "username"
      /\ ComparedColumns[3] = "ip" /\ ComparedColumns[4] = "loginAt"
      /\ ComparedColumns[5] = "id"
  BY DEF ComparedColumns
<1>2. SortsBefore(a, b) <=> At(1) \/ At(2) \/ At(3) \/ At(4) \/ At(5)
  <2>1. \A i : i \in 1..5 <=> i = 1 \/ i = 2 \/ i = 3 \/ i = 4 \/ i = 5
    OBVIOUS
  <2>2. SortsBefore(a, b) <=> \E i \in 1..5 : At(i)
    BY <1>1 DEF SortsBefore, Lexicographic
  <2> HIDE DEF At
  <2> QED
    BY <2>1, <2>2
<1>3. /\ \A j : j \notin 1..(1 - 1)
      /\ \A j : j \in 1..(2 - 1) <=> j = 1
      /\ \A j : j \in 1..(3 - 1) <=> j = 1 \/ j = 2
      /\ \A j : j \in 1..(4 - 1) <=> j = 1 \/ j = 2 \/ j = 3
      /\ \A j : j \in 1..(5 - 1) <=> j = 1 \/ j = 2 \/ j = 3 \/ j = 4
  OBVIOUS
<1>4. At(1) <=> a.tenant < b.tenant
  BY <1>1, <1>3
<1>5. At(2) <=> a.tenant = b.tenant /\ a.username < b.username
  BY <1>1, <1>3
<1>6. At(3) <=> a.tenant = b.tenant /\ a.username = b.username /\ a.ip < b.ip
  BY <1>1, <1>3
<1>7. At(4) <=> /\ a.tenant = b.tenant /\ a.username = b.username /\ a.ip = b.ip
                /\ a.loginAt < b.loginAt
  BY <1>1, <1>3
<1>8. At(5) <=> /\ a.tenant = b.tenant /\ a.username = b.username /\ a.ip = b.ip
                /\ a.loginAt = b.loginAt /\ a.id < b.id
  BY <1>1, <1>3
<1> HIDE DEF At
<1> QED
  BY <1>2, <1>4, <1>5, <1>6, <1>7, <1>8 DEF Earlier

LEMMA SortKeysAreOrdered ==
  /\ \A a \in SortKey : ~SortsBefore(a, a)
  /\ \A a, b \in SortKey : a.id # b.id => SortsBefore(a, b) \/ SortsBefore(b, a)
  /\ \A a, b, c \in SortKey : SortsBefore(a, b) /\ SortsBefore(b, c) => SortsBefore(a, c)
<1>1. \A a \in SortKey : /\ a.tenant \in Int /\ a.username \in Int /\ a.ip \in Int
                         /\ a.loginAt \in Int /\ a.id \in Int
  BY StoreAssumption DEF SortKey
<1>2. \A a \in SortKey : ~Earlier(a, a)
  BY <1>1 DEF Earlier
<1>3. \A a, b \in SortKey : a.id # b.id => Earlier(a, b) \/ Earlier(b, a)
  BY <1>1 DEF Earlier
<1>4. \A a, b, c \in SortKey : Earlier(a, b) /\ Earlier(b, c) => Earlier(a, c)
  BY <1>1 DEF Earlier
<1> QED
  BY <1>2, <1>3, <1>4, SortsBeforeIs

(* The condition that continues after a key, for a login time that the     *)
(* database can hold.                                                      *)
LEMMA KeysetIs ==
  ASSUME NEW s, NEW after \in SortKey, Representable(after.loginAt)
  PROVE  KeysetPredicate(s, after) <=> SortsBefore(after, SortKeyFor(s))
<1>1. [after EXCEPT !.loginAt = ToNanos(@)] = after
  BY DEF ToNanos, SortKey
<1>2. KeysetPredicate(s, after) <=> Lexicographic(ComparedColumns, after, SortKeyFor(s))
  BY <1>1, OneOrder DEF KeysetPredicate
<1> QED
  BY <1>2 DEF SortsBefore
-----------------------------------------------------------------------------
(******************************* the rows **********************************)

StatesAscend(T) ==
  \A r, q \in T : r.sessionID = q.sessionID /\ r.id < q.id => r.validFrom <= q.validFrom

RowsOK(S, T) ==
  /\ TablesOK(S, T) /\ Tiled(S, T) /\ StatesAscend(T)
  /\ IsFiniteSet(S) /\ IsFiniteSet(T)
  /\ \A s \in S : Representable(s.loginAt)
  /\ \A r \in T : Blank \notin r.tags

(* The rows after a change: old ones, of which some are touched, and those *)
(* that begin at t with the tags given.                                    *)
LEMMA ChangedRows ==
  ASSUME NEW S, NEW T, StoreOK(S, T), NEW S2, NEW T2, NEW e, Accepts(S, T, S2, T2, e)
  PROVE  /\ Changes(S, T, S2, T2)
         /\ \A s \in S2 : \/ \E o \in S : o.id = s.id /\ o.key = s.key /\ o.loginAt = s.loginAt
                          \/ s.loginAt = e.at /\ \A o \in S : o.id # s.id
         /\ \A q \in T2 :
              \/ q \in T
              \/ \E o \in T : o.validTo = NULL /\ q = Closed(o, e.at)
              \/ /\ q.validFrom = e.at /\ q.validTo = NULL /\ e.type # "LOGOUT" /\ q.tags = e.tags
                 /\ \A o \in T : o.id < q.id
                 /\ \A o \in T : o.sessionID = q.sessionID => o.validFrom <= q.validFrom
         /\ IsFiniteSet(S) => IsFiniteSet(S2)
         /\ IsFiniteSet(T) => IsFiniteSet(T2)
<1>1. CASE /\ e.type = "LOGIN"
           /\ \E n, w : Starts(S, T, S2, T2, n, w) /\ n.loginAt = e.at /\ w.tags = e.tags
  <2>1. PICK n, w : Starts(S, T, S2, T2, n, w) /\ n.loginAt = e.at /\ w.tags = e.tags
    BY <1>1
  <2>2. /\ S2 = S \cup {n} /\ T2 = T \cup {w} /\ \A s \in S : s.id # n.id
        /\ w.validFrom = e.at /\ w.validTo = NULL /\ w.sessionID = n.id
        /\ \A o \in T : o.id < w.id
    BY <2>1 DEF Starts
  <2>3. \A o \in T : o.sessionID # w.sessionID
    BY <2>2 DEF StoreOK, OpenRowsAgree
  <2>4. IsFiniteSet(S) => IsFiniteSet(S2)
    BY <2>2, FS_AddElement
  <2>5. IsFiniteSet(T) => IsFiniteSet(T2)
    BY <2>2, FS_AddElement
  <2>6. Changes(S, T, S2, T2)
    BY <2>1 DEF Changes
  <2> QED
    BY <1>1, <2>1, <2>2, <2>3, <2>4, <2>5, <2>6
<1>2. CASE /\ e.type = "UPDATE"
           /\ \E s, s2, r, w :
                Replaces(S, T, S2, T2, s, s2, r, w) /\ w.validFrom = e.at /\ w.tags = e.tags
  <2>1. PICK s, s2, r, w :
          Replaces(S, T, S2, T2, s, s2, r, w) /\ w.validFrom = e.at /\ w.tags = e.tags
    BY <1>2
  <2>2. /\ S2 = (S \ {s}) \cup {s2} /\ T2 = (T \ {r}) \cup {Closed(r, e.at), w}
        /\ s \in S /\ r \in T /\ r.validTo = NULL /\ r.sessionID = w.sessionID
        /\ r.validFrom <= e.at /\ w.validTo = NULL
        /\ \A o \in T : o.id < w.id
    BY <2>1 DEF Replaces
  <2>3. s2.id = s.id /\ s2.key = s.key /\ s2.loginAt = s.loginAt
    BY <2>1 DEF Replaces, StoreOK, SessionRow
  <2>4. ASSUME NEW o \in T, o.sessionID = w.sessionID PROVE o.validFrom <= w.validFrom
    <3>1. w.validFrom \in Int /\ r.validFrom \in Int /\ o.validFrom \in Int
          /\ o.validTo \in Int \cup {NULL}
      BY <2>1, <2>2 DEF Replaces, StoreOK, StateRow
    <3>2. o # r => o.validTo # NULL /\ o.validFrom <= o.validTo /\ o.validTo <= r.validFrom
      BY <2>2, <2>4 DEF StoreOK, OpenStateIsLast
    <3> QED
      BY <2>1, <2>2, <3>1, <3>2
  <2>5. IsFiniteSet(S) => IsFiniteSet(S2)
    BY <2>2, FS_AddElement, FS_RemoveElement
  <2>6. IsFiniteSet(T) => IsFiniteSet(T2)
    <3>1. T2 = ((T \ {r}) \cup {Closed(r, e.at)}) \cup {w}
      BY <2>2
    <3> QED
      BY <3>1, FS_AddElement, FS_RemoveElement
  <2>7. Changes(S, T, S2, T2)
    BY <2>1 DEF Changes
  <2> QED
    BY <1>2, <2>1, <2>2, <2>3, <2>4, <2>5, <2>6, <2>7
<1>3. CASE /\ e.type = "LOGOUT"
           /\ \E s, s2, r : Ends(S, T, S2, T2, s, s2, r) /\ s2.logoutAt = e.at
  <2>1. PICK s, s2, r : Ends(S, T, S2, T2, s, s2, r) /\ s2.logoutAt = e.at
    BY <1>3
  <2>2. /\ S2 = (S \ {s}) \cup {s2} /\ T2 = (T \ {r}) \cup {Closed(r, e.at)}
        /\ s \in S /\ r \in T /\ r.validTo = NULL
    BY <2>1 DEF Ends
  <2>3. s2.id = s.id /\ s2.key = s.key /\ s2.loginAt = s.loginAt
    BY <2>1 DEF Ends, StoreOK, SessionRow
  <2>4. IsFiniteSet(S) => IsFiniteSet(S2)
    BY <2>2, FS_AddElement, FS_RemoveElement
  <2>5. IsFiniteSet(T) => IsFiniteSet(T2)
    BY <2>2, FS_AddElement, FS_RemoveElement
  <2>6. Changes(S, T, S2, T2)
    BY <2>1 DEF Changes
  <2> QED
    BY <2>2, <2>3, <2>4, <2>5, <2>6
<1> QED
  BY <1>1, <1>2, <1>3 DEF Accepts

LEMMA DeliveryKeepsRows ==
  ASSUME NEW S, NEW T, RowsOK(S, T), NEW e \in Events, NEW newID \in NewSessionIDs(S, e)
  PROVE  LET o == ApplyEvent(S, T, e, newID) IN
         /\ RowsOK(o.sessions, o.states)
         /\ \/ Accepts(S, T, o.sessions, o.states, e)
            \/ o.sessions = S /\ o.states = T
<1> DEFINE o == ApplyEvent(S, T, e, newID)
           S2 == o.sessions
           T2 == o.states
<1>1. Deliverable(S, T, e, newID) /\ StoreOK(S, T) /\ e.key \in Keys
  BY QueryAssumption DEF Deliverable, RowsOK, TablesOK, Events
<1>2. PICK sn \in Snapshot : LoadCurrent(S, T, e.key) = Loaded(sn)
  BY <1>1, SnapshotLoaded
<1> DEFINE m == Decide(sn, e, newID)
<1>3. /\ TablesOK(S2, T2)
      /\ m.kind \in Writes => Accepts(S, T, S2, T2, e)
      /\ m.kind \notin Writes => S2 = S /\ T2 = T
  BY <1>1, <1>2, DeliveryIs
<1>4. m.kind \in Writes /\ e.type # "LOGOUT" => Blank \notin e.tags
  BY DEF Events, EventTypes, Decide, DecideLogin, DecideUpdate, TagsAreBlank, Rejected, Writes,
         DuplicateEvent, Mutation, PrepareTransition, CurrentState
<1> HIDE DEF o, m
<1>5. ASSUME m.kind \in Writes PROVE RowsOK(S2, T2) /\ Accepts(S, T, S2, T2, e)
  <2>1. Accepts(S, T, S2, T2, e)
    BY <1>3, <1>5
  <2>2. \A t \in Times : t \in Int /\ Representable(t)
    BY QueryAssumption, ServiceAssumption DEF RepresentableTimes
  <2>3. e.at \in Int /\ Representable(e.at)
    BY <2>2 DEF Events
  <2> HIDE DEF S2, T2
  <2>4. Tiled(S2, T2) /\ IsFiniteSet(S2) /\ IsFiniteSet(T2)
    BY <1>1, <2>1, ChangedRows, ChangesTile DEF RowsOK
  <2>5. \A s \in S2 : Representable(s.loginAt)
    BY <1>1, <2>1, <2>3, ChangedRows DEF RowsOK
  <2> DEFINE Old(q) == \E p \in T : /\ p.id = q.id /\ p.sessionID = q.sessionID
                                    /\ p.validFrom = q.validFrom /\ p.tags = q.tags
             New(q) == /\ q.tags = e.tags /\ e.type # "LOGOUT"
                       /\ \A p \in T : p.id < q.id
                       /\ \A p \in T : p.sessionID = q.sessionID => p.validFrom <= q.validFrom
                       /\ q.validFrom = e.at
  <2>6. \A q \in T2 : Old(q) \/ New(q)
    <3>1. \A p \in T : LET q == Closed(p, e.at) IN
                       /\ p.id = q.id /\ p.sessionID = q.sessionID
                       /\ p.validFrom = q.validFrom /\ p.tags = q.tags
      BY <1>1 DEF Closed, StoreOK, StateRow
    <3>2. \A q \in T2 :
            \/ q \in T
            \/ \E p \in T : q = Closed(p, e.at)
            \/ New(q)
      BY <1>1, <2>1, ChangedRows
    <3> QED
      BY <3>1, <3>2
  <2>7. \A r \in T2 : Blank \notin r.tags
    BY <1>4, <1>5, <2>6 DEF RowsOK
  <2>8. StatesAscend(T2)
    <3>1. \A p \in T2 : p.id \in Int
      BY <1>3 DEF TablesOK, StoreOK, StateRow
    <3>2. ASSUME NEW r \in T2, NEW q \in T2, r.sessionID = q.sessionID, r.id < q.id
          PROVE  r.validFrom <= q.validFrom
      <4>1. CASE Old(r) /\ Old(q)
        BY <3>2, <4>1 DEF RowsOK, StatesAscend
      <4>2. CASE Old(r) /\ New(q)
        BY <3>2, <4>2
      <4>3. CASE New(r) /\ Old(q)
        BY <3>1, <3>2, <4>3
      <4>4. CASE New(r) /\ New(q)
        BY <2>3, <4>4
      <4> QED
        BY <2>6, <4>1, <4>2, <4>3, <4>4
    <3> QED
      BY <3>2 DEF StatesAscend
  <2> QED
    BY <1>3, <2>1, <2>4, <2>5, <2>7, <2>8 DEF RowsOK
<1> QED
  BY <1>3, <1>5 DEF o
-----------------------------------------------------------------------------
(*************************** resolved filters ******************************)

LEMMA TextsInOrder ==
  ASSUME NEW S \in SUBSET Int, IsFiniteSet(S)
  PROVE  LET q == InOrder(S, TextBefore) IN
         /\ q \in [1..Cardinality(S) -> S]
         /\ \A x \in S : \E i \in 1..Cardinality(S) : q[i] = x
<1> DEFINE R == {p \in S \X S : p[1] < p[2]}
           Ascending(q) == \A i, j \in DOMAIN q : i < j => TextBefore(q[i], q[j])
           N == Cardinality(S)
           q0 == InOrder(S, TextBefore)
<1>1. \A x, y \in S : <<x, y>> \in R <=> x < y
  OBVIOUS
<1> HIDE DEF R
<1>2. Orders(R, S)
  BY <1>1 DEF Orders
<1>3. PICK q \in [1..N -> S] : Sorts(q, S, R)
  BY <1>2, SortedExists DEF Sorts
<1>4. \A p \in [1..N -> S] : Ascending(p) <=> Sorts(p, S, R)
  BY <1>1 DEF Sorts, TextBefore
<1>5. q0 = CHOOSE p \in [1..N -> S] : Ascending(p)
  BY DEF InOrder
<1> HIDE DEF Ascending, q0
<1>6. q0 \in [1..N -> S] /\ Ascending(q0)
  BY <1>3, <1>4, <1>5
<1>7. Sorts(q0, S, R)
  BY <1>4, <1>6
<1>8. \A x \in S : \E i \in 1..N : q0[i] = x
  BY <1>2, <1>7, SortedIsOnto
<1> QED
  BY <1>6, <1>8 DEF q0

Kinds ==
  {"string", "ip", "uuid", "string_list", "ip_list", "uuid_list", "timestamp", "interval"}

LEMMA TextType ==
  ASSUME NEW kind \in TextKinds, NEW raw \in Scalar
  PROVE  NormalizeText(kind, raw) \in Int \cup {Invalid}
<1>1. raw.form = "text" => raw.text \in Texts
  BY DEF Scalar
<1> QED
  BY <1>1, PreparationAssumption DEF NormalizeText

LEMMA ListType ==
  ASSUME NEW kind \in TextKinds, NEW raw, IsJSON(raw), NormalizeList(kind, raw) # Invalid
  PROVE  NormalizeList(kind, raw) \in Seq(Int)
<1> DEFINE values == {NormalizeText(kind, raw.items[i]) : i \in DOMAIN raw.items}
<1>1. raw.form = "list" /\ Invalid \notin values
      /\ NormalizeList(kind, raw) = InOrder(values, TextBefore)
  BY DEF NormalizeList
<1>2. raw.items \in Seq(Scalar)
  BY <1>1 DEF IsJSON, Scalar
<1>3. \A i \in DOMAIN raw.items : raw.items[i] \in Scalar
  BY <1>2
<1>4. values \in SUBSET Int
  BY <1>1, <1>3, TextType
<1>5. IsFiniteSet(values)
  <2>1. DOMAIN raw.items = 1..Len(raw.items) /\ Len(raw.items) \in Nat
    BY <1>2
  <2>2. IsFiniteSet(DOMAIN raw.items)
    BY <2>1, FS_Interval
  <2> DEFINE f == [i \in DOMAIN raw.items |-> NormalizeText(kind, raw.items[i])]
  <2>3. f \in Surjection(DOMAIN raw.items, values)
    BY DEF Surjection
  <2> HIDE DEF f, values
  <2> QED
    BY <2>2, <2>3, FS_Surjection
<1>6. Cardinality(values) \in Nat
  BY <1>5, FS_CardinalityType
<1> HIDE DEF values
<1>7. InOrder(values, TextBefore) \in [1..Cardinality(values) -> values]
  BY <1>4, <1>5, TextsInOrder
<1>8. \A n \in Nat : \A q \in [1..n -> values] : q \in Seq(Int)
  <2>1. \A n \in Nat : \A q \in [1..n -> Int] : q \in Seq(Int)
    OBVIOUS
  <2> QED
    BY <1>4, <2>1
<1> QED
  BY <1>1, <1>6, <1>7, <1>8

LEMMA TimestampType ==
  ASSUME NEW raw \in Scalar
  PROVE  NormalizeTimestamp(raw) \in Int \cup {Invalid}
<1> QED
  BY TextType DEF NormalizeTimestamp, TextKinds

LEMMA IntervalType ==
  ASSUME NEW raw, IsJSON(raw), NormalizeInterval(raw) # Invalid
  PROVE  \E from, to \in Int \cup {Absent} :
           NormalizeInterval(raw) = <<from, to>> /\ ValidInterval(from, to)
<1> DEFINE from == Bound(raw.fields, "from")
           to == Bound(raw.fields, "to")
<1>1. NormalizeInterval(raw) = <<from, to>> /\ ValidInterval(from, to) /\ raw.form = "object"
  BY DEF NormalizeInterval
<1>2. \A name \in DOMAIN raw.fields : raw.fields[name] \in Scalar
  BY <1>1 DEF IsJSON, Scalar
<1>3. from \in Int \cup {Absent, Invalid} /\ to \in Int \cup {Absent, Invalid}
  BY <1>2, TimestampType DEF Bound
<1> HIDE DEF from, to
<1>4. from # Invalid /\ to # Invalid
  BY <1>1 DEF ValidInterval
<1> QED
  BY <1>1, <1>3, <1>4

LEMMA ValueType ==
  ASSUME NEW kind \in Kinds, NEW raw, IsJSON(raw), NormalizeValue(kind, raw) # Invalid
  PROVE  NormalizeValue(kind, raw) \in Seq(Int \cup {Absent})
<1>1. \A k \in TextKinds : NormalizeText(k, raw) \in Int \cup {Invalid}
  <2>1. CASE raw \in Scalar
    BY <2>1, TextType
  <2>2. CASE raw.form \in {"list", "object"}
    BY <2>2 DEF NormalizeText
  <2> QED
    BY <2>1, <2>2 DEF IsJSON
<1>2. \A v \in Int \cup {Invalid} : One(v) # Invalid => One(v) \in Seq(Int \cup {Absent})
  <2>1. \A v \in Int : <<v>> \in Seq(Int \cup {Absent})
    OBVIOUS
  <2> QED
    BY <2>1 DEF One
<1>3. CASE kind \in {"string", "ip", "uuid"}
  BY <1>1, <1>2, <1>3 DEF NormalizeValue, TextKinds
<1>4. CASE kind = "timestamp"
  <2>1. NormalizeTimestamp(raw) \in Int \cup {Invalid}
    BY <1>1 DEF NormalizeTimestamp, TextKinds
  <2> QED
    BY <1>2, <1>4, <2>1 DEF NormalizeValue
<1>5. CASE kind = "interval"
  <2>1. \A from, to \in Int \cup {Absent} : <<from, to>> \in Seq(Int \cup {Absent})
    OBVIOUS
  <2> QED
    BY <1>5, <2>1, IntervalType DEF NormalizeValue
<1>6. \A k \in TextKinds :
        NormalizeList(k, raw) # Invalid => NormalizeList(k, raw) \in Seq(Int \cup {Absent})
  BY ListType
<1>7. CASE kind = "string_list"
  BY <1>6, <1>7 DEF NormalizeValue, TextKinds
<1>8. CASE kind = "ip_list"
  BY <1>6, <1>8 DEF NormalizeValue, TextKinds
<1>9. CASE kind = "uuid_list"
  BY <1>6, <1>9 DEF NormalizeValue, TextKinds
<1> QED
  BY <1>3, <1>4, <1>5, <1>7, <1>8, <1>9 DEF Kinds

(* The only operators on activity are "at" and "overlaps", and no other    *)
(* field has them.                                                         *)
LEMMA RegistryIs ==
  ASSUME NEW field \in DOMAIN Registry, NEW operator \in DOMAIN Registry[field]
  PROVE  /\ Registry[field][operator] \in Kinds
         /\ field = "activity" <=> operator \in {"at", "overlaps"}
         /\ operator = "at" => Registry[field][operator] = "timestamp"
         /\ operator = "overlaps" => Registry[field][operator] = "interval"
<1>1. field \in {"sessionId", "tenantId", "username", "ip", "tags", "activity", "loginTime"}
  BY DEF Registry
<1>2. CASE field = "sessionId"
  BY <1>2 DEF Registry, Kinds
<1>3. CASE field = "tenantId"
  BY <1>3 DEF Registry, Kinds
<1>4. CASE field = "username"
  BY <1>4 DEF Registry, Kinds
<1>5. CASE field = "ip"
  BY <1>5 DEF Registry, Kinds
<1>6. CASE field = "tags"
  BY <1>6 DEF Registry, Kinds
<1>7. CASE field = "activity"
  BY <1>7 DEF Registry, Kinds
<1>8. CASE field = "loginTime"
  BY <1>8 DEF Registry, Kinds
<1> QED
  BY <1>1, <1>2, <1>3, <1>4, <1>5, <1>6, <1>7, <1>8

LEMMA FilterType ==
  ASSUME NEW f, IsJSON(f.value), ResolveFilter(f) # Invalid
  PROVE  LET g == ResolveFilter(f) IN
         /\ g \in ResolvedFilter
         /\ g.scope = ScopeOf(g.field)
         /\ g.field = "activity" <=> g.operator \in {"at", "overlaps"}
         /\ g.operator = "at" => \E at \in Int : g.value = <<at>>
         /\ g.operator = "overlaps" =>
              \E from, to \in Int \cup {Absent} : g.value = <<from, to>> /\ ValidInterval(from, to)
<1> DEFINE kind == Registry[f.field][f.operator]
           value == NormalizeValue(kind, f.value)
           g == ResolveFilter(f)
<1>1. f.field \in DOMAIN Registry /\ f.operator \in DOMAIN Registry[f.field]
  BY DEF ResolveFilter
<1>2. /\ value # Invalid
      /\ g = [field |-> f.field, operator |-> f.operator, scope |-> ScopeOf(f.field),
              value |-> value]
  BY <1>1 DEF ResolveFilter
<1>3. /\ kind \in Kinds
      /\ f.field = "activity" <=> f.operator \in {"at", "overlaps"}
      /\ f.operator = "at" => kind = "timestamp"
      /\ f.operator = "overlaps" => kind = "interval"
  BY <1>1, RegistryIs
<1> HIDE DEF kind
<1>4. value \in Seq(Int \cup {Absent})
  BY <1>2, <1>3, ValueType
<1>5. f.operator = "at" => \E at \in Int : value = <<at>>
  <2> SUFFICES ASSUME f.operator = "at" PROVE \E at \in Int : value = <<at>>
    OBVIOUS
  <2>1. value = One(NormalizeTimestamp(f.value))
    BY <1>3 DEF NormalizeValue
  <2>2. NormalizeTimestamp(f.value) # Invalid /\ value = <<NormalizeTimestamp(f.value)>>
    BY <1>2, <2>1 DEF One
  <2>3. f.value.form = "text"
    BY <2>2 DEF NormalizeTimestamp, NormalizeText
  <2>4. f.value \in Scalar
    BY <2>3 DEF IsJSON
  <2> QED
    BY <2>2, <2>4, TimestampType
<1>6. f.operator = "overlaps" =>
        \E from, to \in Int \cup {Absent} : value = <<from, to>> /\ ValidInterval(from, to)
  BY <1>2, <1>3, IntervalType DEF NormalizeValue
<1>7. ScopeOf(f.field) \in {"session", "state"}
  BY DEF ScopeOf
<1> HIDE DEF value
<1>8. g \in ResolvedFilter
  BY <1>1, <1>2, <1>4, <1>7 DEF ResolvedFilter
<1> QED
  BY <1>2, <1>3, <1>5, <1>6, <1>8
-----------------------------------------------------------------------------
(****************************** fingerprints *******************************)

IsRequest(filters) ==
  /\ filters \in Seq(Seqs!ToSet(filters))
  /\ \A i \in DOMAIN filters : IsJSON(filters[i].value)

IsResolved(g) ==
  /\ g \in ResolvedFilter
  /\ g.scope = ScopeOf(g.field)
  /\ g.field = "activity" <=> g.operator \in {"at", "overlaps"}
  /\ g.operator = "at" => \E at \in Int : g.value = <<at>>
  /\ g.operator = "overlaps" =>
       \E from, to \in Int \cup {Absent} : g.value = <<from, to>> /\ ValidInterval(from, to)

LEMMA ResolveType ==
  ASSUME NEW filters, IsRequest(filters), Resolve(filters) # Invalid
  PROVE  LET F == Resolve(filters) IN
         /\ F \in Seq(ResolvedFilter)
         /\ Len(filters) \in Nat
         /\ F = [i \in 1..Len(filters) |-> ResolveFilter(filters[i])]
         /\ \A i \in 1..Len(filters) : F[i] # Invalid /\ IsResolved(F[i])
<1> DEFINE F == [i \in DOMAIN filters |-> ResolveFilter(filters[i])]
<1>1. Resolve(filters) = F /\ Invalid \notin Seqs!ToSet(F)
  BY DEF Resolve
<1>2. DOMAIN filters = 1..Len(filters) /\ Len(filters) \in Nat
  BY DEF IsRequest
<1>3. \A i \in DOMAIN filters : F[i] # Invalid
  BY <1>1 DEF Seqs!ToSet
<1>4. \A i \in DOMAIN filters : IsJSON(filters[i].value)
  BY DEF IsRequest
<1>5. ASSUME NEW i \in DOMAIN filters PROVE IsResolved(F[i])
  <2>1. ResolveFilter(filters[i]) # Invalid /\ IsJSON(filters[i].value)
    BY <1>3, <1>4
  <2>2. IsResolved(ResolveFilter(filters[i]))
    BY <2>1, FilterType DEF IsResolved
  <2> QED
    BY <2>2
<1>6. F \in Seq(ResolvedFilter)
  <2>1. \A i \in DOMAIN filters : F[i] \in ResolvedFilter
    BY <1>5 DEF IsResolved
  <2>2. F \in [1..Len(filters) -> ResolvedFilter]
    BY <1>2, <2>1
  <2> HIDE DEF F
  <2> QED
    BY <1>2, <2>2
<1> QED
  BY <1>1, <1>2, <1>3, <1>5, <1>6

Printed(g) == [field |-> g.field, operator |-> g.operator, value |-> g.value]

(* Filters with the same fingerprint are the same filters.                 *)
LEMMA SameFingerprint ==
  ASSUME NEW F, NEW G, Fingerprint(F) = Fingerprint(G),
         \A i \in DOMAIN F : IsResolved(F[i]), \A i \in DOMAIN G : IsResolved(G[i])
  PROVE  Seqs!ToSet(F) = Seqs!ToSet(G)
<1> DEFINE Parts(H) == {Printed(H[i]) : i \in DOMAIN H}
<1>1. \A H : DOMAIN Fingerprint(H) = Parts(H)
  BY DEF Fingerprint, Printed, Seqs!ToBag, Seqs!Range
<1>2. Parts(F) = Parts(G)
  BY <1>1
<1>3. ASSUME NEW f, NEW g, IsResolved(f), IsResolved(g), Printed(f) = Printed(g)
      PROVE  f = g
  <2>1. f.field = g.field /\ f.operator = g.operator /\ f.value = g.value
    BY <1>3 DEF Printed
  <2>2. f.scope = g.scope
    BY <1>3, <2>1 DEF IsResolved
  <2> QED
    BY <1>3, <2>1, <2>2 DEF IsResolved, ResolvedFilter
<1>4. \A i \in DOMAIN F : \E j \in DOMAIN G : F[i] = G[j]
  BY <1>2, <1>3
<1>5. \A j \in DOMAIN G : \E i \in DOMAIN F : F[i] = G[j]
  BY <1>2, <1>3
<1> QED
  BY <1>4, <1>5 DEF Seqs!ToSet

LEMMA SameMatches ==
  ASSUME NEW F, NEW G, Seqs!ToSet(F) = Seqs!ToSet(G), NEW s, NEW T, NEW at
  PROVE  Matches(s, T, F, at) <=> Matches(s, T, G, at)
<1>1. \A scope : OfScope(F, scope) = OfScope(G, scope)
  BY DEF OfScope
<1> QED
  BY <1>1 DEF Matches

(* The order of the filters does not matter.                               *)
LEMMA ReversedFingerprint ==
  ASSUME NEW filters, IsRequest(filters), Resolve(filters) # Invalid,
         Invalid \notin Seq(ResolvedFilter)
  PROVE  LET back == Resolve(Seqs!Reverse(filters)) IN
         /\ back # Invalid /\ back \in Seq(ResolvedFilter)
         /\ Fingerprint(back) = Fingerprint(Resolve(filters))
<1> DEFINE n == Len(filters)
           F == Resolve(filters)
           reversed == Seqs!Reverse(filters)
           G == [i \in 1..n |-> F[(n - i) + 1]]
           back == Resolve(reversed)
<1>1. /\ F \in Seq(ResolvedFilter) /\ n \in Nat
      /\ F = [i \in 1..n |-> ResolveFilter(filters[i])]
      /\ \A i \in 1..n : F[i] # Invalid /\ IsResolved(F[i])
  BY ResolveType
<1>2. \A i \in 1..n : (n - i) + 1 \in 1..n /\ (n - ((n - i) + 1)) + 1 = i
  BY <1>1
<1>3. G = [i \in DOMAIN reversed |-> ResolveFilter(reversed[i])]
  BY <1>1, <1>2 DEF Seqs!Reverse
<1>4. G \in Seq(ResolvedFilter) /\ \A i \in 1..n : G[i] # Invalid
  <2>1. G \in [1..n -> ResolvedFilter] /\ \A i \in 1..n : G[i] # Invalid
    BY <1>1, <1>2 DEF IsResolved
  <2> HIDE DEF G
  <2> QED
    BY <1>1, <2>1
<1>5. back = G /\ G # Invalid
  <2>1. Invalid \notin Seqs!ToSet(G)
    BY <1>4 DEF Seqs!ToSet
  <2> QED
    BY <1>3, <1>4, <2>1 DEF Resolve
<1> DEFINE PF == [i \in DOMAIN F |-> Printed(F[i])]
           PG == [i \in DOMAIN G |-> Printed(G[i])]
           InF(x) == {i \in DOMAIN PF : PF[i] = x}
           InG(x) == {i \in DOMAIN PG : PG[i] = x}
<1>6. Fingerprint(F) = [x \in {PF[i] : i \in DOMAIN PF} |-> Cardinality(InF(x))]
  BY DEF Fingerprint, Printed, Seqs!ToBag, Seqs!Range, Seqs!Cardinality, Cardinality
<1>7. Fingerprint(G) = [x \in {PG[i] : i \in DOMAIN PG} |-> Cardinality(InG(x))]
  BY DEF Fingerprint, Printed, Seqs!ToBag, Seqs!Range, Seqs!Cardinality, Cardinality
<1>8. /\ DOMAIN PF = 1..n /\ DOMAIN PG = 1..n
      /\ \A i \in 1..n : PG[i] = PF[(n - i) + 1]
  BY <1>1, <1>2
<1> HIDE DEF PF, PG, F, G
<1>9. {PF[i] : i \in DOMAIN PF} = {PG[i] : i \in DOMAIN PG}
  <2>1. \A i \in 1..n : \E j \in 1..n : PF[i] = PG[j]
    <3> TAKE i \in 1..n
    <3>1. PG[(n - i) + 1] = PF[i]
      BY <1>2, <1>8
    <3> QED
      BY <1>2, <3>1
  <2>2. \A j \in 1..n : \E i \in 1..n : PF[i] = PG[j]
    BY <1>2, <1>8
  <2>3. /\ {PF[i] : i \in DOMAIN PF} = {PF[i] : i \in 1..n}
        /\ {PG[i] : i \in DOMAIN PG} = {PG[i] : i \in 1..n}
    BY <1>8
  <2>4. {PF[i] : i \in 1..n} = {PG[i] : i \in 1..n}
    <3>1. \A x : x \in {PF[i] : i \in 1..n} <=> \E i \in 1..n : PF[i] = x
      OBVIOUS
    <3>2. \A x : x \in {PG[i] : i \in 1..n} <=> \E i \in 1..n : PG[i] = x
      OBVIOUS
    <3>3. \A x : x \in {PF[i] : i \in 1..n} <=> x \in {PG[i] : i \in 1..n}
      BY <2>1, <2>2, <3>1, <3>2
    <3> QED
      BY <3>3
  <2> QED
    BY <2>3, <2>4
<1>10. ASSUME NEW x PROVE Cardinality(InG(x)) = Cardinality(InF(x))
  <2> DEFINE f == [i \in InF(x) |-> (n - i) + 1]
             A == InF(x)
             B == InG(x)
  <2>1. IsFiniteSet(A)
    <3>1. A \in SUBSET (1..n) /\ IsFiniteSet(1..n)
      BY <1>1, <1>8, FS_Interval
    <3> QED
      BY <3>1, FS_Subset
  <2>2. f \in [A -> B]
    BY <1>2, <1>8
  <2>3. \A i, j \in A : f[i] = f[j] => i = j
    BY <1>1, <1>8
  <2>4. \A j \in B : \E i \in A : f[i] = j
    <3> TAKE j \in B
    <3>1. j \in 1..n /\ (n - j) + 1 \in A
      BY <1>2, <1>8
    <3>2. f[(n - j) + 1] = j
      BY <1>2, <3>1
    <3> QED
      BY <3>1, <3>2
  <2> HIDE DEF f, A, B
  <2>5. ExistsBijection(A, B)
    BY <2>2, <2>3, <2>4 DEF ExistsBijection, Bijection, Injection, IsInjective, Surjection
  <2>6. Cardinality(A) = Cardinality(B)
    BY <2>1, <2>5, FS_Bijection
  <2> QED
    BY <2>6 DEF A, B
<1> HIDE DEF InF, InG
<1>11. Fingerprint(F) = Fingerprint(G)
  BY <1>6, <1>7, <1>9, <1>10
<1> QED
  BY <1>4, <1>5, <1>11 DEF F
-----------------------------------------------------------------------------
(******************************* a page ************************************)

LEMMA KeyType ==
  ASSUME NEW s \in SessionRow
  PROVE  SortKeyFor(s) \in SortKey
<1>1. s.key \in [tenant : Int, username : Int, ip : Int]
  BY QueryAssumption DEF SessionRow
<1>2. s.loginAt \in Int /\ s.id \in SessionIDs
  BY DEF SessionRow
<1> QED
  BY <1>1, <1>2 DEF SortKeyFor, SortKey

LEMMA SessionsInOrder ==
  ASSUME NEW S, NEW T, RowsOK(S, T), NEW F \in SUBSET S
  PROVE  LET q == InOrder(F, RowsBefore)
             n == Cardinality(F)
         IN
         /\ n \in Nat /\ q \in [1..n -> F]
         /\ \A i, j \in 1..n : i < j => SortsBefore(SortKeyFor(q[i]), SortKeyFor(q[j]))
         /\ \A s \in F : \E i \in 1..n : q[i] = s
<1> DEFINE R == {p \in F \X F : RowsBefore(p[1], p[2])}
           Ascending(q) == \A i, j \in DOMAIN q : i < j => RowsBefore(q[i], q[j])
           N == Cardinality(F)
           q0 == InOrder(F, RowsBefore)
<1>1. \A x, y \in F : <<x, y>> \in R <=> SortsBefore(SortKeyFor(x), SortKeyFor(y))
  BY OneOrder DEF RowsBefore, SortsBefore
<1> HIDE DEF R
<1>2. /\ IsFiniteSet(F) /\ F \subseteq SessionRow
      /\ \A x, y \in F : x # y => SortKeyFor(x).id # SortKeyFor(y).id
  <2>1. IsFiniteSet(F)
    BY FS_Subset DEF RowsOK
  <2>2. S \subseteq SessionRow /\ \A x, y \in S : x.id = y.id => x = y
    BY DEF RowsOK, TablesOK, StoreOK, RowsAreUnique
  <2>3. \A x : SortKeyFor(x).id = x.id
    BY DEF SortKeyFor
  <2> QED
    BY <2>1, <2>2, <2>3
<1>3. Orders(R, F)
  <2>1. \A x \in F : SortKeyFor(x) \in SortKey
    BY <1>2, KeyType
  <2>2. \A x \in F : <<x, x>> \notin R
    BY <1>1, <2>1, SortKeysAreOrdered
  <2>3. \A x, y \in F : x # y => <<x, y>> \in R \/ <<y, x>> \in R
    BY <1>1, <1>2, <2>1, SortKeysAreOrdered
  <2>4. ASSUME NEW x \in F, NEW y \in F, NEW z \in F, <<x, y>> \in R, <<y, z>> \in R
        PROVE  <<x, z>> \in R
    BY <1>1, <2>1, <2>4, SortKeysAreOrdered
  <2> QED
    BY <2>2, <2>3, <2>4 DEF Orders
<1>4. PICK q \in [1..N -> F] : Sorts(q, F, R)
  BY <1>2, <1>3, SortedExists DEF Sorts
<1>5. \A p \in [1..N -> F] : Ascending(p) <=> Sorts(p, F, R)
  BY <1>1, OneOrder DEF Sorts, RowsBefore, SortsBefore
<1>6. q0 = CHOOSE p \in [1..N -> F] : Ascending(p)
  BY DEF InOrder
<1> HIDE DEF Ascending, q0
<1>7. q0 \in [1..N -> F] /\ Ascending(q0)
  BY <1>4, <1>5, <1>6
<1>8. Sorts(q0, F, R)
  BY <1>5, <1>7
<1>9. \A x \in F : \E i \in 1..N : q0[i] = x
  BY <1>2, <1>3, <1>8, SortedIsOnto
<1>10. \A i, j \in 1..N : i < j => SortsBefore(SortKeyFor(q0[i]), SortKeyFor(q0[j]))
  BY <1>1, <1>7, <1>8 DEF Sorts
<1>11. N \in Nat
  BY <1>2, FS_CardinalityType
<1> QED
  BY <1>7, <1>9, <1>10, <1>11 DEF q0

(* A prepared query, as Prepare returns it.                                *)
IsPrepared(prepared) ==
  /\ prepared.limit \in 1..MaxLimit
  /\ prepared.evaluatedAt \in 0..MaxClock
  /\ Fingerprint(prepared.filters) \in Fingerprints
  /\ prepared.after # Absent => prepared.after \in SortKey /\ Representable(prepared.after.loginAt)

(* What the query still has to return.                                     *)
Rest(prepared) ==
  {s \in sessions :
     /\ Matches(s, states, prepared.filters, prepared.evaluatedAt)
     /\ prepared.after # Absent => SortsBefore(prepared.after, SortKeyFor(s))}

LastKey(keys) == keys[Len(keys)]

(* The cursor of a page that ends with the key after.                      *)
PayloadFor(prepared, after) ==
  [storage |-> Storage, fingerprint |-> Fingerprint(prepared.filters),
   evaluatedAt |-> prepared.evaluatedAt, after |-> after]

(* The keys of a page are the least of the rest, and its cursor goes on    *)
(* after them if there are more.                                           *)
IsPage(keys, cur, prepared) ==
  LET rest == Rest(prepared) IN
  /\ keys \in Seq(SortKey)
  /\ \A i, j \in DOMAIN keys : i < j => SortsBefore(keys[i], keys[j])
  /\ \A i \in DOMAIN keys : \E s \in rest : keys[i] = SortKeyFor(s)
  /\ \A s \in rest :
       \/ \E i \in DOMAIN keys : keys[i] = SortKeyFor(s)
       \/ cur # Absent /\ SortsBefore(LastKey(keys), SortKeyFor(s))
  /\ cur # Absent =>
       /\ keys # <<>>
       /\ cur = [version |-> CursorVersion, payload |-> PayloadFor(prepared, LastKey(keys))]

LEMMA CursorsAreComplete ==
  ASSUME NEW c \in CursorPayload, Representable(c.after.loginAt)
  PROVE  /\ CursorIsComplete(c)
         /\ EncodeCursor(c) = [version |-> CursorVersion, payload |-> c]
         /\ EncodeCursor(c) \in Cursors
         /\ EncodeCursor(c) \notin {Absent, Invalid}
<1>1. Storage # Absent /\ Absent \notin Fingerprints /\ Absent \notin Cursors
      /\ Invalid \notin Cursors /\ ~Representable(ZeroTime) /\ MaxClock \in Nat
      /\ \A at \in 0..MaxClock : Representable(at)
  BY QueryAssumption
<1>2. Absent \notin Int
  BY PreparationAssumption
<1>3. /\ c.storage = Storage /\ c.fingerprint \in Fingerprints /\ c.evaluatedAt \in 0..MaxClock
      /\ c.after \in SortKey
  BY DEF CursorPayload
<1>4. \A part \in DOMAIN c.after : c.after[part] # Absent
  <2>1. DOMAIN c.after = {"tenant", "username", "ip", "loginAt", "id"}
    BY <1>3 DEF SortKey
  <2>2. /\ c.after["tenant"] \in Int /\ c.after["username"] \in Int /\ c.after["ip"] \in Int
        /\ c.after["loginAt"] \in Int /\ c.after["id"] \in Int
    BY <1>3, StoreAssumption DEF SortKey
  <2> QED
    BY <1>2, <2>1, <2>2
<1>5. CursorIsComplete(c)
  BY <1>1, <1>2, <1>3, <1>4 DEF CursorIsComplete
<1>6. EncodeCursor(c) = [version |-> CursorVersion, payload |-> c]
  BY <1>5 DEF EncodeCursor
<1>7. EncodeCursor(c) \in Cursors
  BY <1>6 DEF Cursors
<1> QED
  BY <1>1, <1>5, <1>6, <1>7

LEMMA PageIs ==
  ASSUME RowsOK(sessions, states), NEW prepared, IsPrepared(prepared)
  PROVE  LET result == RunQuery(prepared) IN
         IsPage(SortKeys(result.sessions), result.cursor, prepared)
<1> DEFINE rest == Rest(prepared)
           sorted == InOrder(rest, RowsBefore)
           n == Cardinality(rest)
           limit == prepared.limit
           m == IF n > limit THEN limit ELSE n
           page == QueryIDs(prepared)
           result == RunQuery(prepared)
           keys == SortKeys(result.sessions)
<1>1. rest \in SUBSET sessions /\ sessions \subseteq SessionRow
  BY DEF Rest, RowsOK, TablesOK, StoreOK
<1>2. rest = {s \in sessions :
                /\ Matches(s, states, prepared.filters, prepared.evaluatedAt)
                /\ prepared.after # Absent => KeysetPredicate(s, prepared.after)}
  <2>1. ASSUME NEW s \in sessions, prepared.after # Absent
        PROVE  KeysetPredicate(s, prepared.after) <=> SortsBefore(prepared.after, SortKeyFor(s))
    BY <1>1, <2>1, KeyType, KeysetIs DEF IsPrepared
  <2> QED
    BY <2>1 DEF Rest
<1>3. /\ n \in Nat /\ sorted \in [1..n -> rest]
      /\ \A i, j \in 1..n : i < j => SortsBefore(SortKeyFor(sorted[i]), SortKeyFor(sorted[j]))
      /\ \A s \in rest : \E i \in 1..n : sorted[i] = s
  BY <1>1, SessionsInOrder
<1>4. limit \in Nat /\ limit >= 1 /\ m \in Nat /\ m <= n /\ (n > limit => m = limit)
  BY <1>3, PreparationAssumption DEF IsPrepared
<1>5. page = [rows |-> IF Len(sorted) > limit THEN SubSeq(sorted, 1, limit) ELSE sorted,
              more |-> Len(sorted) > limit]
  BY <1>2 DEF QueryIDs
<1> HIDE DEF rest, sorted, n, page, m
<1>6. Len(sorted) = n /\ sorted \in Seq(rest)
  BY <1>3
<1>7. /\ page.more <=> n > limit
      /\ DOMAIN page.rows = 1..m
      /\ \A i \in 1..m : page.rows[i] = sorted[i]
  <2>1. (page.more <=> n > limit)
        /\ page.rows = IF n > limit THEN SubSeq(sorted, 1, limit) ELSE sorted
    BY <1>5, <1>6
  <2>2. CASE n > limit
    <3>1. page.rows = SubSeq(sorted, 1, limit) /\ m = limit
      BY <1>4, <2>1, <2>2
    <3>2. SubSeq(sorted, 1, limit) = [i \in 1..limit |-> sorted[i]]
      BY <1>3, <1>4, <1>6, <2>2
    <3> QED
      BY <2>1, <3>1, <3>2
  <2>3. CASE ~(n > limit)
    BY <1>3, <1>6, <2>1, <2>3 DEF m
  <2> QED
    BY <2>1, <2>2, <2>3
<1>8. \A s : SortKeyFor(LoadSession(s)) = SortKeyFor(s)
  BY DEF SortKeyFor, LoadSession
<1> DEFINE values == [i \in 1..m |-> LoadSession(page.rows[i])]
<1>9. /\ result.sessions = values
      /\ result.cursor = IF n > limit THEN NextCursor(prepared, values) ELSE Absent
  BY <1>7 DEF RunQuery, page
<1> HIDE DEF result
<1>10. keys = [i \in 1..m |-> SortKeyFor(sorted[i])]
  BY <1>7, <1>8, <1>9 DEF SortKeys
<1>11. \A i \in 1..m : sorted[i] \in rest /\ SortKeyFor(sorted[i]) \in SortKey
  BY <1>1, <1>3, <1>4, KeyType
<1>12. keys \in [1..m -> SortKey]
  BY <1>10, <1>11
<1> HIDE DEF keys
<1>13. keys \in Seq(SortKey) /\ Len(keys) = m /\ DOMAIN keys = 1..m
  BY <1>4, <1>12
<1>14. \A i, j \in DOMAIN keys : i < j => SortsBefore(keys[i], keys[j])
  BY <1>3, <1>4, <1>10, <1>13
<1>15. \A i \in DOMAIN keys : \E s \in rest : keys[i] = SortKeyFor(s)
  BY <1>10, <1>11, <1>13
<1>16. CASE n <= limit
  <2>1. m = n /\ result.cursor = Absent
    BY <1>3, <1>4, <1>9, <1>16 DEF m
  <2>2. \A s \in rest : \E i \in DOMAIN keys : keys[i] = SortKeyFor(s)
    BY <1>3, <1>10, <1>13, <2>1
  <2> QED
    BY <1>13, <1>14, <1>15, <2>1, <2>2 DEF IsPage, rest, keys, result
<1>17. CASE n > limit
  <2>1. m = limit /\ m \in DOMAIN keys /\ keys # <<>>
    BY <1>4, <1>13, <1>17
  <2>2. Seqs!Last(values) = LoadSession(page.rows[m]) /\ LastKey(keys) = SortKeyFor(sorted[m])
    <3>1. Len(values) = m
      BY <1>4
    <3>2. Seqs!Last(values) = values[m]
      BY <3>1 DEF Seqs!Last
    <3> QED
      BY <1>10, <1>13, <2>1, <3>2 DEF LastKey
  <2>3. SortKeyFor(Seqs!Last(values)) = LastKey(keys)
    BY <1>7, <1>8, <1>13, <2>1, <2>2
  <2> DEFINE c == PayloadFor(prepared, LastKey(keys))
  <2>4. result.cursor = EncodeCursor(c)
    BY <1>9, <1>17, <2>3 DEF NextCursor, PayloadFor
  <2>5. LastKey(keys) \in SortKey /\ Representable(LastKey(keys).loginAt)
    <3>1. sorted[m] \in rest /\ SortKeyFor(sorted[m]) \in SortKey
      BY <1>11, <1>13, <2>1
    <3>2. Representable(sorted[m].loginAt)
      BY <1>1, <3>1 DEF RowsOK
    <3> QED
      BY <2>2, <3>1, <3>2 DEF SortKeyFor
  <2>6. c \in CursorPayload /\ c.after = LastKey(keys)
    BY <2>5 DEF CursorPayload, PayloadFor, IsPrepared
  <2> HIDE DEF c
  <2>7. result.cursor = [version |-> CursorVersion, payload |-> c] /\ result.cursor # Absent
    BY <2>4, <2>5, <2>6, CursorsAreComplete
  <2>8. ASSUME NEW s \in rest
        PROVE  \/ \E i \in DOMAIN keys : keys[i] = SortKeyFor(s)
               \/ SortsBefore(LastKey(keys), SortKeyFor(s))
    <3>1. PICK i \in 1..n : sorted[i] = s
      BY <1>3
    <3>2. CASE i <= m
      BY <1>3, <1>4, <1>10, <1>13, <3>1, <3>2
    <3>3. CASE i > m
      BY <1>3, <1>4, <1>13, <2>1, <2>2, <3>1, <3>3
    <3> QED
      BY <1>3, <1>4, <3>2, <3>3
  <2> QED
    BY <1>13, <1>14, <1>15, <2>1, <2>7, <2>8 DEF IsPage, rest, keys, result, c
<1> QED
  BY <1>3, <1>4, <1>16, <1>17
-----------------------------------------------------------------------------
(****************************** preparing **********************************)

LEMMA RequestsAreQueries ==
  ASSUME NEW filters \in Queries
  PROVE  IsRequest(filters)
<1> QED
  BY QueryAssumption DEF IsRequest

(* What a request that is accepted is prepared to, without a cursor ...    *)
LEMMA FirstPreparedIs ==
  ASSUME NEW filters, NEW limit \in Int, NEW p, p = Prepared(filters, limit, Absent),
         p # Invalid
  PROVE  /\ Resolve(filters) # Invalid /\ p.filters = Resolve(filters)
         /\ p.limit \in 1..MaxLimit /\ p.evaluatedAt = clock /\ p.after = Absent
<1>1. Limit(limit) \in 1..MaxLimit /\ Resolve(filters) # Invalid
  BY DEF Prepared, Prepare
<1>2. p = [filters |-> Resolve(filters), limit |-> Limit(limit),
           evaluatedAt |-> clock, after |-> Absent]
  BY <1>1 DEF Prepared, Prepare
<1> QED
  BY <1>1, <1>2

(* ... and with one.                                                       *)
LEMMA NextPreparedIs ==
  ASSUME NEW filters, NEW limit \in Int, NEW from, from # Absent,
         NEW p, p = Prepared(filters, limit, from), p # Invalid
  PROVE  /\ Resolve(filters) # Invalid /\ p.filters = Resolve(filters)
         /\ p.limit \in 1..MaxLimit
         /\ from.payload.fingerprint = Fingerprint(Resolve(filters))
         /\ p.evaluatedAt = from.payload.evaluatedAt /\ p.after = from.payload.after
<1> DEFINE resolved == Resolve(filters)
           decoded == DecodeCursor(from, Storage, Fingerprint(resolved))
<1>1. Limit(limit) \in 1..MaxLimit /\ resolved # Invalid
  BY DEF Prepared, Prepare
<1>2. /\ decoded # Invalid
      /\ p = [filters |-> resolved, limit |-> Limit(limit),
              evaluatedAt |-> decoded.evaluatedAt, after |-> decoded.after]
  BY <1>1 DEF Prepared, Prepare
<1>3. decoded = from.payload /\ from.payload.fingerprint = Fingerprint(resolved)
  BY <1>2 DEF DecodeCursor
<1> HIDE DEF decoded
<1>4. /\ p.filters = resolved /\ p.limit = Limit(limit)
      /\ p.evaluatedAt = decoded.evaluatedAt /\ p.after = decoded.after
  BY <1>2
<1> QED
  BY <1>1, <1>3, <1>4

LEMMA FingerprintsAre ==
  ASSUME NEW filters \in Queries, Resolve(filters) # Invalid
  PROVE  Fingerprint(Resolve(filters)) \in Fingerprints
<1> QED
  BY DEF Fingerprints

(* The filters of two queries with the same fingerprint are matched by the *)
(* same sessions.                                                          *)
LEMMA SameQuery ==
  ASSUME NEW f \in Queries, NEW g \in Queries,
         Resolve(f) # Invalid, Resolve(g) # Invalid,
         Fingerprint(Resolve(f)) = Fingerprint(Resolve(g))
  PROVE  Seqs!ToSet(Resolve(f)) = Seqs!ToSet(Resolve(g))
<1> DEFINE F == Resolve(f)
           G == Resolve(g)
<1>1. /\ F = [i \in 1..Len(f) |-> ResolveFilter(f[i])]
      /\ \A i \in 1..Len(f) : IsResolved(F[i])
  BY RequestsAreQueries, ResolveType
<1>2. /\ G = [i \in 1..Len(g) |-> ResolveFilter(g[i])]
      /\ \A i \in 1..Len(g) : IsResolved(G[i])
  BY RequestsAreQueries, ResolveType
<1>3. DOMAIN F = 1..Len(f) /\ DOMAIN G = 1..Len(g)
  BY <1>1, <1>2
<1> HIDE DEF F, G
<1>4. Fingerprint(F) = Fingerprint(G)
  BY DEF F, G
<1>5. Seqs!ToSet(F) = Seqs!ToSet(G)
  BY <1>1, <1>2, <1>3, <1>4, SameFingerprint
<1> QED
  BY <1>5 DEF F, G
-----------------------------------------------------------------------------
(******************************** a scan ***********************************)

Ascends(keys) == \A i, j \in DOMAIN keys : i < j => SortsBefore(keys[i], keys[j])

IDs(keys) == {keys[i].id : i \in DOMAIN keys}

(* A page that begins after the last key of those before it continues them.*)
LEMMA PagesJoin ==
  ASSUME NEW old \in Seq(SortKey), Ascends(old), NEW keys, NEW cur, NEW prepared,
         IsPage(keys, cur, prepared),
         old # <<>> => prepared.after # Absent /\ prepared.after = LastKey(old)
  PROVE  LET all == old \o keys IN
         /\ all \in Seq(SortKey) /\ Ascends(all)
         /\ IDs(all) = IDs(old) \cup IDs(keys)
         /\ cur # Absent => all # <<>> /\ LastKey(all) = LastKey(keys)
<1> DEFINE all == old \o keys
           m == Len(old)
           n == Len(keys)
<1>1. /\ keys \in Seq(SortKey) /\ Ascends(keys) /\ (cur # Absent => keys # <<>>)
      /\ \A i \in DOMAIN keys : \E s \in Rest(prepared) : keys[i] = SortKeyFor(s)
  BY DEF IsPage, Ascends
<1>2. /\ m \in Nat /\ n \in Nat /\ all \in Seq(SortKey) /\ Len(all) = m + n
      /\ DOMAIN old = 1..m /\ DOMAIN keys = 1..n /\ DOMAIN all = 1..(m + n)
      /\ \A i \in 1..(m + n) : all[i] = IF i <= m THEN old[i] ELSE keys[i - m]
  BY <1>1
<1>3. \A i \in 1..m : old[i] \in SortKey
  BY <1>2
<1>4. \A i \in 1..n : keys[i] \in SortKey
  BY <1>1, <1>2
<1> HIDE DEF all, m, n
<1>5. ASSUME NEW i \in 1..m, NEW j \in 1..n PROVE SortsBefore(old[i], keys[j])
  <2>1. old # <<>>
    BY <1>2, <1>5
  <2>2. SortsBefore(LastKey(old), keys[j])
    BY <1>1, <1>2, <2>1 DEF Rest
  <2>3. LastKey(old) = old[m] /\ m \in 1..m
    BY <1>2, <1>5 DEF LastKey, m
  <2>4. i = m \/ SortsBefore(old[i], old[m])
    BY <1>2, <2>3 DEF Ascends
  <2> QED
    BY <1>3, <1>4, <2>2, <2>3, <2>4, SortKeysAreOrdered
<1>6. Ascends(all)
  <2> SUFFICES ASSUME NEW i \in 1..(m + n), NEW j \in 1..(m + n), i < j
               PROVE  SortsBefore(all[i], all[j])
    BY <1>2 DEF Ascends
  <2>1. CASE j <= m
    BY <1>2, <2>1 DEF Ascends
  <2>2. CASE i <= m /\ j > m
    <3>1. i \in 1..m /\ j - m \in 1..n /\ all[i] = old[i] /\ all[j] = keys[j - m]
      BY <1>2, <2>2
    <3> QED
      BY <1>5, <3>1
  <2>3. CASE i > m
    <3>1. i - m \in 1..n /\ j - m \in 1..n /\ i - m < j - m
          /\ all[i] = keys[i - m] /\ all[j] = keys[j - m]
      BY <1>2, <2>3
    <3> QED
      BY <1>1, <1>2, <3>1 DEF Ascends
  <2> QED
    BY <1>2, <2>1, <2>2, <2>3
<1>7. IDs(all) = IDs(old) \cup IDs(keys)
  <2>1. \A i \in 1..m : all[i] = old[i] /\ i \in 1..(m + n)
    BY <1>2
  <2>2. \A j \in 1..n : all[m + j] = keys[j] /\ m + j \in 1..(m + n)
    BY <1>2
  <2>3. \A i \in 1..(m + n) : \/ i \in 1..m /\ all[i] = old[i]
                              \/ i - m \in 1..n /\ all[i] = keys[i - m]
    BY <1>2
  <2>4. \A id \in IDs(old) \cup IDs(keys) : id \in IDs(all)
    <3>1. \A i \in 1..m : all[i].id = old[i].id /\ i \in DOMAIN all
      BY <1>2, <2>1
    <3>2. \A j \in 1..n : all[m + j].id = keys[j].id /\ m + j \in DOMAIN all
      BY <1>2, <2>2
    <3>3. \A id \in IDs(old) : id \in IDs(all)
      BY <1>2, <3>1 DEF IDs
    <3>4. \A id \in IDs(keys) : id \in IDs(all)
      BY <1>2, <3>2 DEF IDs
    <3> QED
      BY <3>3, <3>4
  <2>5. \A id \in IDs(all) : id \in IDs(old) \cup IDs(keys)
    <3> SUFFICES ASSUME NEW i \in 1..(m + n)
                 PROVE  all[i].id \in IDs(old) \cup IDs(keys)
      BY <1>2 DEF IDs
    <3>1. CASE i \in 1..m /\ all[i] = old[i]
      <4>1. all[i].id \in IDs(old)
        BY <1>2, <3>1 DEF IDs
      <4> QED
        BY <4>1
    <3>2. CASE i - m \in 1..n /\ all[i] = keys[i - m]
      <4>1. all[i].id \in IDs(keys)
        BY <1>2, <3>2 DEF IDs
      <4> QED
        BY <4>1
    <3> QED
      BY <2>3, <3>1, <3>2
  <2> QED
    BY <2>4, <2>5
<1>8. cur # Absent => all # <<>> /\ LastKey(all) = LastKey(keys)
  <2> SUFFICES ASSUME cur # Absent PROVE all # <<>> /\ LastKey(all) = LastKey(keys)
    OBVIOUS
  <2>1. n >= 1
    BY <1>1, <1>2 DEF n
  <2>2. all[m + n] = keys[n] /\ m + n >= 1
    BY <1>2, <2>1
  <2> QED
    BY <1>2, <2>2 DEF LastKey, n
<1> QED
  BY <1>2, <1>6, <1>7, <1>8 DEF all
-----------------------------------------------------------------------------
(*************************** the invariant *********************************)

(* While the client holds a cursor it names the query, the time of the     *)
(* first page and the last key returned; and what has matched ever since   *)
(* has been returned, or still matches and comes after that key.           *)
CursorContinues ==
  cursor # Absent =>
    /\ query \in Queries /\ Resolve(query) # Invalid
    /\ cursor = [version |-> CursorVersion,
                 payload |-> [storage |-> Storage, fingerprint |-> Fingerprint(Resolve(query)),
                              evaluatedAt |-> started, after |-> LastKey(returned)]]
    /\ returned # <<>> /\ Representable(LastKey(returned).loginAt)
    /\ \A id \in steady :
         \/ id \in ReturnedIDs
         \/ \E s \in sessions : /\ s.id = id
                                /\ Matches(s, states, Resolve(query), started)
                                /\ SortsBefore(LastKey(returned), SortKeyFor(s))

ScanOK ==
  /\ clock \in 0..MaxClock /\ started \in 0..MaxClock
  /\ returned \in Seq(SortKey) /\ PagesAscend
  /\ CursorContinues
  /\ cursor = Absent /\ query # NULL => steady \subseteq ReturnedIDs

IInv == RowsOK(sessions, states) /\ ScanOK

(* A page has been read, and is appended to those before it.               *)
Advances(prepared, old) ==
  \E result \in {RunQuery(prepared)} :
    returned' = old \o SortKeys(result.sessions) /\ cursor' = result.cursor

LEMMA PageKeepsScan ==
  ASSUME IInv, NEW prepared, IsPrepared(prepared), NEW old \in Seq(SortKey), Ascends(old),
         old # <<>> => prepared.after # Absent /\ prepared.after = LastKey(old),
         Advances(prepared, old), UNCHANGED <<sessions, states>>,
         query' \in Queries, Resolve(query') # Invalid,
         Seqs!ToSet(prepared.filters) = Seqs!ToSet(Resolve(query')),
         Fingerprint(prepared.filters) = Fingerprint(Resolve(query')),
         prepared.evaluatedAt = started',
         \A id \in steady' :
           \/ id \in IDs(old)
           \/ \E s \in Rest(prepared) : s.id = id
  PROVE  /\ returned' \in Seq(SortKey) /\ PagesAscend'
         /\ CursorContinues'
         /\ cursor' = Absent => steady' \subseteq ReturnedIDs'
         /\ ReturnedIDs' \subseteq IDs(old) \cup {s.id : s \in Rest(prepared)}
<1> DEFINE result == RunQuery(prepared)
           keys == SortKeys(result.sessions)
           new == old \o keys
<1>1. returned' = new /\ cursor' = result.cursor
  BY DEF Advances
<1>2. RowsOK(sessions, states) /\ sessions \subseteq SessionRow
  BY DEF IInv, RowsOK, TablesOK, StoreOK
<1>3. IsPage(keys, cursor', prepared)
  BY <1>1, <1>2, PageIs
<1> HIDE DEF keys
<1>4. /\ new \in Seq(SortKey) /\ Ascends(new)
      /\ IDs(new) = IDs(old) \cup IDs(keys)
      /\ cursor' # Absent => new # <<>> /\ LastKey(new) = LastKey(keys)
  BY <1>3, PagesJoin
<1> HIDE DEF new
<1>5. ReturnedIDs' = IDs(new) /\ PagesAscend'
  BY <1>1, <1>4 DEF ReturnedIDs, IDs, PagesAscend, Ascends
<1>6. IDs(keys) \subseteq {s.id : s \in Rest(prepared)}
  BY <1>3 DEF IsPage, IDs, SortKeyFor
<1>7. ASSUME NEW id \in steady'
      PROVE  \/ id \in IDs(new)
             \/ /\ cursor' # Absent
                /\ \E s \in Rest(prepared) : s.id = id /\ SortsBefore(LastKey(keys), SortKeyFor(s))
  <2>1. CASE id \in IDs(old)
    BY <1>4, <2>1
  <2>2. ASSUME NEW s \in Rest(prepared), s.id = id
        PROVE  \/ id \in IDs(new)
               \/ cursor' # Absent /\ SortsBefore(LastKey(keys), SortKeyFor(s))
    <3>1. \/ \E i \in DOMAIN keys : keys[i] = SortKeyFor(s)
          \/ cursor' # Absent /\ SortsBefore(LastKey(keys), SortKeyFor(s))
      BY <1>3 DEF IsPage
    <3>2. ASSUME NEW i \in DOMAIN keys, keys[i] = SortKeyFor(s) PROVE id \in IDs(keys)
      BY <2>2, <3>2 DEF IDs, SortKeyFor
    <3> QED
      BY <1>4, <3>1, <3>2
  <2> QED
    BY <2>1, <2>2
<1>8. cursor' = Absent => steady' \subseteq ReturnedIDs'
  BY <1>5, <1>7
<1>9. CursorContinues'
  <2> SUFFICES ASSUME cursor' # Absent PROVE CursorContinues'
    BY DEF CursorContinues
  <2>1. /\ cursor' = [version |-> CursorVersion, payload |-> PayloadFor(prepared, LastKey(keys))]
        /\ keys # <<>> /\ LastKey(new) = LastKey(keys) /\ new # <<>>
    BY <1>3, <1>4 DEF IsPage
  <2>2. PayloadFor(prepared, LastKey(keys)) =
          [storage |-> Storage, fingerprint |-> Fingerprint(Resolve(query')),
           evaluatedAt |-> started', after |-> LastKey(returned')]
    BY <1>1, <2>1 DEF PayloadFor
  <2>3. Representable(LastKey(keys).loginAt)
    <3>1. Len(keys) \in DOMAIN keys
      BY <1>3, <2>1 DEF IsPage
    <3>2. PICK s \in Rest(prepared) : LastKey(keys) = SortKeyFor(s)
      BY <1>3, <3>1 DEF IsPage, LastKey
    <3>3. Representable(s.loginAt)
      BY <1>2 DEF RowsOK, Rest
    <3> QED
      BY <3>2, <3>3 DEF SortKeyFor
  <2>4. ASSUME NEW s \in Rest(prepared)
        PROVE  s \in sessions' /\ Matches(s, states', Resolve(query'), started')
    <3>1. s \in sessions /\ Matches(s, states, prepared.filters, prepared.evaluatedAt)
      BY DEF Rest
    <3>2. Matches(s, states, Resolve(query'), prepared.evaluatedAt)
      BY <3>1, SameMatches
    <3> QED
      BY <3>1, <3>2
  <2>5. \A id \in steady' :
          \/ id \in ReturnedIDs'
          \/ \E s \in sessions' : /\ s.id = id
                                  /\ Matches(s, states', Resolve(query'), started')
                                  /\ SortsBefore(LastKey(returned'), SortKeyFor(s))
    BY <1>1, <1>5, <1>7, <2>1, <2>4
  <2>6. cursor' = [version |-> CursorVersion,
                   payload |-> [storage |-> Storage, fingerprint |-> Fingerprint(Resolve(query')),
                                evaluatedAt |-> started', after |-> LastKey(returned')]]
    BY <2>1, <2>2
  <2>7. returned' # <<>> /\ Representable(LastKey(returned').loginAt)
    BY <1>1, <2>1, <2>3
  <2> QED
    BY <2>5, <2>6, <2>7 DEF CursorContinues
<1> QED
  BY <1>1, <1>4, <1>5, <1>6, <1>8, <1>9

LEMMA InitOK ==
  ASSUME Init
  PROVE  IInv
<1>1. TablesOK({}, {})
  BY DEF TablesOK, StoreOK, RowsAreUnique, OpenRowsAgree, OpenStateIsLast, MaximaExist,
         SessionsDisjoint, SpansOK
<1>2. RowsOK(sessions, states)
  BY <1>1, FS_EmptySet DEF Init, RowsOK, Tiled, StatesAscend
<1>3. ScanOK
  <2>1. /\ clock = 0 /\ started = 0 /\ cursor = Absent /\ returned = <<>> /\ query = NULL
    BY DEF Init, NoScan
  <2>2. MaxClock \in Nat
    BY QueryAssumption
  <2>3. PagesAscend /\ CursorContinues
    BY <2>1 DEF PagesAscend, CursorContinues
  <2> QED
    BY <2>1, <2>2, <2>3 DEF ScanOK
<1> QED
  BY <1>2, <1>3 DEF IInv

LEMMA FirstPageKeeps ==
  ASSUME IInv, NEW filters \in Queries, NEW limit \in Limits, FirstPage(filters, limit)
  PROVE  /\ IInv'
         /\ matched' = Matching(Resolve(filters), clock) /\ steady' = matched'
         /\ ReturnedIDs' \subseteq matched'
<1>1. PICK p : /\ p = Prepared(filters, limit, Absent) /\ p # Invalid
               /\ Advances(p, <<>>)
               /\ matched' = Matching(p.filters, clock) /\ steady' = matched'
  <2>1. PICK p \in {Prepared(filters, limit, Absent)} \ {Invalid} :
          \E result \in {RunQuery(p)} :
            /\ returned' = SortKeys(result.sessions)
            /\ cursor' = result.cursor
            /\ matched' = Matching(p.filters, clock)
            /\ steady' = matched'
    BY DEF FirstPage
  <2>2. \A keys : keys \in Seq(SortKey) => <<>> \o keys = keys
    OBVIOUS
  <2>3. RowsOK(sessions, states) /\ IsPrepared(p)
    <3>1. limit \in Int
      BY QueryAssumption
    <3>2. /\ Resolve(filters) # Invalid /\ p.filters = Resolve(filters)
          /\ p.limit \in 1..MaxLimit /\ p.evaluatedAt = clock /\ p.after = Absent
      BY <2>1, <3>1, FirstPreparedIs
    <3>3. Fingerprint(p.filters) \in Fingerprints
      BY <3>2, FingerprintsAre
    <3> QED
      BY <3>2, <3>3 DEF IInv, ScanOK, IsPrepared
  <2>4. SortKeys(RunQuery(p).sessions) \in Seq(SortKey)
    BY <2>3, PageIs DEF IsPage
  <2>5. Advances(p, <<>>)
    BY <2>1, <2>2, <2>4 DEF Advances
  <2> QED
    BY <2>1, <2>5
<1>2. limit \in Int
  BY QueryAssumption
<1>3. /\ Resolve(filters) # Invalid /\ p.filters = Resolve(filters)
      /\ p.limit \in 1..MaxLimit /\ p.evaluatedAt = clock /\ p.after = Absent
  BY <1>1, <1>2, FirstPreparedIs
<1>4. IsPrepared(p)
  BY <1>3, FingerprintsAre DEF IInv, ScanOK, IsPrepared
<1>5. /\ query' = filters /\ started' = clock /\ UNCHANGED <<sessions, states, clock>>
  BY DEF FirstPage
<1>6. steady' = {s.id : s \in Rest(p)}
  BY <1>1, <1>3 DEF Matching, MatchingIn, Rest
<1>7. <<>> \in Seq(SortKey) /\ Ascends(<<>>)
  BY DEF Ascends
<1>8. /\ returned' \in Seq(SortKey) /\ PagesAscend' /\ CursorContinues'
      /\ cursor' = Absent => steady' \subseteq ReturnedIDs'
      /\ ReturnedIDs' \subseteq IDs(<<>>) \cup {s.id : s \in Rest(p)}
  BY <1>1, <1>3, <1>4, <1>5, <1>6, <1>7, PageKeepsScan
<1>9. IDs(<<>>) = {}
  BY DEF IDs
<1>10. IInv'
  BY <1>5, <1>8 DEF IInv, ScanOK
<1> QED
  BY <1>1, <1>3, <1>6, <1>8, <1>9, <1>10

LEMMA NextPageKeeps ==
  ASSUME IInv, NEW filters \in Queries, NEW limit \in Limits, NextPage(filters, limit)
  PROVE  /\ IInv'
         /\ ReturnedIDs' \subseteq ReturnedIDs \cup Matching(Resolve(query), started)
<1>1. PICK p : p = Prepared(filters, limit, cursor) /\ p # Invalid /\ Advances(p, returned)
  BY DEF NextPage, Advances
<1>2. limit \in Int
  BY QueryAssumption
<1>3. /\ cursor # Absent
      /\ UNCHANGED <<sessions, states, clock, query, started, steady, matched, lateEvent>>
  BY DEF NextPage
<1>4. /\ Resolve(filters) # Invalid /\ p.filters = Resolve(filters) /\ p.limit \in 1..MaxLimit
      /\ cursor.payload.fingerprint = Fingerprint(Resolve(filters))
      /\ p.evaluatedAt = cursor.payload.evaluatedAt /\ p.after = cursor.payload.after
  BY <1>1, <1>2, <1>3, NextPreparedIs
<1>5. /\ query \in Queries /\ Resolve(query) # Invalid
      /\ Fingerprint(Resolve(query)) = Fingerprint(p.filters)
      /\ p.evaluatedAt = started /\ p.after = LastKey(returned)
      /\ returned # <<>> /\ Representable(LastKey(returned).loginAt)
  BY <1>3, <1>4 DEF IInv, ScanOK, CursorContinues
<1>6. Seqs!ToSet(p.filters) = Seqs!ToSet(Resolve(query))
  BY <1>4, <1>5, SameQuery
<1>7. LastKey(returned) \in SortKey /\ LastKey(returned) # Absent
  <2>1. LastKey(returned) \in SortKey
    BY <1>5 DEF IInv, ScanOK, LastKey
  <2>2. [storage |-> Storage, fingerprint |-> Fingerprint(Resolve(query)),
         evaluatedAt |-> started, after |-> LastKey(returned)] = cursor.payload
    BY <1>3 DEF IInv, ScanOK, CursorContinues
  <2>3. Absent \notin SortKey
    BY QueryAssumption
  <2> QED
    BY <2>1, <2>3
<1>8. IsPrepared(p)
  BY <1>4, <1>5, <1>7, FingerprintsAre DEF IInv, ScanOK, IsPrepared
<1>9. ASSUME NEW id \in steady, id \notin IDs(returned)
      PROVE  \E s \in Rest(p) : s.id = id
  <2>1. PICK s \in sessions : /\ s.id = id /\ Matches(s, states, Resolve(query), started)
                              /\ SortsBefore(LastKey(returned), SortKeyFor(s))
    BY <1>3, <1>9 DEF IInv, ScanOK, CursorContinues, ReturnedIDs, IDs
  <2>2. Matches(s, states, p.filters, p.evaluatedAt)
    BY <1>5, <1>6, <2>1, SameMatches
  <2> QED
    BY <1>5, <2>1, <2>2 DEF Rest
<1>10. returned \in Seq(SortKey) /\ Ascends(returned)
  BY DEF IInv, ScanOK, PagesAscend, Ascends
<1>11. \A id \in steady' : id \in IDs(returned) \/ \E s \in Rest(p) : s.id = id
  BY <1>3, <1>9
<1>12. query' \in Queries /\ Resolve(query') # Invalid /\ p.evaluatedAt = started'
       /\ Seqs!ToSet(p.filters) = Seqs!ToSet(Resolve(query'))
       /\ Fingerprint(p.filters) = Fingerprint(Resolve(query'))
  BY <1>3, <1>5, <1>6
<1>13. UNCHANGED <<sessions, states>>
       /\ (returned # <<>> => p.after # Absent /\ p.after = LastKey(returned))
  BY <1>3, <1>5, <1>7
<1>14. /\ returned' \in Seq(SortKey) /\ PagesAscend' /\ CursorContinues'
       /\ cursor' = Absent => steady' \subseteq ReturnedIDs'
       /\ ReturnedIDs' \subseteq IDs(returned) \cup {s.id : s \in Rest(p)}
  BY <1>1, <1>8, <1>10, <1>11, <1>12, <1>13, PageKeepsScan
<1>15. {s.id : s \in Rest(p)} \subseteq Matching(Resolve(query), started)
  <2>1. \A s \in Rest(p) : s \in sessions /\ Matches(s, states, Resolve(query), started)
    BY <1>5, <1>6, SameMatches DEF Rest
  <2> QED
    BY <2>1 DEF Matching, MatchingIn
<1>16. IInv'
  BY <1>3, <1>14 DEF IInv, ScanOK
<1> QED
  BY <1>14, <1>15, <1>16 DEF ReturnedIDs, IDs

(* The tables after an event: sessions keep their sort keys.               *)
LEMMA AppliedTables ==
  ASSUME RowsOK(sessions, states), NEW e \in Events, Apply(e)
  PROVE  /\ RowsOK(sessions', states')
         /\ \/ Accepts(sessions, states, sessions', states', e)
            \/ UNCHANGED <<sessions, states>>
         /\ \A s \in sessions, q \in sessions' : s.id = q.id => SortKeyFor(s) = SortKeyFor(q)
<1>1. PICK newID \in NewSessionIDs(sessions, e) :
        LET o == ApplyEvent(sessions, states, e, newID) IN
        sessions' = o.sessions /\ states' = o.states
  BY DEF Apply
<1>2. /\ RowsOK(sessions', states')
      /\ \/ Accepts(sessions, states, sessions', states', e)
         \/ UNCHANGED <<sessions, states>>
  BY <1>1, DeliveryKeepsRows
<1>3. StoreOK(sessions, states) /\ \A r, s \in sessions : r.id = s.id => r = s
  BY DEF RowsOK, TablesOK, StoreOK, RowsAreUnique
<1>4. ASSUME NEW s \in sessions, NEW q \in sessions', s.id = q.id
      PROVE  SortKeyFor(s) = SortKeyFor(q)
  <2>1. CASE UNCHANGED <<sessions, states>>
    BY <1>3, <1>4, <2>1
  <2>2. CASE Accepts(sessions, states, sessions', states', e)
    <3>1. PICK o \in sessions : o.id = q.id /\ o.key = q.key /\ o.loginAt = q.loginAt
      BY <1>3, <1>4, <2>2, ChangedRows
    <3>2. o = s
      BY <1>3, <1>4, <3>1
    <3> QED
      BY <1>4, <3>1, <3>2 DEF SortKeyFor
  <2> QED
    BY <1>2, <2>1, <2>2
<1> QED
  BY <1>2, <1>4

LEMMA ApplyKeeps ==
  ASSUME IInv, NEW e \in Events, Apply(e)
  PROVE  IInv'
<1>1. /\ RowsOK(sessions', states')
      /\ \A s \in sessions, q \in sessions' : s.id = q.id => SortKeyFor(s) = SortKeyFor(q)
  BY AppliedTables DEF IInv
<1>2. /\ UNCHANGED <<clock, query, cursor, started, returned, matched>>
      /\ cursor = Absent => steady' = steady
      /\ cursor # Absent =>
           steady' = steady \cap MatchingIn(sessions', states', Resolve(query), started)
  BY DEF Apply
<1>3. ReturnedIDs' = ReturnedIDs /\ PagesAscend' /\ steady' \subseteq steady
  BY <1>2 DEF ReturnedIDs, PagesAscend, IInv, ScanOK
<1>4. ASSUME cursor # Absent, NEW id \in steady', id \notin ReturnedIDs
      PROVE  \E s \in sessions' : /\ s.id = id
                                  /\ Matches(s, states', Resolve(query), started)
                                  /\ SortsBefore(LastKey(returned), SortKeyFor(s))
  <2>1. PICK s \in sessions : s.id = id /\ SortsBefore(LastKey(returned), SortKeyFor(s))
    BY <1>3, <1>4 DEF IInv, ScanOK, CursorContinues
  <2>2. PICK q \in sessions' : q.id = id /\ Matches(q, states', Resolve(query), started)
    BY <1>2, <1>4 DEF MatchingIn
  <2>3. SortKeyFor(s) = SortKeyFor(q)
    BY <1>1, <2>1, <2>2
  <2> QED
    BY <2>1, <2>2, <2>3
<1>5. CursorContinues'
  <2> SUFFICES ASSUME cursor # Absent PROVE CursorContinues'
    BY <1>2 DEF CursorContinues
  <2>1. \A id \in steady' :
          \/ id \in ReturnedIDs'
          \/ \E s \in sessions' : /\ s.id = id
                                  /\ Matches(s, states', Resolve(query'), started')
                                  /\ SortsBefore(LastKey(returned'), SortKeyFor(s))
    BY <1>2, <1>3, <1>4
  <2>2. /\ query' \in Queries /\ Resolve(query') # Invalid
        /\ cursor' = [version |-> CursorVersion,
                 payload |-> [storage |-> Storage, fingerprint |-> Fingerprint(Resolve(query')),
                              evaluatedAt |-> started', after |-> LastKey(returned')]]
        /\ returned' # <<>> /\ Representable(LastKey(returned').loginAt)
    BY <1>2 DEF IInv, ScanOK, CursorContinues
  <2> QED
    BY <2>1, <2>2 DEF CursorContinues
<1>6. ScanOK'
  BY <1>2, <1>3, <1>5 DEF IInv, ScanOK
<1> QED
  BY <1>1, <1>6 DEF IInv

LEMMA EndScanKeeps ==
  ASSUME IInv, EndScan
  PROVE  IInv'
<1>1. /\ cursor' = Absent /\ query' = NULL /\ started' = 0 /\ returned' = <<>>
      /\ UNCHANGED <<sessions, states, clock>>
  BY DEF EndScan
<1>2. MaxClock \in Nat
  BY QueryAssumption
<1>3. PagesAscend' /\ CursorContinues'
  BY <1>1 DEF PagesAscend, CursorContinues
<1> QED
  BY <1>1, <1>2, <1>3 DEF IInv, ScanOK

LEMMA StutterKeeps ==
  ASSUME IInv, UNCHANGED <<sessions, states, scan>>, clock' \in 0..MaxClock
  PROVE  IInv'
<1>1. UNCHANGED <<sessions, states, query, cursor, started, returned, steady>>
  BY DEF scan
<1>2. PagesAscend' /\ CursorContinues' /\ ReturnedIDs' = ReturnedIDs
  BY <1>1 DEF IInv, ScanOK, PagesAscend, CursorContinues, ReturnedIDs
<1> QED
  BY <1>1, <1>2 DEF IInv, ScanOK

LEMMA NextKeeps ==
  ASSUME IInv, [Next]_vars
  PROVE  IInv'
<1>1. ASSUME NEW e \in Events, Apply(e) PROVE IInv'
  BY <1>1, ApplyKeeps
<1>2. ASSUME NEW filters \in Queries, NEW limit \in Limits, FirstPage(filters, limit)
      PROVE  IInv'
  BY <1>2, FirstPageKeeps
<1>3. ASSUME NEW filters \in Queries, NEW limit \in Limits, NextPage(filters, limit)
      PROVE  IInv'
  BY <1>3, NextPageKeeps
<1>4. CASE EndScan
  BY <1>4, EndScanKeeps
<1>5. CASE Tick
  <2>1. clock' \in 0..MaxClock /\ UNCHANGED <<sessions, states, scan>>
    BY <1>5, QueryAssumption DEF Tick, IInv, ScanOK
  <2> QED
    BY <2>1, StutterKeeps
<1>6. CASE UNCHANGED vars
  <2>1. clock' \in 0..MaxClock /\ UNCHANGED <<sessions, states, scan>>
    BY <1>6 DEF vars, scan, IInv, ScanOK
  <2> QED
    BY <2>1, StutterKeeps
<1> QED
  BY <1>1, <1>2, <1>3, <1>4, <1>5, <1>6 DEF Next

(* Whatever is written between the pages, the cursor a client holds is     *)
(* enough to go on: it names the query by its fingerprint, the time of the *)
(* first page and the last key returned, and nothing that has matched ever *)
(* since is left before that key.                                          *)
THEOREM ScanSafety == Spec => []IInv
<1>1. Init => IInv
  BY InitOK
<1>2. IInv /\ [Next]_vars => IInv'
  BY NextKeeps
<1> QED
  BY <1>1, <1>2, PTL DEF Spec
-----------------------------------------------------------------------------
(****************************** the histories ******************************)

(* Sorted by validity and row id, as the query does, states are sorted by  *)
(* row id, the order in which they tile their session.                     *)
LEMMA StatesInOrder ==
  ASSUME NEW S, NEW T, RowsOK(S, T), NEW sid
  PROVE  LET R == StatesOf(T, sid)
             q == InOrder(R, StateBefore)
             n == Cardinality(R)
         IN
         /\ n \in Nat /\ q \in [1..n -> R]
         /\ \A i, j \in 1..n : i < j => q[i].id < q[j].id
         /\ \A r \in R : \E i \in 1..n : q[i] = r
<1> DEFINE R == StatesOf(T, sid)
           B == {p \in R \X R : StateBefore(p[1], p[2])}
           Ascending(q) == \A i, j \in DOMAIN q : i < j => StateBefore(q[i], q[j])
           N == Cardinality(R)
           q0 == InOrder(R, StateBefore)
<1>1. \A x, y \in R : <<x, y>> \in B <=> StateBefore(x, y)
  OBVIOUS
<1>2. /\ IsFiniteSet(R) /\ \A r \in R : r.id \in Int /\ r.validFrom \in Int
      /\ \A r, u \in R : r.id = u.id => r = u
      /\ \A r, u \in R : r.id < u.id => r.validFrom <= u.validFrom
  <2>1. R \in SUBSET T /\ IsFiniteSet(T)
    BY DEF StatesOf, RowsOK
  <2>2. IsFiniteSet(R)
    BY <2>1, FS_Subset
  <2>3. \A r \in T : r.id \in Int /\ r.validFrom \in Int
    BY DEF RowsOK, TablesOK, StoreOK, StateRow
  <2>4. \A r, u \in T : r.id = u.id => r = u
    BY DEF RowsOK, TablesOK, StoreOK, RowsAreUnique
  <2>5. \A r, u \in R : r.id < u.id => r.validFrom <= u.validFrom
    BY DEF RowsOK, StatesAscend, StatesOf
  <2> QED
    BY <2>1, <2>2, <2>3, <2>4, <2>5
<1> HIDE DEF B, R
<1>3. \A r, u \in R : StateBefore(r, u) <=> r.id < u.id
  BY <1>2 DEF StateBefore
<1>4. Orders(B, R)
  BY <1>1, <1>2, <1>3 DEF Orders
<1>5. PICK q \in [1..N -> R] : Sorts(q, R, B)
  BY <1>2, <1>4, SortedExists DEF Sorts
<1>6. \A p \in [1..N -> R] : Ascending(p) <=> Sorts(p, R, B)
  BY <1>1 DEF Sorts
<1>7. q0 = CHOOSE p \in [1..N -> R] : Ascending(p)
  BY DEF InOrder
<1> HIDE DEF Ascending, q0
<1>8. q0 \in [1..N -> R] /\ Ascending(q0)
  BY <1>5, <1>6, <1>7
<1>9. Sorts(q0, R, B)
  BY <1>6, <1>8
<1>10. \A x \in R : \E i \in 1..N : q0[i] = x
  BY <1>2, <1>4, <1>9, SortedIsOnto
<1>11. \A i, j \in 1..N : i < j => q0[i].id < q0[j].id
  BY <1>1, <1>3, <1>8, <1>9 DEF Sorts
<1>12. N \in Nat
  BY <1>2, FS_CardinalityType
<1> QED
  BY <1>8, <1>10, <1>11, <1>12 DEF q0, R

LEMMA HistoryReads ==
  ASSUME NEW s \in sessions, RowsOK(sessions, states)
  PROVE  LET history == LoadSession(s).states IN
         /\ history # <<>> /\ history[1].validFrom = s.loginAt
         /\ \A i \in 1..(Len(history) - 1) : history[i].validTo = history[i + 1].validFrom
         /\ Seqs!Last(history).validTo = s.logoutAt
<1> DEFINE R == StatesOf(states, s.id)
           n == Cardinality(R)
           h == InOrder(R, StateBefore)
<1>1. LoadSession(s).states = h
  BY DEF LoadSession
<1>2. /\ n \in Nat /\ h \in [1..n -> R]
      /\ \A i, j \in 1..n : i < j => h[i].id < h[j].id
      /\ \A r \in R : \E i \in 1..n : h[i] = r
  BY StatesInOrder
<1>3. Tiles(s, R) /\ \A r \in R : r.id \in Int
  BY DEF RowsOK, Tiled, TablesOK, StoreOK, StateRow, StatesOf
<1> HIDE DEF R, n, h
<1>4. Len(h) = n /\ h \in Seq(R)
  BY <1>2
<1>5. n >= 1 /\ h # <<>> /\ h[1].validFrom = s.loginAt
  <2>1. PICK f \in R : f.validFrom = s.loginAt /\ \A u \in R : f.id <= u.id
    BY <1>3 DEF Tiles
  <2>2. PICK i \in 1..n : h[i] = f
    BY <1>2
  <2>3. n >= 1 /\ 1 \in 1..n /\ h[1] \in R
    BY <1>2, <2>2
  <2>4. i = 1
    BY <1>2, <1>3, <2>1, <2>2, <2>3
  <2> QED
    BY <1>4, <2>1, <2>2, <2>3, <2>4
<1>6. ASSUME NEW i \in 1..(n - 1) PROVE h[i].validTo = h[i + 1].validFrom
  <2>1. i \in 1..n /\ i + 1 \in 1..n /\ h[i] \in R /\ h[i + 1] \in R /\ h[i].id < h[i + 1].id
    BY <1>2
  <2>2. PICK q \in R : ComesNext(h[i], q, R) /\ h[i].validTo = q.validFrom
    BY <1>3, <2>1 DEF Tiles, Chained
  <2>3. PICK j \in 1..n : h[j] = q
    BY <1>2
  <2>4. h[i].id < h[j].id /\ h[j].id <= h[i + 1].id
    BY <2>1, <2>2, <2>3 DEF ComesNext
  <2>5. ~(j < i) /\ j # i /\ ~(i + 1 < j)
    BY <1>2, <1>3, <2>1, <2>3, <2>4
  <2>6. j = i + 1
    BY <2>5
  <2> QED
    BY <2>2, <2>3, <2>6
<1>7. h[n].validTo = s.logoutAt
  <2>1. n \in 1..n /\ h[n] \in R
    BY <1>2, <1>5
  <2>2. \A u \in R : ~(h[n].id < u.id)
    <3> TAKE u \in R
    <3>1. PICK j \in 1..n : h[j] = u
      BY <1>2
    <3>2. j = n \/ h[j].id < h[n].id
      BY <1>2, <2>1
    <3> QED
      BY <1>3, <2>1, <3>1, <3>2
  <2> QED
    BY <1>3, <2>1, <2>2 DEF Tiles, Chained, ComesNext
<1>8. Seqs!Last(h) = h[n]
  BY <1>4 DEF Seqs!Last
<1> QED
  BY <1>1, <1>4, <1>5, <1>6, <1>7, <1>8
-----------------------------------------------------------------------------
(****************************** spellings **********************************)

(* A list that has one text twice asks for what the text stands for.       *)
LEMMA ListOfOne ==
  ASSUME NEW kind \in TextKinds, NEW t \in Texts, NEW c \in Int, Canonical[kind][t] = c,
         NEW raw, raw = [form |-> "list",
                         items |-> [i \in DOMAIN <<t, t>> |-> [form |-> "text", text |-> <<t, t>>[i]]]]
  PROVE  LET q == NormalizeList(kind, raw) IN
         /\ q # Invalid /\ Len(q) = 1
         /\ Seqs!ToSet(q) = {c}
<1> DEFINE values == {NormalizeText(kind, raw.items[i]) : i \in DOMAIN raw.items}
           q == InOrder({c}, TextBefore)
<1>1. DOMAIN raw.items = {1, 2} /\ \A i \in {1, 2} : raw.items[i] = [form |-> "text", text |-> t]
  BY DOMAIN <<t, t>> = {1, 2}
<1>2. raw.form = "list" /\ raw.items # <<>>
  BY <1>1
<1>3. NormalizeText(kind, [form |-> "text", text |-> t]) = c
  BY DEF NormalizeText
<1>4. values = {c}
  BY <1>1, <1>3
<1>5. c # Invalid
  BY PreparationAssumption
<1>6. NormalizeList(kind, raw) = q
  BY <1>2, <1>4, <1>5 DEF NormalizeList
<1>7. IsFiniteSet({c}) /\ Cardinality({c}) = 1
  BY FS_Singleton
<1>8. q \in [1..1 -> {c}]
  BY <1>7, TextsInOrder
<1> HIDE DEF q
<1>9. DOMAIN q = {1} /\ q[1] = c /\ Len(q) = 1 /\ q \in Seq(Int)
  BY <1>8
<1>10. q # Invalid
  <2>1. q \in Seq(Int \cup {Absent})
    BY <1>9
  <2> QED
    BY <2>1, PreparationAssumption
<1>11. Seqs!ToSet(q) = {c}
  BY <1>9 DEF Seqs!ToSet
<1> QED
  BY <1>6, <1>9, <1>10, <1>11

LEMMA SessionsAreFound ==
  ASSUME RowsOK(sessions, states), NEW s \in sessions,
         NEW field \in {"sessionId", "tenantId", "username", "ip"},
         NEW t \in DOMAIN Canonical[Registry[field].eq],
         Canonical[Registry[field].eq][t] = Column(s, field)
  PROVE  /\ SessionPredicate(s, TextFilter(field, "eq", t))
         /\ SessionPredicate(s, ListFilter(field, "in", <<t, t>>))
<1> DEFINE kind == Registry[field].eq
           c == Column(s, field)
           many == Registry[field]["in"]
           list == [form |-> "list",
                    items |-> [i \in DOMAIN <<t, t>> |-> [form |-> "text", text |-> <<t, t>>[i]]]]
           text == [form |-> "text", text |-> t]
<1>1. /\ field \in DOMAIN Registry
      /\ "eq" \in DOMAIN Registry[field] /\ "in" \in DOMAIN Registry[field]
      /\ kind \in {"uuid", "string", "ip"}
      /\ kind = "uuid" => many = "uuid_list"
      /\ kind = "string" => many = "string_list"
      /\ kind = "ip" => many = "ip_list"
      /\ Registry[field]["eq"] = kind
  BY DEF Registry
<1>2. kind \in TextKinds /\ t \in Texts
  BY <1>1, PreparationAssumption DEF TextKinds
<1>3. c \in Int
  <2>1. s.id \in Int /\ s.key.tenant \in Int /\ s.key.username \in Int /\ s.key.ip \in Int
    <3>1. s \in SessionRow
      BY DEF RowsOK, TablesOK, StoreOK
    <3>2. s.key \in [tenant : Int, username : Int, ip : Int] /\ s.id \in Int
      BY <3>1, QueryAssumption, StoreAssumption DEF SessionRow
    <3> QED
      BY <3>2
  <2> QED
    BY <2>1 DEF Column
<1> HIDE DEF kind, c, many
<1>4. ASSUME NEW g, NEW value, g.field = field, g.value = value, c \in Seqs!ToSet(value)
      PROVE  SessionPredicate(s, g)
  BY <1>4 DEF SessionPredicate, c
<1>5. SessionPredicate(s, TextFilter(field, "eq", t))
  <2>1. Canonical[kind][t] = c
    BY DEF kind, c
  <2>2. NormalizeText(kind, text) = c
    BY <2>1 DEF NormalizeText
  <2>3. c # Invalid /\ <<c>> # Invalid
    <3>1. <<c>> \in Seq(Int \cup {Absent})
      BY <1>3
    <3> QED
      BY <1>3, <3>1, PreparationAssumption
  <2>4. NormalizeValue(kind, text) = <<c>>
    BY <1>1, <2>2, <2>3 DEF NormalizeValue, One
  <2>5. ResolveFilter([field |-> field, operator |-> "eq", value |-> text]) =
          [field |-> field, operator |-> "eq", scope |-> ScopeOf(field), value |-> <<c>>]
    BY <1>1, <2>3, <2>4 DEF ResolveFilter
  <2>6. c \in Seqs!ToSet(<<c>>)
    BY DEF Seqs!ToSet
  <2> QED
    BY <1>4, <2>5, <2>6 DEF TextFilter
<1>6. SessionPredicate(s, ListFilter(field, "in", <<t, t>>))
  <2> DEFINE q == NormalizeList(kind, list)
  <2>1. Canonical[kind][t] = c
    BY DEF kind, c
  <2>2. q # Invalid /\ Seqs!ToSet(q) = {c}
    BY <1>2, <1>3, <2>1, ListOfOne
  <2> HIDE DEF list
  <2>3. NormalizeValue(many, list) = q
    BY <1>1 DEF NormalizeValue
  <2> HIDE DEF q
  <2>4. ResolveFilter([field |-> field, operator |-> "in", value |-> list]) =
          [field |-> field, operator |-> "in", scope |-> ScopeOf(field), value |-> q]
    BY <1>1, <2>2, <2>3 DEF ResolveFilter, many
  <2>5. ListFilter(field, "in", <<t, t>>) =
          [field |-> field, operator |-> "in", scope |-> ScopeOf(field), value |-> q]
    BY <2>4 DEF ListFilter, list
  <2> QED
    BY <1>4, <2>2, <2>5
<1> QED
  BY <1>5, <1>6

LEMMA TagsAreFound ==
  ASSUME RowsOK(sessions, states), NEW r \in states, NEW tag \in r.tags
  PROVE  StatePredicate(r, ListFilter("tags", "containsAll", <<tag, tag>>))
<1> DEFINE list == [form |-> "list",
                    items |-> [i \in DOMAIN <<tag, tag>> |->
                                 [form |-> "text", text |-> <<tag, tag>>[i]]]]
           q == NormalizeList("string", list)
           g == [field |-> "tags", operator |-> "containsAll", scope |-> "state", value |-> q]
<1>1. tag \in Texts /\ Canonical["string"][tag] = tag /\ tag \in Int
  <2>1. r.tags \in TagSets \cup {{}} /\ tag # Blank
    BY DEF RowsOK, TablesOK, StoreOK, StateRow
  <2>2. tag \in DOMAIN Canonical.string /\ Canonical.string[tag] = tag
    BY <2>1, QueryAssumption
  <2> QED
    BY <2>2, PreparationAssumption DEF Texts
<1>2. q # Invalid /\ Len(q) = 1 /\ Seqs!ToSet(q) = {tag}
  BY <1>1, ListOfOne DEF TextKinds
<1> HIDE DEF list, q
<1>3. /\ "tags" \in DOMAIN Registry /\ "containsAll" \in DOMAIN Registry["tags"]
      /\ Registry["tags"]["containsAll"] = "string_list" /\ ScopeOf("tags") = "state"
  BY DEF Registry, ScopeOf
<1>4. NormalizeValue("string_list", list) = q
  BY DEF NormalizeValue, q
<1>5. ResolveFilter([field |-> "tags", operator |-> "containsAll", value |-> list]) = g
  BY <1>2, <1>3, <1>4 DEF ResolveFilter
<1>6. ListFilter("tags", "containsAll", <<tag, tag>>) = g
  BY <1>5 DEF ListFilter, list
<1>7. r.tags \cap Seqs!ToSet(q) = {tag} /\ Cardinality({tag}) = 1
  BY <1>2, FS_Singleton
<1>8. StatePredicate(r, g)
  BY <1>2, <1>7 DEF StatePredicate
<1> QED
  BY <1>6, <1>8
-----------------------------------------------------------------------------
(**************************** a scan of the past ***************************)

(* The instants filters ask about are ones the database can hold: others   *)
(* would wrap around to any time.                                          *)
RepresentableFilters ==
  \A filters \in Queries : Resolve(filters) # Invalid =>
    \A f \in Seqs!ToSet(Resolve(filters)) :
      f.operator \in {"at", "overlaps"} =>
        \A i \in DOMAIN f.value : f.value[i] = Absent \/ Representable(f.value[i])

(* What an event that happens after at does to a state, and the state it   *)
(* adds: neither makes a difference to a filter about the past.            *)
LEMMA LaterEventsUnseen ==
  ASSUME NEW filters \in Queries, Resolve(filters) # Invalid, RepresentableFilters,
         NEW at \in 0..MaxClock, AboutThePast(Resolve(filters), at), NEW t \in Int, at < t,
         NEW f \in Seqs!ToSet(Resolve(filters))
  PROVE  /\ \A r \in StateRow : r.validTo = NULL =>
              (StatePredicate(Closed(r, t), f) <=> StatePredicate(r, f))
         /\ \A w \in StateRow :
              w.validFrom = t /\ f.field = "activity" => ~StatePredicate(w, f)
<1> DEFINE F == Resolve(filters)
<1>1. PICK i \in 1..Len(filters) : f = F[i]
  <2>1. F = [i \in 1..Len(filters) |-> ResolveFilter(filters[i])]
    BY RequestsAreQueries, ResolveType
  <2> HIDE DEF F
  <2>2. f \in {F[i] : i \in DOMAIN F}
    BY DEF Seqs!ToSet, F
  <2> QED
    BY <2>1, <2>2
<1>2. IsResolved(f)
  BY <1>1, RequestsAreQueries, ResolveType
<1>3. /\ f.operator = "at" => f.value[1] <= at
      /\ f.operator = "overlaps" => f.value[2] # Absent /\ f.value[2] <= at
  BY DEF AboutThePast
<1>4. f.operator \in {"at", "overlaps"} =>
        \A k \in DOMAIN f.value : f.value[k] = Absent \/ Representable(f.value[k])
  BY DEF RepresentableFilters
<1>5. at \in Int /\ Absent \notin Int /\ NULL \notin Int
  BY QueryAssumption, PreparationAssumption, StoreAssumption
<1> HIDE DEF F
<1>6. ASSUME NEW r \in StateRow, r.validTo = NULL
      PROVE  LET q == Closed(r, t) IN
             /\ q.validFrom = r.validFrom /\ q.validTo = t /\ q.tags = r.tags
             /\ r.validFrom \in Int
  BY <1>6 DEF Closed, StateRow
<1>7. \A w \in StateRow : w.validFrom \in Int
  BY DEF StateRow
<1>8. CASE f.operator = "at"
  <2>1. PICK v \in Int : f.value = <<v>>
    BY <1>2, <1>8 DEF IsResolved
  <2>2. v <= at /\ ToNanos(v) = v
    <3>1. f.value[1] = v /\ 1 \in DOMAIN f.value
      BY <2>1
    <3> QED
      BY <1>3, <1>4, <1>5, <1>8, <3>1 DEF ToNanos
  <2>3. \A r : StatePredicate(r, f) <=> r.validFrom <= v /\ (r.validTo = NULL \/ v < r.validTo)
    BY <1>8, <2>1, <2>2 DEF StatePredicate, ActivityAt
  <2> QED
    BY <1>5, <1>6, <1>7, <2>2, <2>3
<1>9. CASE f.operator = "overlaps"
  <2>1. PICK from, to \in Int \cup {Absent} : f.value = <<from, to>> /\ ValidInterval(from, to)
    BY <1>2, <1>9 DEF IsResolved
  <2>2. to \in Int /\ to <= at /\ ToNanos(to) = to
    <3>1. f.value[2] = to /\ 2 \in DOMAIN f.value
      BY <2>1
    <3> QED
      BY <1>3, <1>4, <1>5, <1>9, <2>1, <3>1 DEF ToNanos
  <2>3. from # Absent => from \in Int /\ ToNanos(from) = from /\ from < to
    <3>1. f.value[1] = from /\ 1 \in DOMAIN f.value
      BY <2>1
    <3> QED
      BY <1>4, <1>5, <1>9, <2>1, <2>2, <3>1 DEF ToNanos, ValidInterval
  <2>4. \A r : StatePredicate(r, f) <=>
                 /\ from # Absent => r.validTo = NULL \/ from < r.validTo
                 /\ r.validFrom < to
    BY <1>5, <1>9, <2>1, <2>2, <2>3 DEF StatePredicate, ActivityOverlaps
  <2> QED
    BY <1>5, <1>6, <1>7, <2>2, <2>3, <2>4
<1>10. CASE f.operator \notin {"at", "overlaps"}
  <2>1. f.field # "activity"
    BY <1>2, <1>10 DEF IsResolved
  <2>2. \A r, q : r.tags = q.tags => (StatePredicate(r, f) <=> StatePredicate(q, f))
    BY <1>10 DEF StatePredicate
  <2> QED
    BY <1>6, <2>1, <2>2
<1> QED
  BY <1>8, <1>9, <1>10

(* What a state has to meet for a session to match.                        *)
Meets(r, F, at) ==
  /\ \A f \in OfScope(F, "state") : StatePredicate(r, f)
  /\ \/ \E f \in OfScope(F, "state") : f.field = "activity"
     \/ ActivityAt(r, at)

LEMMA SameSession ==
  ASSUME NEW s, NEW q, SortKeyFor(s) = SortKeyFor(q), NEW f, f.field \in DOMAIN Registry,
         f.scope = "session", f.scope = ScopeOf(f.field)
  PROVE  SessionPredicate(s, f) <=> SessionPredicate(q, f)
<1>1. /\ s.id = q.id /\ s.loginAt = q.loginAt
      /\ s.key.tenant = q.key.tenant /\ s.key.username = q.key.username /\ s.key.ip = q.key.ip
  BY DEF SortKeyFor
<1>2. f.field \in {"sessionId", "tenantId", "username", "ip", "loginTime"}
  BY DEF Registry, ScopeOf
<1>3. f.field # "loginTime" => Column(s, f.field) = Column(q, f.field)
  BY <1>1, <1>2 DEF Column
<1> QED
  BY <1>1, <1>3 DEF SessionPredicate

LEMMA LaterEventsChangeNoMatch ==
  ASSUME RowsOK(sessions, states), RowsOK(sessions', states'), NEW e,
         Accepts(sessions, states, sessions', states', e),
         \A s \in sessions, q \in sessions' : s.id = q.id => SortKeyFor(s) = SortKeyFor(q),
         NEW filters \in Queries, Resolve(filters) # Invalid, RepresentableFilters,
         NEW at \in 0..MaxClock, AboutThePast(Resolve(filters), at), at < e.at
  PROVE  MatchingIn(sessions', states', Resolve(filters), at) = Matching(Resolve(filters), at)
<1> DEFINE F == Resolve(filters)
           t == e.at
<1>1. /\ StoreOK(sessions, states) /\ StoreOK(sessions', states') /\ t \in Int
      /\ Changes(sessions, states, sessions', states')
  <2>1. StoreOK(sessions, states) /\ StoreOK(sessions', states') /\ t \in Int
    BY DEF RowsOK, TablesOK, Accepts
  <2> QED
    BY <2>1, ChangedRows
<1>2. Appends(sessions, states, sessions', states')
  BY <1>1, ChangesAppend
<1>3. \A f \in Seqs!ToSet(F) : IsResolved(f)
  <2>1. F = [i \in 1..Len(filters) |-> ResolveFilter(filters[i])]
        /\ \A i \in 1..Len(filters) : IsResolved(F[i])
    BY RequestsAreQueries, ResolveType
  <2> HIDE DEF F
  <2>2. DOMAIN F = 1..Len(filters)
    BY <2>1
  <2> QED
    BY <2>1, <2>2 DEF Seqs!ToSet
<1>4. \A w : ActivityAt(w, at) <=> w.validFrom <= at /\ (w.validTo = NULL \/ at < w.validTo)
  BY QueryAssumption DEF ActivityAt, ToNanos
<1>5. \A s, T : Matches(s, T, F, at) <=>
                  /\ \A f \in OfScope(F, "session") : SessionPredicate(s, f)
                  /\ \E r \in StatesOf(T, s.id) : Meets(r, F, at)
  BY DEF Matches, Meets
<1>6. ASSUME NEW s \in sessions, NEW q \in sessions', s.id = q.id,
             NEW f \in OfScope(F, "session")
      PROVE  SessionPredicate(s, f) <=> SessionPredicate(q, f)
  <2>1. SortKeyFor(s) = SortKeyFor(q)
    BY <1>6
  <2>2. f \in Seqs!ToSet(F) /\ f.scope = "session"
    BY DEF OfScope
  <2>3. f.field \in DOMAIN Registry /\ f.scope = ScopeOf(f.field)
    BY <1>3, <2>2 DEF IsResolved, ResolvedFilter
  <2> QED
    BY <2>1, <2>2, <2>3, SameSession
<1>7. ASSUME NEW r \in StateRow, r.validTo = NULL
      PROVE  /\ Closed(r, t).sessionID = r.sessionID /\ Closed(r, t).id = r.id
             /\ Meets(Closed(r, t), F, at) <=> Meets(r, F, at)
  <2>1. /\ Closed(r, t).validFrom = r.validFrom /\ Closed(r, t).validTo = t
        /\ Closed(r, t).sessionID = r.sessionID /\ Closed(r, t).id = r.id
    BY <1>7 DEF Closed, StateRow
  <2>2. \A f \in OfScope(F, "state") : StatePredicate(Closed(r, t), f) <=> StatePredicate(r, f)
    BY <1>1, <1>7, LaterEventsUnseen DEF OfScope
  <2>3. ActivityAt(Closed(r, t), at) <=> ActivityAt(r, at)
    BY <1>4, <1>7, <2>1
  <2> HIDE DEF F, t
  <2> QED
    BY <2>1, <2>2, <2>3 DEF Meets
<1>8. ASSUME NEW w \in StateRow, w.validFrom = t PROVE ~Meets(w, F, at)
  <2>1. \A f \in OfScope(F, "state") : f.field = "activity" => ~StatePredicate(w, f)
    BY <1>1, <1>8, LaterEventsUnseen DEF OfScope
  <2>2. ~ActivityAt(w, at)
    BY <1>1, <1>4, <1>8
  <2> QED
    BY <2>1, <2>2 DEF Meets
<1> HIDE DEF F, t
<1>9. \A q \in states' :
        \/ q \in states
        \/ \E o \in states : o.validTo = NULL /\ q = Closed(o, t)
        \/ q.validFrom = t /\ \A o \in states : o.id < q.id
  BY <1>1, ChangedRows DEF t
<1>10. states \subseteq StateRow /\ states' \subseteq StateRow
       /\ \A r, q \in states : r.id = q.id => r = q
  BY <1>1 DEF StoreOK, RowsAreUnique
<1>11. ASSUME NEW q \in sessions', Matches(q, states', F, at)
       PROVE  \E s \in sessions : s.id = q.id /\ Matches(s, states, F, at)
  <2>1. PICK u \in states' : u.sessionID = q.id /\ Meets(u, F, at)
    BY <1>5, <1>11 DEF StatesOf
  <2>2. PICK r \in states : r.sessionID = q.id /\ Meets(r, F, at)
    <3>1. CASE u \in states
      BY <2>1, <3>1
    <3>2. ASSUME NEW o \in states, o.validTo = NULL, u = Closed(o, t)
          PROVE  o.sessionID = q.id /\ Meets(o, F, at)
      BY <1>7, <1>10, <2>1, <3>2
    <3>3. u.validFrom # t
      BY <1>8, <1>10, <2>1
    <3> QED
      BY <1>9, <2>1, <3>1, <3>2, <3>3
  <2>3. PICK s \in sessions : s.id = r.sessionID
    BY <1>1 DEF StoreOK, OpenRowsAgree
  <2>4. \A f \in OfScope(F, "session") : SessionPredicate(s, f)
    BY <1>5, <1>6, <1>11, <2>2, <2>3
  <2>5. r \in StatesOf(states, s.id)
    BY <2>2, <2>3 DEF StatesOf
  <2> QED
    BY <1>5, <2>2, <2>3, <2>4, <2>5
<1>12. ASSUME NEW s \in sessions, Matches(s, states, F, at)
       PROVE  \E q \in sessions' : s.id = q.id /\ Matches(q, states', F, at)
  <2>1. PICK r \in states : r.sessionID = s.id /\ Meets(r, F, at)
    BY <1>5, <1>12 DEF StatesOf
  <2>2. PICK u \in states' : u = [r EXCEPT !.validTo = u.validTo] /\ (r.validTo # NULL => u = r)
    BY <1>2 DEF Appends
  <2>3. u.id = r.id
    BY <1>10, <2>2 DEF StateRow
  <2>4. u.sessionID = s.id /\ Meets(u, F, at)
    <3>1. CASE u \in states
      BY <1>10, <2>1, <2>3, <3>1
    <3>2. ASSUME NEW o \in states, o.validTo = NULL, u = Closed(o, t)
          PROVE  u.sessionID = s.id /\ Meets(u, F, at)
      <4>1. o = r
        BY <1>7, <1>10, <2>3, <3>2
      <4> QED
        BY <1>7, <1>10, <2>1, <3>2, <4>1
    <3>3. ~\A o \in states : o.id < u.id
      BY <1>10, <2>3 DEF StateRow
    <3> QED
      BY <1>9, <3>1, <3>2, <3>3
  <2>5. PICK q \in sessions' : q.id = s.id
    BY <1>2 DEF Appends
  <2>6. \A f \in OfScope(F, "session") : SessionPredicate(q, f)
    BY <1>5, <1>6, <1>12, <2>5
  <2>7. u \in StatesOf(states', q.id)
    BY <2>4, <2>5 DEF StatesOf
  <2> QED
    BY <1>5, <2>4, <2>5, <2>6, <2>7
<1> QED
  BY <1>11, <1>12 DEF Matching, MatchingIn, F

(* Until an event comes that is not later than the first page, what        *)
(* matches a query about the past is what matched then.                    *)
SnapshotOK ==
  /\ PagesAreASnapshot
  /\ cursor # Absent /\ ~lateEvent /\ AboutThePast(Resolve(query), started) =>
       matched = Matching(Resolve(query), started) /\ steady = matched

LEMMA SnapshotKept ==
  ASSUME RepresentableFilters, IInv, SnapshotOK, [Next]_vars
  PROVE  SnapshotOK'
<1>1. ASSUME NEW e \in Events, Apply(e) PROVE SnapshotOK'
  <2>1. /\ UNCHANGED <<clock, query, cursor, started, returned, matched>>
        /\ cursor = Absent => UNCHANGED <<steady, lateEvent>>
        /\ cursor # Absent =>
             /\ steady' = steady \cap MatchingIn(sessions', states', Resolve(query), started)
             /\ lateEvent' = (lateEvent \/ e.at <= started)
    BY <1>1 DEF Apply
  <2>2. ReturnedIDs' = ReturnedIDs
    BY <2>1 DEF ReturnedIDs
  <2>3. CASE cursor = Absent
    BY <2>1, <2>2, <2>3 DEF SnapshotOK, PagesAreASnapshot
  <2>4. CASE cursor # Absent
    <3>1. ~lateEvent' => ~lateEvent /\ ~(e.at <= started)
      BY <2>1, <2>4
    <3>2. PagesAreASnapshot'
      BY <2>1, <2>2, <2>4, <3>1 DEF SnapshotOK, PagesAreASnapshot
    <3>3. ASSUME ~lateEvent', AboutThePast(Resolve(query), started)
          PROVE  /\ matched = MatchingIn(sessions', states', Resolve(query), started)
                 /\ steady' = matched
      <4>1. matched = Matching(Resolve(query), started) /\ steady = matched
        BY <2>4, <3>1, <3>3 DEF SnapshotOK
      <4>2. e.at \in Int /\ started \in 0..MaxClock /\ query \in Queries
            /\ Resolve(query) # Invalid
        BY <2>4, ServiceAssumption DEF Events, IInv, ScanOK, CursorContinues
      <4>3. started < e.at
        BY <3>1, <3>3, <4>2, QueryAssumption
      <4>4. /\ RowsOK(sessions, states) /\ RowsOK(sessions', states')
            /\ \/ Accepts(sessions, states, sessions', states', e)
               \/ UNCHANGED <<sessions, states>>
            /\ \A s \in sessions, q \in sessions' : s.id = q.id => SortKeyFor(s) = SortKeyFor(q)
        BY <1>1, AppliedTables DEF IInv
      <4>5. MatchingIn(sessions', states', Resolve(query), started) = Matching(Resolve(query), started)
        <5>1. CASE UNCHANGED <<sessions, states>>
          BY <5>1 DEF Matching
        <5>2. CASE Accepts(sessions, states, sessions', states', e)
          BY <3>3, <4>2, <4>3, <4>4, <5>2, LaterEventsChangeNoMatch
        <5> QED
          BY <4>4, <5>1, <5>2
      <4> QED
        BY <2>1, <2>4, <4>1, <4>5
    <3> QED
      BY <2>1, <3>2, <3>3 DEF SnapshotOK, Matching
  <2> QED
    BY <2>3, <2>4
<1>2. ASSUME NEW filters \in Queries, NEW limit \in Limits, FirstPage(filters, limit)
      PROVE  SnapshotOK'
  <2>1. /\ query' = filters /\ started' = clock /\ UNCHANGED <<sessions, states, clock>>
    BY <1>2 DEF FirstPage
  <2>2. /\ IInv' /\ matched' = Matching(Resolve(filters), clock) /\ steady' = matched'
        /\ ReturnedIDs' \subseteq matched'
    BY <1>2, FirstPageKeeps
  <2>3. query' # NULL /\ cursor' = Absent => steady' \subseteq ReturnedIDs'
    BY <2>2 DEF IInv, ScanOK
  <2>4. Matching(Resolve(query), started)' = Matching(Resolve(filters), clock)
    BY <2>1 DEF Matching
  <2> QED
    BY <2>1, <2>2, <2>3, <2>4 DEF SnapshotOK, PagesAreASnapshot
<1>3. ASSUME NEW filters \in Queries, NEW limit \in Limits, NextPage(filters, limit)
      PROVE  SnapshotOK'
  <2>1. /\ cursor # Absent
        /\ UNCHANGED <<sessions, states, clock, query, started, steady, matched, lateEvent>>
    BY <1>3 DEF NextPage
  <2>2. IInv' /\ ReturnedIDs' \subseteq ReturnedIDs \cup Matching(Resolve(query), started)
    BY <1>3, NextPageKeeps
  <2>3. query' # NULL /\ cursor' = Absent => steady' \subseteq ReturnedIDs'
    BY <2>2 DEF IInv, ScanOK
  <2>4. Matching(Resolve(query), started)' = Matching(Resolve(query), started)
    BY <2>1 DEF Matching
  <2>5. ASSUME ~lateEvent, AboutThePast(Resolve(query), started)
        PROVE  /\ matched = Matching(Resolve(query), started) /\ steady = matched
               /\ query # NULL => ReturnedIDs \subseteq matched
    BY <2>1, <2>5 DEF SnapshotOK, PagesAreASnapshot
  <2> QED
    BY <2>1, <2>2, <2>3, <2>4, <2>5 DEF SnapshotOK, PagesAreASnapshot
<1>4. CASE EndScan
  <2>1. query' = NULL /\ cursor' = Absent
    BY <1>4 DEF EndScan
  <2> QED
    BY <2>1 DEF SnapshotOK, PagesAreASnapshot
<1>5. CASE Tick \/ UNCHANGED vars
  <2>1. UNCHANGED <<sessions, states, query, cursor, started, returned, steady, matched, lateEvent>>
    BY <1>5 DEF Tick, vars, scan
  <2>2. ReturnedIDs' = ReturnedIDs
        /\ Matching(Resolve(query), started)' = Matching(Resolve(query), started)
    BY <2>1 DEF ReturnedIDs, Matching
  <2> QED
    BY <2>1, <2>2 DEF SnapshotOK, PagesAreASnapshot
<1> QED
  BY <1>1, <1>2, <1>3, <1>4, <1>5 DEF Next
-----------------------------------------------------------------------------
(******************************* Theorems **********************************)

(* No session is returned twice by a scan, and the pages follow the order  *)
(* of the sort key, whatever is written between them and whatever limits   *)
(* and spellings the client chooses page by page.                          *)
THEOREM PagesFollowTheOrder == Spec => []PagesAscend
<1>1. IInv => PagesAscend
  BY DEF IInv, ScanOK
<1> QED
  BY <1>1, ScanSafety, PTL

(* A scan that has come to its end has returned every session that matched *)
(* from its first page to its last: the keyset condition, the ORDER BY and *)
(* the cursor agree on one total order.                                    *)
THEOREM NoSessionIsSkipped == Spec => []NothingIsSkipped
<1>1. IInv => NothingIsSkipped
  BY DEF IInv, ScanOK, NothingIsSkipped
<1> QED
  BY <1>1, ScanSafety, PTL

(* The pages of a query about the past are those of one instant, as long   *)
(* as no event comes that is not later than the first page, and its        *)
(* filters ask about instants an int64 of nanoseconds can hold.            *)
THEOREM PagesAreOfOneInstant ==
  ASSUME RepresentableFilters
  PROVE  Spec => []PagesAreASnapshot
<1>1. Init => SnapshotOK
  BY DEF Init, NoScan, SnapshotOK, PagesAreASnapshot
<1>2. IInv /\ SnapshotOK /\ [Next]_vars => SnapshotOK'
  BY SnapshotKept
<1>3. SnapshotOK => PagesAreASnapshot
  BY DEF SnapshotOK
<1> QED
  BY <1>1, <1>2, <1>3, ScanSafety, PTL DEF Spec

(* Prepare accepts a cursor only for filters that match the same sessions  *)
(* as its own at any time, and for its own in any order.                   *)
THEOREM CursorsStayWithTheirQuery == Spec => []CursorsBindTheirQuery
<1>1. ASSUME IInv, cursor # Absent, NEW filters \in Queries,
             NEW p, p = Prepared(filters, 0, cursor), p # Invalid, NEW at \in 0..MaxClock
      PROVE  Matching(Resolve(filters), at) = Matching(Resolve(query), at)
  <2>1. /\ Resolve(filters) # Invalid
        /\ cursor.payload.fingerprint = Fingerprint(Resolve(filters))
    <3>1. PICK limit \in Int : limit = 0
      OBVIOUS
    <3>2. p = Prepared(filters, limit, cursor)
      BY <1>1, <3>1
    <3> QED
      BY <1>1, <3>2, NextPreparedIs
  <2>2. /\ query \in Queries /\ Resolve(query) # Invalid
        /\ cursor.payload.fingerprint = Fingerprint(Resolve(query))
    BY <1>1 DEF IInv, ScanOK, CursorContinues
  <2>3. Seqs!ToSet(Resolve(filters)) = Seqs!ToSet(Resolve(query))
    BY <2>1, <2>2, SameQuery
  <2>4. \A s \in sessions :
          Matches(s, states, Resolve(filters), at) <=> Matches(s, states, Resolve(query), at)
    BY <2>3, SameMatches
  <2> QED
    BY <2>4 DEF Matching, MatchingIn
<1>2. ASSUME IInv, cursor # Absent
      PROVE  Prepared(Seqs!Reverse(query), 0, cursor) # Invalid
  <2> DEFINE back == Resolve(Seqs!Reverse(query))
             c == [storage |-> Storage, fingerprint |-> Fingerprint(Resolve(query)),
                   evaluatedAt |-> started, after |-> LastKey(returned)]
  <2>1. /\ query \in Queries /\ Resolve(query) # Invalid /\ returned # <<>>
        /\ cursor = [version |-> CursorVersion, payload |-> c]
        /\ Representable(LastKey(returned).loginAt)
        /\ started \in 0..MaxClock /\ clock \in 0..MaxClock /\ returned \in Seq(SortKey)
    BY <1>2 DEF IInv, ScanOK, CursorContinues
  <2>2. /\ Invalid \notin Seq(ResolvedFilter) /\ Invalid \notin PreparedQuery
        /\ Invalid \notin CursorPayload /\ Invalid \notin Cursors
    BY QueryAssumption
  <2>3. back # Invalid /\ Fingerprint(back) = Fingerprint(Resolve(query))
        /\ back \in Seq(ResolvedFilter)
    BY <2>1, <2>2, RequestsAreQueries, ReversedFingerprint
  <2>4. LastKey(returned) \in SortKey
    BY <2>1 DEF LastKey
  <2>5. c \in CursorPayload /\ c.after = LastKey(returned)
    BY <2>1, <2>4, FingerprintsAre DEF CursorPayload
  <2>6. CursorIsComplete(c) /\ c # Invalid /\ cursor # Invalid
    <3> HIDE DEF c
    <3>1. cursor \in Cursors
      BY <2>1, <2>5 DEF Cursors
    <3> QED
      BY <2>1, <2>2, <2>5, <3>1, CursorsAreComplete
  <2>7. DecodeCursor(cursor, Storage, Fingerprint(back)) = c
    BY <2>1, <2>3, <2>6 DEF DecodeCursor
  <2>8. Limit(0) = DefaultLimit /\ DefaultLimit \in 1..MaxLimit
    BY PreparationAssumption DEF Limit
  <2>13. Storage # Absent
    BY <2>6 DEF CursorIsComplete
  <2>9. Prepared(Seqs!Reverse(query), 0, cursor) =
          [filters |-> back, limit |-> DefaultLimit, evaluatedAt |-> c.evaluatedAt,
           after |-> c.after]
    BY <1>2, <2>3, <2>6, <2>7, <2>8, <2>13 DEF Prepared, Prepare
  <2>10. c.evaluatedAt = started /\ c.after = LastKey(returned)
    OBVIOUS
  <2>11. started \in Int
    BY <2>1, QueryAssumption
  <2> HIDE DEF back, c
  <2>12. [filters |-> back, limit |-> DefaultLimit, evaluatedAt |-> started,
          after |-> LastKey(returned)] \in PreparedQuery
    BY <2>3, <2>4, <2>8, <2>11 DEF PreparedQuery
  <2> QED
    BY <2>2, <2>9, <2>10, <2>12
<1>3. IInv => CursorsBindTheirQuery
  BY <1>1, <1>2 DEF CursorsBindTheirQuery
<1> QED
  BY <1>3, ScanSafety, PTL

(* A session or a state that is stored is found by every spelling of its   *)
(* identifiers and tags: what NewEvent stores and what the registry        *)
(* normalises a filter's value to are the same canonical form.             *)
THEOREM EverySpellingFinds == Spec => []SpellingsDoNotMatter
<1>1. IInv => SpellingsDoNotMatter
  BY SessionsAreFound, TagsAreFound DEF IInv, SpellingsDoNotMatter
<1> QED
  BY <1>1, ScanSafety, PTL

(* A session comes with its history in order, from its login to its end,   *)
(* each state beginning where the one before it ends.                      *)
THEOREM HistoriesAreRead == Spec => []HistoriesReadInOrder
<1>1. IInv => HistoriesReadInOrder
  BY HistoryReads DEF IInv, HistoriesReadInOrder
<1> QED
  BY <1>1, ScanSafety, PTL

(* The SQL conditions on activity are those of the domain's half-open      *)
(* intervals, for every state that lasted for a time.                      *)
THEOREM ConditionsAreIntervals == Spec => []ActivityAgrees
<1>1. /\ \A t \in Times : t \in Int /\ ToNanos(t) = t
      /\ Absent \notin Int
  BY QueryAssumption, ServiceAssumption, PreparationAssumption DEF RepresentableTimes, ToNanos
<1>2. ASSUME NEW r, NEW at \in Times
      PROVE  ActivityAt(r, at) <=> Contains(Interval(r), at)
  BY <1>1 DEF ActivityAt, Contains, Interval
<1>3. ASSUME NEW r, Lasting(r), NEW range \in Ranges
      PROVE  ActivityOverlaps(r, range) <=> Overlaps(Interval(r), range)
  <2>1. range.from \in Times \cup {Absent} /\ range.to \in Times \cup {Absent}
        /\ ValidInterval(range.from, range.to)
    BY DEF Ranges
  <2> QED
    BY <1>1, <1>3, <2>1 DEF ActivityOverlaps, Overlaps, Interval, Lasting, ValidInterval
<1>4. ActivityAgrees
  BY <1>2, <1>3 DEF ActivityAgrees, ActivityAt, ActivityOverlaps, Contains, Overlaps
<1> QED
  BY <1>4, PTL
=============================================================================
