------------------------- MODULE SessionStoreProofs -------------------------
(***************************************************************************)
(* Facts about the repository's operators, for every table they can meet:  *)
(* what a transaction that succeeds has done, that it preserves StoreOK,   *)
(* and that it leaves the rows of other keys alone.                        *)
(***************************************************************************)
EXTENDS SessionStore, TLAPS

(* A mutation the domain can produce, with the fields the writes use.      *)
IsMutation(m) ==
  /\ m.sessionID \in SessionIDs
  /\ m.eventID \in EventIDs
  /\ m.at \in Int
  /\ m.tags \in TagSets \cup {{}}

(***************************** Small lemmas ********************************)

(* toNanos always yields an integer, and within range the same instant.    *)
LEMMA NanosFacts ==
  ASSUME NEW t \in Int
  PROVE  /\ ToNanos(t) \in Int
         /\ Representable(t) => ToNanos(t) = t
<1>1. MaxNanos - MinNanos + 1 \in Nat \ {0}
  BY StoreAssumption
<1>2. (t - MinNanos) % (MaxNanos - MinNanos + 1) \in Int
  BY <1>1, StoreAssumption
<1> QED
  BY <1>2, StoreAssumption DEF ToNanos

(* Latest is the maximum of a set that has one.                            *)
LEMMA LatestFacts ==
  ASSUME NEW T, HasLatest(T)
  PROVE  Latest(T) \in T /\ \A u \in T : u <= Latest(T)
BY DEF HasLatest, Latest

(* Adding a time to a set with a maximum leaves a set with a maximum.      *)
LEMMA LatestGrows ==
  ASSUME NEW T \in SUBSET Int, NEW t \in Int, T = {} \/ HasLatest(T)
  PROVE  HasLatest(T \cup {t})
BY DEF HasLatest

(* Rows inserted get a row id above every id in use.                       *)
LEMMA NextRowIDFacts ==
  ASSUME NEW T \in SUBSET StateRow, T # {} => HasLatest({r.id : r \in T})
  PROVE  NextRowID(T) \in Nat /\ \A r \in T : r.id < NextRowID(T)
<1>1. CASE T = {}
  BY <1>1 DEF NextRowID
<1>2. CASE T # {}
  <2> DEFINE ids == {r.id : r \in T}
  <2>1. ids \subseteq Nat
    BY DEF StateRow
  <2>2. Latest(ids) \in ids /\ \A u \in ids : u <= Latest(ids)
    <3> HIDE DEF ids
    <3>1. HasLatest(ids)
      BY <1>2 DEF ids
    <3> QED
      BY <3>1, LatestFacts
  <2>3. NextRowID(T) = 1 + Latest(ids)
    BY <1>2 DEF NextRowID
  <2>4. \A r \in T : r.id \in ids
    OBVIOUS
  <2>5. Latest(ids) \in Nat /\ \A u \in ids : u \in Nat /\ u <= Latest(ids)
    BY <2>1, <2>2
  <2> HIDE DEF ids
  <2> QED
    BY <2>3, <2>4, <2>5
<1> QED
  BY <1>1, <1>2

(************************ What a transaction does **************************)

StartEffect(S, T, S2, T2, key, m) ==
  /\ \A s \in S : s.id # m.sessionID /\ ~(s.key = key /\ s.logoutAt = NULL)
  /\ S2 = S \cup {NewSession(key, m)}
  /\ T2 = T \cup {NewState(T, m)}

Closed(r, t) == [r EXCEPT !.validTo = t]

CloseEffect(T, T2, m, r) ==
  /\ r \in T
  /\ r.sessionID = m.sessionID /\ r.validTo = NULL
  /\ r.validFrom <= ToNanos(m.at)
  /\ T2 = (T \ {r}) \cup {Closed(r, ToNanos(m.at))}

TouchEffect(S, S2, m, s) ==
  /\ s \in S
  /\ s.id = m.sessionID
  /\ S2 = (S \ {s}) \cup {[s EXCEPT !.lastEventID = m.eventID]}

EndEffect(S, S2, m, s) ==
  /\ s \in S
  /\ s.id = m.sessionID /\ s.logoutAt = NULL
  /\ s.loginAt <= ToNanos(m.at)
  /\ S2 = (S \ {s}) \cup
            {[s EXCEPT !.logoutAt = ToNanos(m.at), !.lastEventID = m.eventID]}

Transaction ==
  [err : {"none", "constraint", "ErrInvalidInput"},
   sessions : SUBSET SessionRow, states : SUBSET StateRow]

(* A transaction that inserts a session and its state, if it succeeds.     *)
LEMMA StartFacts ==
  ASSUME NEW db \in Transaction, db.err = "none", NEW key, NEW m,
         PersistStart(db, key, m).err = "none"
  PROVE  LET d == PersistStart(db, key, m) IN
         StartEffect(db.sessions, db.states, d.sessions, d.states, key, m)
<1> DEFINE i == InsertSession(db, key, m)
<1>1. CASE \E s \in db.sessions : s.id = m.sessionID \/ (s.key = key /\ s.logoutAt = NULL)
  <2>1. i = Fail(db, "constraint")
    BY <1>1 DEF InsertSession
  <2>2. i.err = "constraint"
    BY <2>1 DEF Fail, Transaction
  <2>3. PersistStart(db, key, m) = i
    BY <2>2 DEF PersistStart, InsertState
  <2> QED
    BY <2>2, <2>3
<1>2. CASE ~\E s \in db.sessions : s.id = m.sessionID \/ (s.key = key /\ s.logoutAt = NULL)
  <2>1. i = [db EXCEPT !.sessions = @ \cup {NewSession(key, m)}]
    BY <1>2 DEF InsertSession
  <2>2. i.err = "none" /\ i.states = db.states
          /\ i.sessions = db.sessions \cup {NewSession(key, m)}
    BY <2>1 DEF Transaction
  <2>3. PersistStart(db, key, m).err = "none" => PersistStart(db, key, m) = [i EXCEPT !.states = @ \cup {NewState(i.states, m)}]
    <3>1. CASE (\A s \in i.sessions : s.id # m.sessionID)
               \/ \E s \in StatesOf(i.states, m.sessionID) : s.validTo = NULL
      <4>1. PersistStart(db, key, m) = Fail(i, "constraint")
        BY <2>2, <3>1 DEF PersistStart, InsertState
      <4>2. PersistStart(db, key, m).err = "constraint"
        BY <2>1, <4>1 DEF Fail, Transaction
      <4> QED
        BY <4>2
    <3>2. CASE ~((\A s \in i.sessions : s.id # m.sessionID)
               \/ \E s \in StatesOf(i.states, m.sessionID) : s.validTo = NULL)
      BY <2>2, <3>2 DEF PersistStart, InsertState
    <3> QED
      BY <3>1, <3>2
  <2>4. PersistStart(db, key, m).sessions = db.sessions \cup {NewSession(key, m)}
        /\ PersistStart(db, key, m).states = db.states \cup {NewState(db.states, m)}
    BY <2>1, <2>2, <2>3 DEF Transaction
  <2> QED
    BY <1>2, <2>4 DEF StartEffect
<1> QED
  BY <1>1, <1>2

(* Closing the open state of a session, if the statement succeeds.         *)
LEMMA CloseFacts ==
  ASSUME NEW db \in Transaction, db.err = "none", NEW m, m.at \in Int
  PROVE  LET d == CloseCurrentState(db, m) IN
         \/ d.err # "none"
         \/ /\ d.err = "none" /\ d.sessions = db.sessions
            /\ d = [err |-> "none", sessions |-> d.sessions, states |-> d.states]
            /\ \E r \in db.states : CloseEffect(db.states, d.states, m, r)
<1> DEFINE open == {s \in StatesOf(db.states, m.sessionID) : s.validTo = NULL}
<1>1. CASE \E s \in open : ToNanos(m.at) < s.validFrom
  BY <1>1 DEF CloseCurrentState, Fail, Transaction
<1>2. CASE ~ExactlyOne(open)
  BY <1>2 DEF CloseCurrentState, Fail, Transaction
<1>3. CASE ExactlyOne(open) /\ ~\E s \in open : ToNanos(m.at) < s.validFrom
  <2>1. PICK r \in open : open = {r}
    BY <1>3 DEF ExactlyOne
  <2>2. CloseCurrentState(db, m)
          = [db EXCEPT !.states = (@ \ open) \cup
               {[s EXCEPT !.validTo = ToNanos(m.at)] : s \in open}]
    BY <1>3 DEF CloseCurrentState
  <2>3. {[s EXCEPT !.validTo = ToNanos(m.at)] : s \in open} = {Closed(r, ToNanos(m.at))}
    BY <2>1 DEF Closed
  <2>4. CloseCurrentState(db, m)
          = [err |-> "none", sessions |-> db.sessions,
             states |-> (db.states \ {r}) \cup {Closed(r, ToNanos(m.at))}]
    BY <2>1, <2>2, <2>3 DEF Transaction
  <2>5. r.validFrom \in Int /\ ToNanos(m.at) \in Int
    BY NanosFacts DEF Transaction, StatesOf, StateRow
  <2>6. r.validFrom <= ToNanos(m.at)
    BY <1>3, <2>1, <2>5
  <2> QED
    BY <2>4, <2>6 DEF CloseEffect, StatesOf
<1> QED
  BY <1>1, <1>2, <1>3

(* Replacing the state of a session, if the transaction succeeds: the open *)
(* state is closed, the new one inserted and the session's event id moved. *)
LEMMA ReplaceFacts ==
  ASSUME NEW db \in Transaction, db.err = "none", NEW m, m.at \in Int,
         PersistReplace(db, m).err = "none"
  PROVE  LET d == PersistReplace(db, m) IN
         \E r \in db.states, s \in db.sessions, T \in {CloseCurrentState(db, m).states} :
           /\ CloseEffect(db.states, T, m, r)
           /\ d.states = T \cup {NewState(T, m)}
           /\ TouchEffect(db.sessions, d.sessions, m, s)
<1> DEFINE c == CloseCurrentState(db, m)
           i == InsertState(c, m)
           d == UpdateSessionEventID(i, m)
<1>0. d = PersistReplace(db, m)
  BY DEF PersistReplace
<1>1. CASE c.err # "none"
  BY <1>1, <1>0 DEF InsertState, UpdateSessionEventID
<1>2. CASE c.err = "none"
  <2>1. PICK r \in db.states : CloseEffect(db.states, c.states, m, r)
    BY <1>2, CloseFacts
  <2>2. c = [err |-> "none", sessions |-> db.sessions, states |-> c.states]
    BY <1>2, CloseFacts
  <2> HIDE DEF c
  <2>3. i.err = "none"
    BY <1>0 DEF UpdateSessionEventID
  <2>4. i = [c EXCEPT !.states = @ \cup {NewState(c.states, m)}]
    BY <2>2, <2>3 DEF InsertState, Fail
  <2>5. i = [err |-> "none", sessions |-> db.sessions,
             states |-> c.states \cup {NewState(c.states, m)}]
    BY <2>2, <2>4
  <2> HIDE DEF i
  <2> DEFINE rows == {s \in i.sessions : s.id = m.sessionID}
  <2>6. ExactlyOne(rows)
    BY <1>0, <2>5 DEF UpdateSessionEventID, Fail
  <2>7. PICK s \in rows : rows = {s}
    BY <2>6 DEF ExactlyOne
  <2>8. d = [i EXCEPT !.sessions = (@ \ rows) \cup
               {[x EXCEPT !.lastEventID = m.eventID] : x \in rows}]
    BY <2>3, <2>6 DEF UpdateSessionEventID
  <2>9. {[x EXCEPT !.lastEventID = m.eventID] : x \in rows}
          = {[s EXCEPT !.lastEventID = m.eventID]}
    BY <2>7
  <2>10. d.states = i.states /\ d.sessions =
            (i.sessions \ {s}) \cup {[s EXCEPT !.lastEventID = m.eventID]}
    BY <2>5, <2>7, <2>8, <2>9
  <2>11. TouchEffect(db.sessions, d.sessions, m, s) /\ s \in db.sessions
    BY <2>5, <2>7, <2>10 DEF TouchEffect
  <2> QED
    BY <1>0, <2>1, <2>5, <2>10, <2>11 DEF c
<1> QED
  BY <1>1, <1>2

(* Ending a session, if the transaction succeeds.                          *)
LEMMA EndFacts ==
  ASSUME NEW db \in Transaction, db.err = "none", NEW m, m.at \in Int,
         PersistEnd(db, m).err = "none"
  PROVE  LET d == PersistEnd(db, m) IN
         \E r \in db.states, s \in db.sessions :
           /\ CloseEffect(db.states, d.states, m, r)
           /\ EndEffect(db.sessions, d.sessions, m, s)
<1> DEFINE c == CloseCurrentState(db, m)
           d == CloseSession(c, m)
<1>0. d = PersistEnd(db, m)
  BY DEF PersistEnd
<1>1. CASE c.err # "none"
  BY <1>1, <1>0 DEF CloseSession
<1>2. CASE c.err = "none"
  <2>1. PICK r \in db.states : CloseEffect(db.states, c.states, m, r)
    BY <1>2, CloseFacts
  <2>2. c = [err |-> "none", sessions |-> db.sessions, states |-> c.states]
    BY <1>2, CloseFacts
  <2> HIDE DEF c
  <2> DEFINE rows == {s \in c.sessions : s.id = m.sessionID /\ s.logoutAt = NULL}
             End(x) == [x EXCEPT !.logoutAt = ToNanos(m.at), !.lastEventID = m.eventID]
  <2>3. ExactlyOne(rows) /\ ~\E s \in rows : ToNanos(m.at) < s.loginAt
    BY <1>0, <2>2 DEF CloseSession, Fail
  <2>4. PICK s \in rows : rows = {s}
    BY <2>3 DEF ExactlyOne
  <2>5. d = [c EXCEPT !.sessions = (@ \ rows) \cup {End(x) : x \in rows}]
    BY <2>2, <2>3 DEF CloseSession
  <2>6. {End(x) : x \in rows} = {End(s)}
    BY <2>4
  <2>7. d.states = c.states /\ d.sessions = (c.sessions \ {s}) \cup {End(s)}
    BY <2>2, <2>4, <2>5, <2>6
  <2>8. s.loginAt \in Int /\ ToNanos(m.at) \in Int
    BY <2>2, <2>4, NanosFacts DEF Transaction, SessionRow
  <2>9. s.loginAt <= ToNanos(m.at)
    BY <2>3, <2>4, <2>8
  <2>10. s \in db.sessions /\ EndEffect(db.sessions, d.sessions, m, s)
    BY <2>2, <2>4, <2>7, <2>9 DEF EndEffect
  <2> QED
    BY <1>0, <2>1, <2>7, <2>10
<1> QED
  BY <1>1, <1>2

(************************ StoreOK is preserved *****************************)

(* A set squeezed between T and T plus one time has a maximum if T has.    *)
LEMMA LatestSqueezed ==
  ASSUME NEW T \in SUBSET Int, NEW T2, NEW t \in Int,
         T = {} => t \in T2, T # {} => HasLatest(T),
         T \subseteq T2, T2 \subseteq T \cup {t}
  PROVE  HasLatest(T2)
BY DEF HasLatest

(* The times of rows are integers.                                         *)
LEMMA TimesAreIntegers ==
  /\ \A A \in SUBSET SessionRow : SessionTimes(A) \subseteq Int
  /\ \A B \in SUBSET StateRow : StateTimes(B) \subseteq Int
BY DEF SessionTimes, StateTimes, NonNull, SessionRow, StateRow

(* With one more session, some session is still the last one.              *)
LEMMA LastSessionGrows ==
  ASSUME NEW A \in SUBSET SessionRow, NEW n \in SessionRow,
         A # {} => \E l \in A : IsLastSession(l, A)
  PROVE  \E l \in A \cup {n} : IsLastSession(l, A \cup {n})
<1>1. CASE A = {}
  <2>1. n.id \in Int /\ n.loginAt \in Int
    BY StoreAssumption DEF SessionRow
  <2>2. A \cup {n} = {n}
    BY <1>1
  <2>3. IsLastSession(n, {n})
    BY <2>1 DEF IsLastSession
  <2> QED
    BY <2>2, <2>3
<1>2. CASE A # {}
  <2>1. PICK l \in A : IsLastSession(l, A)
    BY <1>2
  <2>2. \A r \in A \cup {n} : r.loginAt \in Int /\ r.id \in Int
    BY StoreAssumption DEF SessionRow
  <2>3. CASE n.loginAt < l.loginAt \/ (n.loginAt = l.loginAt /\ n.id <= l.id)
    BY <2>1, <2>2, <2>3 DEF IsLastSession
  <2>4. CASE ~(n.loginAt < l.loginAt \/ (n.loginAt = l.loginAt /\ n.id <= l.id))
    BY <2>1, <2>2, <2>4 DEF IsLastSession
  <2> QED
    BY <2>3, <2>4
<1> QED
  BY <1>1, <1>2

(* Rewriting a session in place, its id and login kept, keeps the order.   *)
LEMMA LastSessionKept ==
  ASSUME NEW A, NEW s \in A, NEW s2,
         s2.id = s.id, s2.loginAt = s.loginAt,
         \E l \in A : IsLastSession(l, A)
  PROVE  \E l \in (A \ {s}) \cup {s2} : IsLastSession(l, (A \ {s}) \cup {s2})
<1>1. PICK l \in A : IsLastSession(l, A)
  OBVIOUS
<1>2. CASE l = s
  <2>1. IsLastSession(s2, (A \ {s}) \cup {s2})
    <3> SUFFICES ASSUME NEW r \in (A \ {s}) \cup {s2}
                 PROVE  r.loginAt < s2.loginAt \/ (r.loginAt = s2.loginAt /\ r.id <= s2.id)
      BY DEF IsLastSession
    <3>1. CASE r = s2
      BY <1>1, <1>2, <3>1 DEF IsLastSession
    <3>2. CASE r \in A
      BY <1>1, <1>2, <3>2 DEF IsLastSession
    <3> QED
      BY <3>1, <3>2
  <2> QED
    BY <2>1
<1>3. CASE l # s
  <2>1. IsLastSession(l, (A \ {s}) \cup {s2})
    <3> SUFFICES ASSUME NEW r \in (A \ {s}) \cup {s2}
                 PROVE  r.loginAt < l.loginAt \/ (r.loginAt = l.loginAt /\ r.id <= l.id)
      BY <1>3 DEF IsLastSession
    <3>1. CASE r = s2
      BY <1>1, <3>1 DEF IsLastSession
    <3>2. CASE r \in A
      BY <1>1, <3>2 DEF IsLastSession
    <3> QED
      BY <3>1, <3>2
  <2> QED
    BY <1>3, <2>1
<1> QED
  BY <1>2, <1>3

(* The rows an insert writes have the columns' types.                      *)
LEMMA NewRowFacts ==
  ASSUME NEW T \in SUBSET StateRow, T # {} => HasLatest({r.id : r \in T}),
         NEW key \in Keys, NEW m, IsMutation(m)
  PROVE  /\ NewSession(key, m) \in SessionRow
         /\ NewState(T, m) \in StateRow
         /\ \A r \in T : r.id < NewState(T, m).id
BY NextRowIDFacts, NanosFacts DEF NewSession, NewState, SessionRow, StateRow, IsMutation

(* The row ids still have a maximum once a row is inserted.                *)
LEMMA RowIDsGrow ==
  ASSUME NEW T \in SUBSET StateRow, NEW w \in StateRow, \A r \in T : r.id < w.id
  PROVE  HasLatest({r.id : r \in T \cup {w}})
<1>1. \A u \in {r.id : r \in T \cup {w}} : u <= w.id
  BY DEF StateRow
<1>2. w.id \in {r.id : r \in T \cup {w}}
  OBVIOUS
<1> QED
  BY <1>1, <1>2 DEF HasLatest

LEMMA StartPreservesStore ==
  ASSUME NEW S, NEW T, StoreOK(S, T), NEW key \in Keys, NEW m, IsMutation(m),
         NEW S2, NEW T2, StartEffect(S, T, S2, T2, key, m)
  PROVE  StoreOK(S2, T2)
<1> DEFINE n == NewSession(key, m)
           w == NewState(T, m)
<1>1. S \subseteq SessionRow /\ T \subseteq StateRow
  BY DEF StoreOK
<1>2. n \in SessionRow /\ w \in StateRow /\ \A r \in T : r.id < w.id
  BY <1>1, NewRowFacts DEF StoreOK, MaximaExist
<1>3. S2 = S \cup {n} /\ T2 = T \cup {w}
  BY DEF StartEffect
<1>4. \A s \in S : s.id # m.sessionID /\ ~(s.key = key /\ s.logoutAt = NULL)
  BY DEF StartEffect
<1>5. n.id = m.sessionID /\ n.key = key /\ n.logoutAt = NULL
      /\ w.sessionID = m.sessionID /\ w.validTo = NULL
  BY DEF NewSession, NewState
<1>6. \A r \in T : r.sessionID # m.sessionID
  BY <1>4 DEF StoreOK, OpenRowsAgree
<1>7. \A r \in T : r.id # w.id
  BY <1>1, <1>2 DEF StateRow
<1> HIDE DEF n, w
<1>8. RowsAreUnique(S2, T2)
  BY <1>3, <1>4, <1>5, <1>7 DEF StoreOK, RowsAreUnique
<1>9. OpenRowsAgree(S2, T2)
  <2>1. \A r \in T2 : \E s \in S2 : s.id = r.sessionID /\ (r.validTo = NULL => s.logoutAt = NULL)
    BY <1>3, <1>5 DEF StoreOK, OpenRowsAgree
  <2>2. \A s \in S2 : s.logoutAt = NULL => \E r \in StatesOf(T2, s.id) : r.validTo = NULL
    BY <1>3, <1>5 DEF StoreOK, OpenRowsAgree, StatesOf
  <2> QED
    BY <2>1, <2>2 DEF OpenRowsAgree
<1>10. OpenStateIsLast(T2)
  BY <1>3, <1>5, <1>6 DEF StoreOK, OpenStateIsLast
<1>11. MaximaExist(S2, T2)
  <2>1. HasLatest({r.id : r \in T2})
    BY <1>1, <1>2, <1>3, RowIDsGrow
  <2>2. ASSUME NEW s \in S2
        PROVE  /\ HasLatest(SessionTimes(SessionsOf(S2, s.key)))
               /\ \E l \in S2 : IsLastSession(l, SessionsOf(S2, s.key))
    <3> DEFINE A == SessionsOf(S, s.key)
               A2 == SessionsOf(S2, s.key)
    <3>1. A \in SUBSET SessionRow /\ A2 \in SUBSET SessionRow
      BY <1>1, <1>2, <1>3 DEF SessionsOf
    <3>2. A # {} => HasLatest(SessionTimes(A)) /\ \E l \in A : IsLastSession(l, A)
      <4> SUFFICES ASSUME NEW a \in A
                   PROVE  HasLatest(SessionTimes(A)) /\ \E l \in A : IsLastSession(l, A)
        OBVIOUS
      <4>1. a \in S /\ a.key = s.key
        BY DEF SessionsOf
      <4> QED
        BY <4>1 DEF StoreOK, MaximaExist, IsLastSession
    <3>3. CASE s.key # key
      <4>1. A2 = A
        BY <1>3, <1>5, <3>3 DEF SessionsOf
      <4>2. s \in A2
        BY DEF SessionsOf
      <4> QED
        BY <1>3, <3>2, <4>1, <4>2 DEF SessionsOf
    <3>4. CASE s.key = key
      <4>1. A2 = A \cup {n}
        BY <1>3, <1>5, <3>4 DEF SessionsOf
      <4>2. SessionTimes(A2) = SessionTimes(A) \cup {n.loginAt}
        BY <1>5, <4>1 DEF SessionTimes, NonNull
      <4>3. n.loginAt \in Int /\ SessionTimes(A) \subseteq Int
        BY <1>2, <3>1, TimesAreIntegers DEF SessionRow
      <4>4. A = {} => SessionTimes(A) = {}
        BY DEF SessionTimes, NonNull
      <4>5. HasLatest(SessionTimes(A2))
        <5> HIDE DEF A, A2
        <5> QED
          BY <3>2, <4>2, <4>3, <4>4, LatestGrows
      <4>6. \E l \in A2 : IsLastSession(l, A2)
        <5> HIDE DEF A, A2
        <5> QED
          BY <1>2, <3>1, <3>2, <4>1, LastSessionGrows
      <4> QED
        BY <4>5, <4>6 DEF SessionsOf
    <3> QED
      BY <3>3, <3>4
  <2>3. ASSUME NEW s \in S2 PROVE HasLatest(StateTimes(StatesOf(T2, s.id)))
    <3>1. CASE s \in S
      <4>1. StatesOf(T2, s.id) = StatesOf(T, s.id)
        BY <1>3, <1>4, <1>5, <3>1 DEF StatesOf
      <4> QED
        BY <3>1, <4>1 DEF StoreOK, MaximaExist
    <3>2. CASE s = n
      <4>1. StatesOf(T2, s.id) = {w}
        BY <1>3, <1>5, <1>6, <3>2 DEF StatesOf
      <4>2. StateTimes({w}) = {w.validFrom}
        BY <1>5 DEF StateTimes, NonNull
      <4>3. w.validFrom \in Int
        BY <1>2 DEF StateRow
      <4> QED
        BY <4>1, <4>2, <4>3 DEF HasLatest
    <3> QED
      BY <1>3, <3>1, <3>2
  <2> QED
    BY <2>1, <2>2, <2>3 DEF MaximaExist
<1>12. S2 \subseteq SessionRow /\ T2 \subseteq StateRow
  BY <1>1, <1>2, <1>3
<1> QED
  BY <1>8, <1>9, <1>10, <1>11, <1>12 DEF StoreOK

(* s2 is s with another event id, or closed at an instant.                 *)
Rewrites(s, s2) ==
  /\ s2.id = s.id /\ s2.key = s.key /\ s2.loginAt = s.loginAt
  /\ s2.logoutAt = s.logoutAt \/ s.logoutAt = NULL

(* Rewriting a session keeps the maxima of every key's sessions.           *)
LEMMA RewriteKeepsMaxima ==
  ASSUME NEW S \in SUBSET SessionRow, NEW s \in S, NEW s2 \in SessionRow,
         Rewrites(s, s2),
         NEW S2, S2 = (S \ {s}) \cup {s2}, NEW key,
         HasLatest(SessionTimes(SessionsOf(S, key))),
         \E l \in S : IsLastSession(l, SessionsOf(S, key))
  PROVE  /\ HasLatest(SessionTimes(SessionsOf(S2, key)))
         /\ \E l \in S2 : IsLastSession(l, SessionsOf(S2, key))
<1> DEFINE A == SessionsOf(S, key)
           A2 == SessionsOf(S2, key)
<1>1. CASE s.key # key
  <2>1. A2 = A
    BY <1>1 DEF SessionsOf, Rewrites
  <2>2. \E l \in A : IsLastSession(l, A)
    BY DEF IsLastSession
  <2> QED
    BY <2>1, <2>2 DEF SessionsOf
<1>2. CASE s.key = key
  <2>1. s \in A /\ A2 = (A \ {s}) \cup {s2} /\ A \in SUBSET SessionRow
    BY <1>2 DEF SessionsOf, Rewrites
  <2>2. \E l \in A : IsLastSession(l, A)
    BY DEF IsLastSession
  <2>3. A2 \subseteq S2
    BY DEF SessionsOf
  <2> HIDE DEF A, A2
  <2>4. \E l \in A2 : IsLastSession(l, A2)
    BY <2>1, <2>2, LastSessionKept DEF Rewrites
  <2> DEFINE t == IF s2.logoutAt = NULL THEN s2.loginAt ELSE s2.logoutAt
  <2>5. t \in Int
    BY DEF SessionRow
  <2>6. SessionTimes(A) \subseteq SessionTimes(A2)
    <3>1. \A x \in A : x.loginAt \in {y.loginAt : y \in A2}
      BY <2>1 DEF Rewrites
    <3>2. \A x \in A : x.logoutAt # NULL => x.logoutAt \in {y.logoutAt : y \in A2}
      BY <2>1 DEF Rewrites
    <3> QED
      BY <3>1, <3>2 DEF SessionTimes, NonNull
  <2>7. SessionTimes(A2) \subseteq SessionTimes(A) \cup {t}
    BY <2>1 DEF SessionTimes, NonNull, Rewrites
  <2>8. SessionTimes(A) # {} /\ SessionTimes(A) \in SUBSET Int
    BY <2>1, TimesAreIntegers DEF SessionTimes
  <2>9. HasLatest(SessionTimes(A))
    BY DEF A
  <2> HIDE DEF t
  <2>10. HasLatest(SessionTimes(A2))
    BY <2>5, <2>6, <2>7, <2>8, <2>9, LatestSqueezed
  <2> QED
    BY <2>3, <2>4, <2>10 DEF A2
<1> QED
  BY <1>1, <1>2

(* Closing a state, and perhaps inserting one that starts where it ends,   *)
(* keeps the maxima of every session's states.                             *)
OpensAt(W, sid, t) ==
  \A w \in W : w.validTo = NULL /\ w.validFrom = t /\ w.sessionID = sid

(* The states once r is closed at t and those of W are inserted.            *)
ClosedTable(T, r, t, W) == (T \ {r}) \cup {Closed(r, t)} \cup W

LEMMA CloseKeepsMaxima ==
  ASSUME NEW T \in SUBSET StateRow, NEW r \in T, r.validTo = NULL,
         NEW t \in Int, NEW W \in SUBSET StateRow, OpensAt(W, r.sessionID, t),
         NEW T2, T2 = ClosedTable(T, r, t, W),
         NEW sid, HasLatest(StateTimes(StatesOf(T, sid)))
  PROVE  HasLatest(StateTimes(StatesOf(T2, sid)))
<1> DEFINE r2 == Closed(r, t)
           B == StatesOf(T, sid)
           B2 == StatesOf(T2, sid)
<1>1. r2.sessionID = r.sessionID /\ r2.validFrom = r.validFrom /\ r2.validTo = t
  BY DEF StateRow, Closed
<1> HIDE DEF r2
<1>2. CASE r.sessionID # sid
  <2>1. B2 = B
    BY <1>1, <1>2 DEF StatesOf, r2, OpensAt, ClosedTable
  <2> QED
    BY <2>1
<1>3. CASE r.sessionID = sid
  <2>1. r \in B /\ B2 = (B \ {r}) \cup {r2} \cup W /\ B \in SUBSET StateRow
    BY <1>1, <1>3 DEF StatesOf, r2, OpensAt, ClosedTable
  <2>2. HasLatest(StateTimes(B))
    OBVIOUS
  <2> HIDE DEF B, B2
  <2>3. StateTimes(B) \subseteq StateTimes(B2)
    <3>1. \A x \in B : x.validFrom \in {y.validFrom : y \in B2}
      BY <1>1, <2>1
    <3>2. \A x \in B : x.validTo # NULL => x.validTo \in {y.validTo : y \in B2}
      BY <1>1, <2>1
    <3> QED
      BY <3>1, <3>2 DEF StateTimes, NonNull
  <2>4. StateTimes(B2) \subseteq StateTimes(B) \cup {t}
    BY <1>1, <2>1 DEF StateTimes, NonNull, OpensAt
  <2>5. StateTimes(B) # {} /\ StateTimes(B) \in SUBSET Int
    BY <2>1, TimesAreIntegers DEF StateTimes
  <2>6. HasLatest(StateTimes(B2))
    BY <2>2, <2>3, <2>4, <2>5, LatestSqueezed
  <2> QED
    BY <2>6 DEF B2
<1> QED
  BY <1>2, <1>3

(* Closing the open state r of session s while s is rewritten to s2: as it *)
(* ends, or together with inserting the state that follows r.              *)
LEMMA ClosePreservesStore ==
  ASSUME NEW S, NEW T, StoreOK(S, T),
         NEW s \in S, NEW r \in T, NEW t \in Int, NEW s2 \in SessionRow,
         r.sessionID = s.id, r.validTo = NULL, r.validFrom <= t,
         Rewrites(s, s2),
         NEW W \in SUBSET StateRow,
         \/ s2.logoutAt # NULL /\ W = {}
         \/ /\ s2.logoutAt = s.logoutAt
            /\ \E w \in StateRow :
                 /\ W = {w} /\ \A q \in T : q.id < w.id
                 /\ w.validTo = NULL /\ w.validFrom = t /\ w.sessionID = s.id,
         NEW S2, S2 = (S \ {s}) \cup {s2},
         NEW T2, T2 = ClosedTable(T, r, t, W)
  PROVE  StoreOK(S2, T2)
<1> DEFINE r2 == Closed(r, t)
<1>1. S \subseteq SessionRow /\ T \subseteq StateRow
  BY DEF StoreOK
<1>2. /\ r2 \in StateRow /\ r2.id = r.id /\ r2.sessionID = r.sessionID
      /\ r2.validFrom = r.validFrom /\ r2.validTo = t /\ t # NULL
  BY <1>1, StoreAssumption DEF StateRow, Closed
<1>3. T2 = (T \ {r}) \cup {r2} \cup W
  BY DEF ClosedTable
<1> HIDE DEF r2
<1>4. s.logoutAt = NULL
  <2>1. PICK o \in S : o.id = r.sessionID /\ o.logoutAt = NULL
    BY DEF StoreOK, OpenRowsAgree
  <2> QED
    BY <2>1 DEF StoreOK, RowsAreUnique
<1>5. s2.id = s.id /\ s2.key = s.key /\ s2.loginAt = s.loginAt
  BY DEF Rewrites
<1>6. \A w \in W : /\ \A q \in T : q.id < w.id /\ q.id # w.id
                   /\ w.validTo = NULL /\ w.validFrom = t /\ w.sessionID = s.id
  BY <1>1 DEF StateRow
<1>7. \A w, v \in W : w = v
  OBVIOUS
<1>8. \A o \in S : o.id = s.id => o = s
  BY DEF StoreOK, RowsAreUnique
<1>9. RowsAreUnique(S2, T2)
  <2>1. \A x, y \in S2 : x.id = y.id => x = y
    BY <1>5 DEF StoreOK, RowsAreUnique
  <2>2. \A x, y \in S2 : x.key = y.key /\ x.logoutAt = NULL /\ y.logoutAt = NULL => x = y
    BY <1>4, <1>5 DEF StoreOK, RowsAreUnique
  <2>3. \A x, y \in T2 : x.id = y.id => x = y
    BY <1>2, <1>3, <1>6, <1>7 DEF StoreOK, RowsAreUnique
  <2> QED
    BY <2>1, <2>2, <2>3 DEF RowsAreUnique
<1>10. OpenRowsAgree(S2, T2)
  <2>1. ASSUME NEW q \in T2
        PROVE  \E o \in S2 : o.id = q.sessionID /\ (q.validTo = NULL => o.logoutAt = NULL)
    <3>1. CASE q \in T /\ q # r
      <4>1. PICK o \in S : o.id = q.sessionID /\ (q.validTo = NULL => o.logoutAt = NULL)
        BY <3>1 DEF StoreOK, OpenRowsAgree
      <4>2. CASE o = s
        <5>1. q.validTo # NULL
          BY <3>1, <4>1, <4>2 DEF StoreOK, OpenStateIsLast
        <5> QED
          BY <1>5, <4>1, <4>2, <5>1
      <4>3. CASE o # s
        BY <4>1, <4>3
      <4> QED
        BY <4>2, <4>3
    <3>2. CASE q = r2
      BY <1>2, <1>5, <3>2
    <3>3. CASE q \in W
      BY <1>4, <1>5, <1>6, <3>3
    <3> QED
      BY <1>3, <3>1, <3>2, <3>3
  <2>2. ASSUME NEW o \in S2, o.logoutAt = NULL
        PROVE  \E q \in StatesOf(T2, o.id) : q.validTo = NULL
    <3>1. CASE o \in S /\ o # s
      <4>1. PICK q \in T : q.sessionID = o.id /\ q.validTo = NULL
        BY <2>2, <3>1 DEF StoreOK, OpenRowsAgree, StatesOf
      <4>2. q # r
        BY <1>8, <3>1, <4>1
      <4> QED
        BY <1>3, <4>1, <4>2 DEF StatesOf
    <3>2. CASE o = s2
      <4>1. PICK w \in W : W = {w}
        BY <2>2, <3>2
      <4> QED
        BY <1>3, <1>5, <1>6, <3>2, <4>1 DEF StatesOf
    <3> QED
      BY <3>1, <3>2
  <2> QED
    BY <2>1, <2>2 DEF OpenRowsAgree
<1>11. OpenStateIsLast(T2)
  <2> SUFFICES ASSUME NEW x \in T2, NEW q \in T2, x.sessionID = q.sessionID,
                      x.validTo = NULL, q # x
               PROVE  /\ q.id < x.id /\ q.validTo # NULL
                      /\ q.validFrom <= q.validTo /\ q.validTo <= x.validFrom
    BY DEF OpenStateIsLast
  <2>1. CASE x \in T /\ x # r
    <3>1. x.sessionID # s.id
      BY <2>1 DEF StoreOK, OpenStateIsLast
    <3>2. q \in T /\ q # r
      BY <1>2, <1>3, <1>6, <3>1
    <3> QED
      BY <2>1, <3>2 DEF StoreOK, OpenStateIsLast
  <2>2. CASE x \in W
    <3>1. CASE q \in T /\ q # r
      <4>1. q.validTo # NULL /\ q.validFrom <= q.validTo /\ q.validTo <= r.validFrom
        BY <1>6, <2>2, <3>1 DEF StoreOK, OpenStateIsLast
      <4>2. q.validTo \in Int /\ r.validFrom \in Int
        BY <1>1, <3>1, <4>1 DEF StateRow
      <4>3. q.validTo <= t
        BY <4>1, <4>2
      <4> QED
        BY <1>6, <2>2, <3>1, <4>1, <4>3
    <3>2. CASE q = r2
      <4>1. r.id < x.id /\ x.validFrom = t
        BY <1>6, <2>2
      <4>2. t <= t
        OBVIOUS
      <4> QED
        BY <1>2, <3>2, <4>1, <4>2
    <3> QED
      BY <1>3, <1>7, <2>2, <3>1, <3>2
  <2> QED
    BY <1>2, <1>3, <2>1, <2>2
<1>12. MaximaExist(S2, T2)
  <2>1. HasLatest({q.id : q \in T2})
    <3>1. HasLatest({q.id : q \in T})
      BY DEF StoreOK, MaximaExist
    <3>2. {q.id : q \in (T \ {r}) \cup {r2}} = {q.id : q \in T}
      BY <1>2
    <3>3. CASE W = {}
      <4>1. T2 = (T \ {r}) \cup {r2}
        BY <1>3, <3>3
      <4> QED
        BY <3>1, <3>2, <4>1
    <3>4. ASSUME NEW w \in W, W = {w} PROVE HasLatest({q.id : q \in T2})
      <4>1. (T \ {r}) \cup {r2} \in SUBSET StateRow
        BY <1>1, <1>2
      <4>2. \A q \in (T \ {r}) \cup {r2} : q.id < w.id
        BY <1>2, <1>6
      <4>3. T2 = ((T \ {r}) \cup {r2}) \cup {w}
        BY <1>3, <3>4
      <4> QED
        BY <4>1, <4>2, <4>3, RowIDsGrow
    <3> QED
      BY <3>3, <3>4
  <2>2. ASSUME NEW o \in S2
        PROVE  /\ HasLatest(SessionTimes(SessionsOf(S2, o.key)))
               /\ \E l \in S2 : IsLastSession(l, SessionsOf(S2, o.key))
    <3>1. PICK q \in S : q.key = o.key
      BY <1>5
    <3>2. /\ HasLatest(SessionTimes(SessionsOf(S, o.key)))
          /\ \E l \in S : IsLastSession(l, SessionsOf(S, o.key))
      BY <3>1 DEF StoreOK, MaximaExist
    <3> QED
      BY <1>1, <3>2, RewriteKeepsMaxima
  <2>3. ASSUME NEW o \in S2 PROVE HasLatest(StateTimes(StatesOf(T2, o.id)))
    <3>1. HasLatest(StateTimes(StatesOf(T, o.id)))
      BY <1>5 DEF StoreOK, MaximaExist
    <3>2. T \in SUBSET StateRow
      BY <1>1
    <3>3. OpensAt(W, r.sessionID, t)
      BY <1>6 DEF OpensAt
    <3> HIDE DEF StateRow
    <3> QED
      BY <3>1, <3>2, <3>3, CloseKeepsMaxima
  <2> QED
    BY <2>1, <2>2, <2>3 DEF MaximaExist
<1>13. S2 \subseteq SessionRow /\ T2 \subseteq StateRow
  BY <1>1, <1>2, <1>3
<1> QED
  BY <1>9, <1>10, <1>11, <1>12, <1>13 DEF StoreOK

(* Every transaction preserves StoreOK, whether it commits or not.         *)
LEMMA ApplyPreservesStore ==
  ASSUME NEW S, NEW T, StoreOK(S, T), NEW key \in Keys, NEW m,
         m.kind \in {"start_session", "replace_state", "end_session"} => IsMutation(m),
         m.kind \in {"start_session", "replace_state", "end_session", "duplicate_event"}
  PROVE  LET d == ApplyMutation(S, T, key, m) IN StoreOK(d.sessions, d.states)
<1> DEFINE db == [err |-> "none", sessions |-> S, states |-> T]
           d == PersistMutation(db, key, m)
<1>1. db \in Transaction /\ db.err = "none"
  <2>1. S \in SUBSET SessionRow /\ T \in SUBSET StateRow
    BY DEF StoreOK
  <2> QED
    BY <2>1 DEF Transaction
<1>2. ApplyMutation(S, T, key, m) = IF d.err = "none" THEN d ELSE Fail(db, d.err)
  BY DEF ApplyMutation
<1>3. CASE d.err # "none"
  BY <1>2, <1>3 DEF Fail
<1>4. CASE d.err = "none"
  <2>0. ApplyMutation(S, T, key, m) = d
    BY <1>2, <1>4
  <2>1. CASE m.kind = "duplicate_event"
    BY <2>0, <2>1 DEF PersistMutation
  <2>2. CASE m.kind = "start_session"
    <3>1. d = PersistStart(db, key, m)
      BY <2>2 DEF PersistMutation
    <3>2. StartEffect(S, T, d.sessions, d.states, key, m)
      BY <1>1, <1>4, <3>1, StartFacts
    <3> QED
      BY <2>0, <2>2, <3>2, StartPreservesStore
  <2>3. CASE m.kind = "replace_state"
    <3>1. d = PersistReplace(db, m)
      BY <2>3 DEF PersistMutation
    <3>2. m.at \in Int /\ IsMutation(m)
      BY <2>3 DEF IsMutation
    <3>3. PICK r \in T, s \in S, C \in {CloseCurrentState(db, m).states} :
            /\ CloseEffect(T, C, m, r)
            /\ d.states = C \cup {NewState(C, m)}
            /\ TouchEffect(S, d.sessions, m, s)
      BY <1>1, <1>4, <3>1, <3>2, ReplaceFacts
    <3> DEFINE t == ToNanos(m.at)
               w == NewState(C, m)
               s2 == [s EXCEPT !.lastEventID = m.eventID]
    <3>4. C = (T \ {r}) \cup {Closed(r, t)} /\ t \in Int
      BY <3>2, <3>3, NanosFacts DEF CloseEffect
    <3>5. s2 \in SessionRow /\ Rewrites(s, s2) /\ s2.logoutAt = s.logoutAt
      BY <3>2 DEF StoreOK, SessionRow, Rewrites, IsMutation
    <3>6. C \in SUBSET StateRow /\ {q.id : q \in C} = {q.id : q \in T}
      <4>1. T \subseteq StateRow /\ r \in StateRow
        BY DEF StoreOK
      <4>2. Closed(r, t) \in StateRow /\ Closed(r, t).id = r.id
        BY <3>4, <4>1 DEF StateRow, Closed
      <4> HIDE DEF t
      <4> QED
        BY <3>4, <4>1, <4>2
    <3>7. HasLatest({q.id : q \in C})
      BY <3>6 DEF StoreOK, MaximaExist
    <3>8. w \in StateRow /\ \A q \in C : q.id < w.id
      BY <3>2, <3>6, <3>7, NewRowFacts
    <3>9. \A q \in T : q.id < w.id
      BY <3>6, <3>8
    <3>10. w.validTo = NULL /\ w.validFrom = t /\ w.sessionID = s.id
      BY <3>3 DEF NewState, TouchEffect
    <3>11. r.sessionID = s.id /\ r.validTo = NULL /\ r.validFrom <= t
      BY <3>3 DEF CloseEffect, TouchEffect
    <3>12. d.sessions = (S \ {s}) \cup {s2}
      BY <3>3 DEF TouchEffect
    <3>13. d.states = ClosedTable(T, r, t, {w})
      BY <3>3, <3>4 DEF ClosedTable
    <3> HIDE DEF w, t, s2, d
    <3> QED
      BY <2>0, <3>4, <3>5, <3>8, <3>9, <3>10, <3>11, <3>12, <3>13, ClosePreservesStore
  <2>4. CASE m.kind = "end_session"
    <3>1. d = PersistEnd(db, m)
      BY <2>4 DEF PersistMutation
    <3>2. m.at \in Int /\ IsMutation(m)
      BY <2>4 DEF IsMutation
    <3>3. PICK r \in T, s \in S :
            CloseEffect(T, d.states, m, r) /\ EndEffect(S, d.sessions, m, s)
      BY <1>1, <1>4, <3>1, <3>2, EndFacts
    <3> DEFINE t == ToNanos(m.at)
               s2 == [s EXCEPT !.logoutAt = t, !.lastEventID = m.eventID]
    <3>4. t \in Int /\ t # NULL
      BY <3>2, NanosFacts, StoreAssumption
    <3>5. s2 \in SessionRow /\ Rewrites(s, s2) /\ s2.logoutAt # NULL
      BY <3>2, <3>3, <3>4 DEF StoreOK, SessionRow, Rewrites, IsMutation, EndEffect
    <3>6. r.sessionID = s.id /\ r.validTo = NULL /\ r.validFrom <= t
      BY <3>3 DEF CloseEffect, EndEffect
    <3>7. d.sessions = (S \ {s}) \cup {s2}
      BY <3>3 DEF EndEffect
    <3>8. d.states = ClosedTable(T, r, t, {})
      BY <3>3 DEF CloseEffect, ClosedTable
    <3> HIDE DEF t, s2, d
    <3> QED
      BY <2>0, <3>4, <3>5, <3>6, <3>7, <3>8, ClosePreservesStore
  <2> QED
    BY <2>1, <2>2, <2>3, <2>4
<1> QED
  BY <1>3, <1>4

(******************* A mutation that fits the tables ***********************)

(* What a decision made on the current snapshot guarantees.                *)
MutationFits(S, T, key, m) ==
  /\ m.kind = "start_session" =>
       /\ \A s \in S : s.id # m.sessionID
       /\ \A s \in S : s.key = key => s.logoutAt # NULL /\ s.logoutAt <= m.at
  /\ m.kind \in {"replace_state", "end_session"} =>
       \E s \in S : /\ s.id = m.sessionID /\ s.key = key /\ s.logoutAt = NULL
                    /\ s.loginAt <= m.at
                    /\ \A r \in StatesOf(T, s.id) : r.validFrom <= m.at

(* The rows of the other keys are those that were there.                   *)
OnlyKey(S, T, S2, T2, key) ==
  /\ \A k : k # key => SessionsOf(S2, k) = SessionsOf(S, k)
  /\ \A s \in S : s.key # key => StatesOf(T2, s.id) = StatesOf(T, s.id)

(* A transaction that closes the open state of a session.                  *)
LEMMA CloseSucceeds ==
  ASSUME NEW db \in Transaction, db.err = "none", StoreOK(db.sessions, db.states),
         NEW m, m.at \in Int, Representable(m.at),
         NEW s \in db.sessions, s.id = m.sessionID, s.logoutAt = NULL,
         \A r \in StatesOf(db.states, s.id) : r.validFrom <= m.at
  PROVE  LET d == CloseCurrentState(db, m) IN
         /\ d.err = "none" /\ d.sessions = db.sessions
         /\ \A r \in StatesOf(d.states, m.sessionID) : r.validTo # NULL
<1> DEFINE open == {q \in StatesOf(db.states, m.sessionID) : q.validTo = NULL}
<1>0. ToNanos(m.at) = m.at /\ m.at # NULL
  BY NanosFacts, StoreAssumption
<1>1. PICK r \in db.states : r.sessionID = s.id /\ r.validTo = NULL
  BY DEF StoreOK, OpenRowsAgree, StatesOf
<1>2. open = {r}
  BY <1>1 DEF StoreOK, OpenStateIsLast, StatesOf
<1>3. ExactlyOne(open)
  BY <1>2 DEF ExactlyOne
<1>4. r.validFrom \in Int /\ r.validFrom <= m.at
  BY <1>1 DEF StatesOf, StoreOK, StateRow
<1>5. ~\E q \in open : ToNanos(m.at) < q.validFrom
  BY <1>0, <1>2, <1>4
<1>6. CloseCurrentState(db, m)
        = [db EXCEPT !.states = (@ \ open) \cup
             {[q EXCEPT !.validTo = ToNanos(m.at)] : q \in open}]
  BY <1>3, <1>5 DEF CloseCurrentState
<1>7. {[q EXCEPT !.validTo = ToNanos(m.at)] : q \in open} = {Closed(r, m.at)}
  BY <1>0, <1>2 DEF Closed
<1>8. CloseCurrentState(db, m)
        = [err |-> "none", sessions |-> db.sessions,
           states |-> (db.states \ {r}) \cup {Closed(r, m.at)}]
  BY <1>2, <1>6, <1>7 DEF Transaction
<1>9. Closed(r, m.at).validTo # NULL
  BY <1>0, <1>1 DEF StoreOK, StateRow, Closed
<1>10. \A q \in StatesOf(db.states, m.sessionID) : q # r => q.validTo # NULL
  BY <1>2
<1> QED
  BY <1>8, <1>9, <1>10 DEF StatesOf

(* A mutation that fits is never refused, by a constraint or a row count.  *)
LEMMA ApplySucceeds ==
  ASSUME NEW S, NEW T, StoreOK(S, T), NEW key \in Keys, NEW m,
         m.kind \in {"start_session", "replace_state", "end_session", "duplicate_event"},
         m.kind # "duplicate_event" => IsMutation(m) /\ Representable(m.at),
         MutationFits(S, T, key, m)
  PROVE  ApplyMutation(S, T, key, m).err = "none"
<1> DEFINE db == [err |-> "none", sessions |-> S, states |-> T]
           d == PersistMutation(db, key, m)
<1>1. db \in Transaction /\ db.err = "none"
  <2>1. S \in SUBSET SessionRow /\ T \in SUBSET StateRow
    BY DEF StoreOK
  <2> QED
    BY <2>1 DEF Transaction
<1>2. SUFFICES d.err = "none"
  BY DEF ApplyMutation
<1>3. CASE m.kind = "duplicate_event"
  BY <1>3 DEF PersistMutation
<1>4. CASE m.kind = "start_session"
  <2>1. d = InsertState(InsertSession(db, key, m), m)
    BY <1>4 DEF PersistMutation, PersistStart
  <2>2. ~\E s \in db.sessions : s.id = m.sessionID \/ (s.key = key /\ s.logoutAt = NULL)
    BY <1>4 DEF MutationFits
  <2> DEFINE i == InsertSession(db, key, m)
  <2>3. i = [db EXCEPT !.sessions = @ \cup {NewSession(key, m)}]
    BY <2>2 DEF InsertSession
  <2>4. i = [err |-> "none", sessions |-> S \cup {NewSession(key, m)}, states |-> T]
    BY <2>3
  <2> HIDE DEF i
  <2>5. \A r \in T : r.sessionID # m.sessionID
    BY <1>4 DEF MutationFits, StoreOK, OpenRowsAgree
  <2>6. NewSession(key, m).id = m.sessionID
    BY DEF NewSession
  <2>7. InsertState(i, m) = [i EXCEPT !.states = @ \cup {NewState(i.states, m)}]
    BY <2>4, <2>5, <2>6 DEF InsertState, StatesOf
  <2> QED
    BY <2>1, <2>4, <2>7 DEF i
<1>5. CASE m.kind \in {"replace_state", "end_session"}
  <2>1. PICK s \in S : /\ s.id = m.sessionID /\ s.key = key /\ s.logoutAt = NULL
                       /\ s.loginAt <= m.at
                       /\ \A r \in StatesOf(T, s.id) : r.validFrom <= m.at
    BY <1>5 DEF MutationFits
  <2>2. m.at \in Int /\ Representable(m.at) /\ ToNanos(m.at) = m.at
    BY <1>5, NanosFacts DEF IsMutation
  <2> DEFINE c == CloseCurrentState(db, m)
  <2>3. /\ c.err = "none" /\ c.sessions = S
        /\ \A r \in StatesOf(c.states, m.sessionID) : r.validTo # NULL
    BY <1>1, <2>1, <2>2, CloseSucceeds
  <2>4. c = [err |-> "none", sessions |-> c.sessions, states |-> c.states]
    BY <1>1, <2>2, <2>3, CloseFacts
  <2>5. \A o \in S : o.id = m.sessionID => o = s
    BY <2>1 DEF StoreOK, RowsAreUnique
  <2> HIDE DEF c
  <2>6. CASE m.kind = "replace_state"
    <3>1. d = UpdateSessionEventID(InsertState(c, m), m)
      BY <2>6 DEF PersistMutation, PersistReplace, c
    <3> DEFINE i == InsertState(c, m)
    <3>2. i = [c EXCEPT !.states = @ \cup {NewState(c.states, m)}]
      BY <2>1, <2>3 DEF InsertState
    <3>3. i.err = "none" /\ i.sessions = S
      BY <2>3, <2>4, <3>2
    <3> DEFINE rows == {o \in i.sessions : o.id = m.sessionID}
    <3>4. rows = {s}
      BY <2>1, <2>5, <3>3
    <3>5. ExactlyOne(rows)
      BY <3>4 DEF ExactlyOne
    <3>6. UpdateSessionEventID(i, m).err = i.err
      <4>1. i = [err |-> "none", sessions |-> S,
                 states |-> c.states \cup {NewState(c.states, m)}]
        BY <2>3, <2>4, <3>2
      <4> HIDE DEF i
      <4>2. UpdateSessionEventID(i, m) = [i EXCEPT !.sessions = (@ \ rows) \cup
               {[o EXCEPT !.lastEventID = m.eventID] : o \in rows}]
        BY <3>3, <3>5 DEF UpdateSessionEventID
      <4> QED
        BY <4>1, <4>2
    <3> QED
      BY <3>1, <3>3, <3>6
  <2>7. CASE m.kind = "end_session"
    <3>1. d = CloseSession(c, m)
      BY <2>7 DEF PersistMutation, PersistEnd, c
    <3> DEFINE rows == {o \in c.sessions : o.id = m.sessionID /\ o.logoutAt = NULL}
    <3>2. rows = {s}
      BY <2>1, <2>3, <2>5
    <3>3. ExactlyOne(rows)
      BY <3>2 DEF ExactlyOne
    <3>4. s.loginAt \in Int
      BY DEF StoreOK, SessionRow
    <3>5. ~\E o \in rows : ToNanos(m.at) < o.loginAt
      BY <2>1, <2>2, <3>2, <3>4
    <3>6. CloseSession(c, m) = [c EXCEPT !.sessions = (@ \ rows) \cup
             {[o EXCEPT !.logoutAt = ToNanos(m.at),
                        !.lastEventID = m.eventID] : o \in rows}]
      BY <2>3, <3>3, <3>5 DEF CloseSession
    <3>7. \A X : [c EXCEPT !.sessions = X].err = "none"
      BY <2>4
    <3> QED
      BY <3>1, <3>6, <3>7
  <2> QED
    BY <1>5, <2>6, <2>7
<1> QED
  BY <1>3, <1>4, <1>5

(* It changes the rows of its own key only.                                *)
LEMMA ApplyFrame ==
  ASSUME NEW S, NEW T, StoreOK(S, T), NEW key \in Keys, NEW m,
         m.kind \in {"start_session", "replace_state", "end_session", "duplicate_event"},
         m.kind # "duplicate_event" => IsMutation(m),
         MutationFits(S, T, key, m)
  PROVE  LET d == ApplyMutation(S, T, key, m) IN OnlyKey(S, T, d.sessions, d.states, key)
<1> DEFINE db == [err |-> "none", sessions |-> S, states |-> T]
           d == PersistMutation(db, key, m)
<1>1. db \in Transaction /\ db.err = "none"
  <2>1. S \in SUBSET SessionRow /\ T \in SUBSET StateRow
    BY DEF StoreOK
  <2> QED
    BY <2>1 DEF Transaction
<1>2. ApplyMutation(S, T, key, m) = IF d.err = "none" THEN d ELSE Fail(db, d.err)
  BY DEF ApplyMutation
<1>3. CASE d.err # "none"
  BY <1>2, <1>3 DEF Fail, OnlyKey
<1>4. CASE d.err = "none"
  <2>0. ApplyMutation(S, T, key, m) = d
    BY <1>2, <1>4
  <2>1. CASE m.kind = "duplicate_event"
    BY <2>0, <2>1 DEF PersistMutation, OnlyKey
  <2>2. CASE m.kind = "start_session"
    <3>1. d = PersistStart(db, key, m)
      BY <2>2 DEF PersistMutation
    <3>2. StartEffect(S, T, d.sessions, d.states, key, m)
      BY <1>1, <1>4, <3>1, StartFacts
    <3>3. NewSession(key, m).key = key /\ NewState(T, m).sessionID = m.sessionID
      BY DEF NewSession, NewState
    <3>4. \A s \in S : s.id # m.sessionID
      BY <3>2 DEF StartEffect
    <3> HIDE DEF d
    <3>5. \A k : k # key => SessionsOf(d.sessions, k) = SessionsOf(S, k)
      BY <3>2, <3>3 DEF StartEffect, SessionsOf
    <3>6. \A s \in S : StatesOf(d.states, s.id) = StatesOf(T, s.id)
      BY <3>2, <3>3, <3>4 DEF StartEffect, StatesOf
    <3> QED
      BY <2>0, <3>5, <3>6 DEF OnlyKey
  <2>3. CASE m.kind \in {"replace_state", "end_session"}
    <3>1. m.at \in Int
      BY <2>3 DEF IsMutation
    <3>2. PICK s \in S : s.id = m.sessionID /\ s.key = key
      BY <2>3 DEF MutationFits
    <3>3. \A o \in S : o.id = m.sessionID => o = s
      BY <3>2 DEF StoreOK, RowsAreUnique
    <3>4. \E r, s2, W :
            /\ r \in T
            /\ d.sessions = (S \ {s}) \cup {s2} /\ s2.key = key
            /\ r.sessionID = m.sessionID
            /\ d.states = ClosedTable(T, r, ToNanos(m.at), W)
            /\ \A w \in W : w.sessionID = m.sessionID
      <4>1. CASE m.kind = "replace_state"
        <5>1. d = PersistReplace(db, m)
          BY <4>1 DEF PersistMutation
        <5>2. PICK r \in T, o \in S, C \in {CloseCurrentState(db, m).states} :
                /\ CloseEffect(T, C, m, r)
                /\ d.states = C \cup {NewState(C, m)}
                /\ TouchEffect(S, d.sessions, m, o)
          BY <1>1, <1>4, <3>1, <5>1, ReplaceFacts
        <5>3. o = s /\ [s EXCEPT !.lastEventID = m.eventID].key = key
          BY <3>2, <3>3, <5>2 DEF TouchEffect, StoreOK, SessionRow
        <5>4. d.states = ClosedTable(T, r, ToNanos(m.at), {NewState(C, m)})
          BY <5>2 DEF CloseEffect, ClosedTable
        <5>5. NewState(C, m).sessionID = m.sessionID /\ r.sessionID = m.sessionID
          BY <5>2 DEF NewState, CloseEffect
        <5>6. d.sessions = (S \ {s}) \cup {[s EXCEPT !.lastEventID = m.eventID]}
          BY <5>2, <5>3 DEF TouchEffect
        <5> DEFINE s2 == [s EXCEPT !.lastEventID = m.eventID]
                   W == {NewState(C, m)}
        <5>7. s2.key = key /\ \A w \in W : w.sessionID = m.sessionID
          BY <5>3, <5>5
        <5>8. d.sessions = (S \ {s}) \cup {s2} /\ d.states = ClosedTable(T, r, ToNanos(m.at), W)
          BY <5>4, <5>6
        <5> HIDE DEF d, s2, W
        <5> QED
          BY <5>5, <5>7, <5>8
      <4>2. CASE m.kind = "end_session"
        <5>1. d = PersistEnd(db, m)
          BY <4>2 DEF PersistMutation
        <5>2. PICK r \in T, o \in S :
                CloseEffect(T, d.states, m, r) /\ EndEffect(S, d.sessions, m, o)
          BY <1>1, <1>4, <3>1, <5>1, EndFacts
        <5> DEFINE s2 == [s EXCEPT !.logoutAt = ToNanos(m.at), !.lastEventID = m.eventID]
        <5>3. o = s /\ s2.key = key
          BY <3>2, <3>3, <5>2 DEF EndEffect, StoreOK, SessionRow
        <5>4. d.states = ClosedTable(T, r, ToNanos(m.at), {})
          BY <5>2 DEF CloseEffect, ClosedTable
        <5>5. r.sessionID = m.sessionID
          BY <5>2 DEF CloseEffect
        <5>6. d.sessions = (S \ {s}) \cup {s2}
          BY <5>2, <5>3 DEF EndEffect
        <5> HIDE DEF d, s2
        <5> QED
          BY <5>3, <5>4, <5>5, <5>6
      <4> QED
        BY <2>3, <4>1, <4>2
    <3>5. PICK r, s2, W :
            /\ r \in T
            /\ d.sessions = (S \ {s}) \cup {s2} /\ s2.key = key
            /\ r.sessionID = m.sessionID
            /\ d.states = ClosedTable(T, r, ToNanos(m.at), W)
            /\ \A w \in W : w.sessionID = m.sessionID
      BY <3>4
    <3>6. Closed(r, ToNanos(m.at)).sessionID = m.sessionID
      BY <3>5 DEF StoreOK, StateRow, Closed
    <3> HIDE DEF d
    <3>7. \A k : k # key => SessionsOf(d.sessions, k) = SessionsOf(S, k)
      BY <3>2, <3>5 DEF SessionsOf
    <3>8. \A o \in S : o.key # key => StatesOf(d.states, o.id) = StatesOf(T, o.id)
      <4> SUFFICES ASSUME NEW o \in S, o.key # key
                   PROVE  StatesOf(d.states, o.id) = StatesOf(T, o.id)
        OBVIOUS
      <4>1. o.id # m.sessionID
        BY <3>2, <3>3
      <4> QED
        BY <3>5, <3>6, <4>1 DEF ClosedTable, StatesOf
    <3> QED
      BY <2>0, <3>7, <3>8 DEF OnlyKey
  <2> QED
    BY <2>1, <2>2, <2>3
<1> QED
  BY <1>3, <1>4

(* It keeps the sessions of a key apart: a session that starts does so     *)
(* after every other ended, and ending one moves no other boundary.        *)
LEMMA ApplyKeepsDisjoint ==
  ASSUME NEW S, NEW T, StoreOK(S, T), SessionsDisjoint(S), NEW key \in Keys, NEW m,
         m.kind \in {"start_session", "replace_state", "end_session", "duplicate_event"},
         m.kind # "duplicate_event" => IsMutation(m) /\ Representable(m.at),
         MutationFits(S, T, key, m)
  PROVE  SessionsDisjoint(ApplyMutation(S, T, key, m).sessions)
<1> DEFINE db == [err |-> "none", sessions |-> S, states |-> T]
           d == PersistMutation(db, key, m)
<1>1. db \in Transaction /\ db.err = "none"
  <2>1. S \in SUBSET SessionRow /\ T \in SUBSET StateRow
    BY DEF StoreOK
  <2> QED
    BY <2>1 DEF Transaction
<1>2. ApplyMutation(S, T, key, m) = d /\ d.err = "none"
  BY ApplySucceeds DEF ApplyMutation, Fail
<1>3. CASE m.kind = "duplicate_event"
  BY <1>2, <1>3 DEF PersistMutation
<1>4. CASE m.kind = "start_session"
  <2>1. d = PersistStart(db, key, m)
    BY <1>4 DEF PersistMutation
  <2>2. d.sessions = S \cup {NewSession(key, m)}
    BY <1>1, <1>2, <2>1, StartFacts DEF StartEffect
  <2>3. NewSession(key, m).key = key /\ NewSession(key, m).loginAt = m.at
    BY <1>4, NanosFacts DEF NewSession, IsMutation
  <2>4. \A s \in S : s.key = key => Precedes(s, NewSession(key, m))
    BY <1>4, <2>3 DEF MutationFits, Precedes
  <2> HIDE DEF d
  <2> QED
    BY <1>2, <2>2, <2>3, <2>4 DEF SessionsDisjoint
<1>5. CASE m.kind = "replace_state"
  <2>1. d = PersistReplace(db, m) /\ m.at \in Int
    BY <1>5 DEF PersistMutation, IsMutation
  <2>2. PICK s \in S : TouchEffect(S, d.sessions, m, s)
    BY <1>1, <1>2, <2>1, ReplaceFacts
  <2> DEFINE s2 == [s EXCEPT !.lastEventID = m.eventID]
  <2>3. s2.key = s.key /\ s2.loginAt = s.loginAt /\ s2.logoutAt = s.logoutAt
    BY DEF StoreOK, SessionRow
  <2>4. d.sessions = (S \ {s}) \cup {s2}
    BY <2>2 DEF TouchEffect
  <2> HIDE DEF d, s2
  <2> QED
    BY <1>2, <2>3, <2>4 DEF SessionsDisjoint, Precedes
<1>6. CASE m.kind = "end_session"
  <2>1. d = PersistEnd(db, m) /\ m.at \in Int
    BY <1>6 DEF PersistMutation, IsMutation
  <2>2. PICK s \in S : EndEffect(S, d.sessions, m, s)
    BY <1>1, <1>2, <2>1, EndFacts
  <2> DEFINE s2 == [s EXCEPT !.logoutAt = ToNanos(m.at), !.lastEventID = m.eventID]
  <2>3. s2.key = s.key /\ s2.loginAt = s.loginAt /\ s.logoutAt = NULL
    BY <2>2 DEF StoreOK, SessionRow, EndEffect
  <2>4. d.sessions = (S \ {s}) \cup {s2}
    BY <2>2 DEF EndEffect
  <2> HIDE DEF d, s2
  <2>5. \A o \in S : o # s /\ o.key = s.key => Precedes(o, s)
    BY <2>3 DEF SessionsDisjoint, Precedes
  <2> QED
    BY <1>2, <2>3, <2>4, <2>5 DEF SessionsDisjoint, Precedes
<1> QED
  BY <1>3, <1>4, <1>5, <1>6
=============================================================================
