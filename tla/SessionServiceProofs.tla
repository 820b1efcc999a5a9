------------------------ MODULE SessionServiceProofs ------------------------
(***************************************************************************)
(* What a load, a decision and the transaction that persists it do to any  *)
(* tables S and T that satisfy the repository's constraints: the lemmas    *)
(* the theorems of EventWorkers, EventPipeline and SessionQuery share.     *)
(***************************************************************************)
EXTENDS SessionService, SessionStoreProofs, WellFoundedInduction

(************************* Counting up an interval *************************)

(* A set that contains a, and with i also i + 1, contains the integers     *)
(* from a to b.                                                            *)
LEMMA CountUp ==
  ASSUME NEW a \in Int, NEW b \in Int, NEW X, a \in X,
         \A i \in a..b : i \in X /\ i < b => i + 1 \in X
  PROVE  a..b \subseteq X
<1> SUFFICES ASSUME NEW i \in a..b, i \notin X PROVE FALSE
  OBVIOUS
<1> DEFINE Missing == {d \in Nat : a + d \in a..b /\ a + d \notin X}
<1>1. i - a \in Missing
  OBVIOUS
<1>2. PICK d \in Missing : \A c \in Missing : ~(c < d)
  <2>1. PICK x \in Missing : \A y \in Missing : ~(<<y, x>> \in OpToRel(<, Nat))
    BY <1>1, WFMin, NatLessThanWellFounded
  <2> QED
    BY <2>1 DEF OpToRel
<1>3. d \in Nat /\ a + d \in a..b /\ a + d \notin X /\ d # 0
  BY <1>2
<1>4. d - 1 \in Nat /\ d - 1 \notin Missing
  BY <1>2, <1>3
<1>5. a + (d - 1) \in X
  BY <1>3, <1>4
<1>6. (a + (d - 1)) + 1 = a + d
  BY <1>3
<1> QED
  BY <1>3, <1>4, <1>5, <1>6
-----------------------------------------------------------------------------
Writes == {"start_session", "replace_state", "end_session"}

(* What the first query returns has the type of a snapshot.                *)
LEMMA LoadHistoryType ==
  ASSUME NEW S, NEW T, StoreOK(S, T), NEW k \in Keys
  PROVE  /\ LoadHistory(S, k).snapshot \in Snapshot
         /\ LoadHistory(S, k).err \in {"none", "ErrInvalidInput"}
         /\ LoadHistory(S, k).snapshot.active # NULL =>
              LoadHistory(S, k).snapshot.lastEventAt # NULL
<1> DEFINE rows == SessionsOf(S, k)
           active == {s \in rows : s.logoutAt = NULL}
<1>1. EmptySnapshot \in Snapshot /\ EmptySnapshot.active = NULL
  BY DEF EmptySnapshot, Snapshot
<1>2. rows \subseteq SessionRow
  BY DEF SessionsOf, StoreOK
<1>3. CASE rows = {}
  BY <1>1, <1>3 DEF LoadHistory
<1>4. CASE \E r, s \in active : r # s
  BY <1>1, <1>4 DEF LoadHistory
<1>5. CASE rows # {} /\ ~\E r, s \in active : r # s
  <2>1. PICK a \in S : a.key = k
    BY <1>5 DEF SessionsOf
  <2>2. HasLatest(SessionTimes(rows)) /\ \E l \in S : IsLastSession(l, rows)
    BY <2>1 DEF StoreOK, MaximaExist
  <2>3. IsLastSession(LastSession(rows), rows)
    BY <2>2 DEF LastSession, IsLastSession
  <2>4. LastSession(rows).lastEventID \in EventIDs
    BY <1>2, <2>3 DEF IsLastSession, SessionRow
  <2>5. Latest(SessionTimes(rows)) \in Int
    BY <1>2, <2>2, LatestFacts, TimesAreIntegers
  <2> DEFINE act == IF active = {} THEN NULL ELSE Active(CHOOSE s \in active : TRUE)
  <2>6. act \in ActiveSession \cup {NULL}
    BY <1>2 DEF Active, SessionRow, ActiveSession
  <2>7. LoadHistory(S, k)
          = [err |-> "none",
             snapshot |-> [lastEventAt |-> Latest(SessionTimes(rows)),
                           lastEventID |-> LastSession(rows).lastEventID,
                           active |-> act]]
    BY <1>5 DEF LoadHistory
  <2> HIDE DEF act
  <2> QED
    BY <2>4, <2>5, <2>6, <2>7, StoreAssumption DEF Snapshot
<1> QED
  BY <1>3, <1>4, <1>5

(* So does what the second query makes of it.                              *)
LEMMA LoadActiveStatesType ==
  ASSUME NEW S, NEW T, StoreOK(S, T), NEW sn \in Snapshot, sn.active # NULL,
         sn.lastEventAt # NULL
  PROVE  /\ LoadActiveStates(T, sn).snapshot \in Snapshot
         /\ LoadActiveStates(T, sn).err \in {"none", "ErrInvalidInput"}
<1> DEFINE rows == StatesOf(T, sn.active.id)
           times == {sn.lastEventAt} \cup StateTimes(rows)
<1>1. EmptySnapshot \in Snapshot
  BY DEF EmptySnapshot, Snapshot
<1>2. rows \in SUBSET StateRow
  BY DEF StatesOf, StoreOK
<1>3. CASE rows = {} \/ LastState(rows).validTo # NULL
  BY <1>1, <1>3 DEF LoadActiveStates
<1>4. CASE ~(rows = {} \/ LastState(rows).validTo # NULL)
  <2>1. PICK a \in T : a.sessionID = sn.active.id
    BY <1>4 DEF StatesOf
  <2>2. HasLatest(StateTimes(rows))
    BY <2>1 DEF StoreOK, OpenRowsAgree, MaximaExist
  <2>3. StateTimes(rows) \subseteq Int
    BY <1>2, TimesAreIntegers
  <2>4. HasLatest(times) /\ times \subseteq Int
    <3>1. sn.lastEventAt \in Int
      BY DEF Snapshot
    <3> QED
      BY <2>2, <2>3, <3>1 DEF HasLatest
  <2>5. Latest(times) \in Int
    <3> HIDE DEF times
    <3> QED
      BY <2>4, LatestFacts
  <2>6. LoadActiveStates(T, sn)
          = [err |-> "none",
             snapshot |-> [lastEventAt |-> Latest(times), lastEventID |-> sn.lastEventID,
                           active |-> [sn.active EXCEPT !.states = rows]]]
    BY <1>4 DEF LoadActiveStates
  <2>7. [sn.active EXCEPT !.states = rows]
          \in ActiveSession
    BY <1>2 DEF Snapshot, ActiveSession
  <2> HIDE DEF times, rows
  <2> QED
    BY <2>5, <2>6, <2>7 DEF Snapshot
<1> QED
  BY <1>3, <1>4

(* The decision is an error or a mutation whose fields fit the columns.    *)
LEMMA DecideType ==
  ASSUME NEW sn \in Snapshot, NEW e \in Events, NEW newID,
         e.type = "LOGIN" => newID \in SessionIDs
  PROVE  LET m == Decide(sn, e, newID) IN
         /\ m.kind \in DomainErrors \cup Writes \cup {"duplicate_event"}
         /\ m.kind \in Writes => IsMutation(m)
<1>1. /\ e.type \in EventTypes /\ e.eventID \in EventIDs /\ e.key \in Keys
      /\ e.tags \in TagSets \cup {{}} /\ e.at \in Int
  BY ServiceAssumption DEF Events
<1>2. PrepareTransition(sn, e) \in {"duplicate", "ok"} \cup DomainErrors
  BY DEF PrepareTransition, DomainErrors
<1>3. CurrentState(sn) \in {"ok"} \cup DomainErrors
      /\ (CurrentState(sn) = "ok" => sn.active.id \in SessionIDs)
  BY DEF CurrentState, DomainErrors, Snapshot, ActiveSession
<1>4. ASSUME e.type = "LOGIN"
      PROVE  LET m == DecideLogin(sn, e, newID) IN
             /\ m.kind \in DomainErrors \cup Writes
             /\ m.kind \in Writes => IsMutation(m)
  BY <1>1, <1>4 DEF DecideLogin, Rejected, Mutation, DomainErrors, Writes, IsMutation
<1>5. LET m == DecideUpdate(sn, e) IN
      /\ m.kind \in DomainErrors \cup Writes
      /\ m.kind \in Writes => IsMutation(m)
  BY <1>1, <1>3 DEF DecideUpdate, Rejected, Mutation, DomainErrors, Writes, IsMutation
<1>6. LET m == DecideLogout(sn, e) IN
      /\ m.kind \in DomainErrors \cup Writes
      /\ m.kind \in Writes => IsMutation(m)
  BY <1>1, <1>3 DEF DecideLogout, Rejected, Mutation, DomainErrors, Writes, IsMutation
<1>7. CASE PrepareTransition(sn, e) = "duplicate"
  BY <1>7 DEF Decide, DuplicateEvent, Mutation, Writes
<1>8. CASE PrepareTransition(sn, e) \in DomainErrors
  BY <1>8 DEF Decide, Rejected, DomainErrors, Writes
<1>9. CASE PrepareTransition(sn, e) = "ok"
  BY <1>1, <1>4, <1>5, <1>6, <1>9 DEF Decide, EventTypes, DomainErrors
<1> QED
  BY <1>2, <1>7, <1>8, <1>9
(************************ What a snapshot tells ****************************)

(* The snapshot of a key with the facts decisions rest on: its active      *)
(* session is the open one of the key, and no stored time is later than    *)
(* LastEventAt.                                                            *)
HistoryKnown(S, k, sn) ==
  /\ sn.active = NULL => \A s \in S : s.key = k => s.logoutAt # NULL
  /\ sn.active # NULL =>
       \E s \in S : s.key = k /\ s.id = sn.active.id /\ s.logoutAt = NULL
  /\ \A s \in S : s.key = k =>
       /\ sn.lastEventAt \in Int
       /\ s.loginAt <= sn.lastEventAt
       /\ s.logoutAt # NULL => s.logoutAt <= sn.lastEventAt

LEMMA HistoryFacts ==
  ASSUME NEW S, NEW T, StoreOK(S, T), NEW k, NEW sn,
         LoadHistory(S, k) = Loaded(sn)
  PROVE  HistoryKnown(S, k, sn)
<1> DEFINE rows == SessionsOf(S, k)
           active == {s \in rows : s.logoutAt = NULL}
<1>1. rows \subseteq SessionRow
  BY DEF SessionsOf, StoreOK
<1>2. CASE rows = {}
  <2>1. sn = EmptySnapshot
    BY <1>2 DEF LoadHistory, Loaded
  <2> QED
    BY <1>2, <2>1 DEF EmptySnapshot, HistoryKnown, SessionsOf
<1>3. CASE rows # {}
  <2>1. ~\E r, s \in active : r # s
    BY <1>3 DEF LoadHistory, Loaded
  <2> DEFINE act == IF active = {} THEN NULL ELSE Active(CHOOSE s \in active : TRUE)
  <2>2. sn.lastEventAt = Latest(SessionTimes(rows)) /\ sn.active = act
    BY <1>3, <2>1 DEF LoadHistory, Loaded
  <2>3. PICK a \in S : a.key = k
    BY <1>3 DEF SessionsOf
  <2>4. HasLatest(SessionTimes(rows))
    BY <2>3 DEF StoreOK, MaximaExist
  <2>5. SessionTimes(rows) \subseteq Int
    BY <1>1, TimesAreIntegers
  <2>6. /\ sn.lastEventAt \in Int
        /\ \A u \in SessionTimes(rows) : u <= sn.lastEventAt
    <3> HIDE DEF rows
    <3> QED
      BY <2>2, <2>4, <2>5, LatestFacts
  <2>7. \A s \in rows : /\ s.loginAt <= sn.lastEventAt
                        /\ s.logoutAt # NULL => s.logoutAt <= sn.lastEventAt
    BY <2>6 DEF SessionTimes, NonNull
  <2> DEFINE o == CHOOSE s \in active : TRUE
  <2>8. active # {} => /\ o \in active
                       /\ Active(o) # NULL /\ Active(o).id = o.id
    <3>1. active # {} => o \in active
      OBVIOUS
    <3> HIDE DEF o
    <3>2. o \in active => Active(o) \in ActiveSession /\ Active(o).id = o.id
      BY <1>1 DEF Active, ActiveSession, SessionRow
    <3> QED
      BY <3>1, <3>2, StoreAssumption
  <2>9. sn.active = IF active = {} THEN NULL ELSE Active(o)
    BY <2>2
  <2> HIDE DEF o
  <2>10. /\ sn.active = NULL => active = {}
         /\ sn.active # NULL => \E s \in active : s.id = sn.active.id
    BY <2>8, <2>9
  <2> QED
    BY <2>6, <2>7, <2>10 DEF HistoryKnown, SessionsOf
<1> QED
  BY <1>2, <1>3

(* The open state of a session is the last one by ValidFrom and row id, so *)
(* loading a key's history never fails.                                    *)
LEMMA LastStateIsOpen ==
  ASSUME NEW S, NEW T, StoreOK(S, T), NEW s \in S, s.logoutAt = NULL
  PROVE  StatesOf(T, s.id) # {} /\ LastState(StatesOf(T, s.id)).validTo = NULL
<1> DEFINE rows == StatesOf(T, s.id)
<1>1. PICK r \in rows : r.validTo = NULL
  BY DEF StoreOK, OpenRowsAgree
<1>2. \A q \in rows : q.validFrom \in Int /\ q.id \in Int
                      /\ (q.validTo # NULL => q.validTo \in Int)
  BY DEF StatesOf, StoreOK, StateRow
<1>3. \A q \in rows : q # r => /\ q.id < r.id /\ q.validTo # NULL
                               /\ q.validFrom <= q.validTo /\ q.validTo <= r.validFrom
  BY <1>1 DEF StatesOf, StoreOK, OpenStateIsLast
<1>4. \A q \in rows : q # r => q.validFrom <= r.validFrom /\ q.id < r.id
  BY <1>1, <1>2, <1>3
<1>5. IsLastState(r, rows)
  BY <1>1, <1>2, <1>4 DEF IsLastState
<1>6. \A q \in rows : IsLastState(q, rows) => q = r
  BY <1>1, <1>2, <1>4 DEF IsLastState
<1> HIDE DEF rows
<1>7. LastState(rows) \in rows /\ IsLastState(LastState(rows), rows)
  BY <1>1, <1>5 DEF LastState
<1>8. LastState(rows) = r
  BY <1>6, <1>7
<1> QED
  BY <1>1, <1>8 DEF rows

LEMMA LoadSucceeds ==
  ASSUME NEW S, NEW T, StoreOK(S, T), NEW k \in Keys
  PROVE  LoadHistory(S, k).err = "none" /\ LoadCurrent(S, T, k).err = "none"
<1> DEFINE h == LoadHistory(S, k)
<1>1. h.err = "none"
  BY DEF StoreOK, RowsAreUnique, LoadHistory, SessionsOf
<1>2. h = Loaded(h.snapshot)
  BY <1>1 DEF LoadHistory, Loaded
<1>3. CASE h.snapshot.active = NULL
  BY <1>1, <1>3 DEF LoadCurrent
<1>4. CASE h.snapshot.active # NULL
  <2>1. PICK s \in S : s.id = h.snapshot.active.id /\ s.logoutAt = NULL
    BY <1>2, <1>4, HistoryFacts DEF HistoryKnown
  <2>2. LoadCurrent(S, T, k) = LoadActiveStates(T, h.snapshot)
    BY <1>1, <1>4 DEF LoadCurrent
  <2>3. /\ StatesOf(T, h.snapshot.active.id) # {}
        /\ LastState(StatesOf(T, h.snapshot.active.id)).validTo = NULL
    BY <2>1, LastStateIsOpen
  <2> HIDE DEF h
  <2> QED
    BY <1>1, <2>2, <2>3 DEF LoadActiveStates, h
<1> QED
  BY <1>1, <1>3, <1>4

(* What a complete load tells.                                             *)
LEMMA FreshFacts ==
  ASSUME NEW S, NEW T, StoreOK(S, T), NEW k \in Keys, NEW sn, LoadCurrent(S, T, k) = Loaded(sn)
  PROVE  /\ HistoryKnown(S, k, sn)
         /\ sn.active # NULL => /\ sn.lastEventAt \in Int
                                /\ \A r \in StatesOf(T, sn.active.id) :
                                     r.validFrom <= sn.lastEventAt
<1> DEFINE h == LoadHistory(S, k)
           hs == h.snapshot
<1>1. h.err = "none" /\ h = Loaded(hs)
  BY LoadSucceeds DEF LoadHistory, Loaded
<1>2. HistoryKnown(S, k, hs)
  BY <1>1, HistoryFacts
<1>3. hs \in Snapshot /\ (hs.active # NULL => hs.lastEventAt # NULL)
  BY LoadHistoryType
<1>4. CASE hs.active = NULL
  <2>1. sn = hs
    BY <1>1, <1>4 DEF LoadCurrent, Loaded
  <2> QED
    BY <1>2, <1>4, <2>1
<1>5. CASE hs.active # NULL
  <2> DEFINE rows == StatesOf(T, hs.active.id)
             times == {hs.lastEventAt} \cup StateTimes(rows)
  <2>1. PICK s \in S : s.key = k /\ s.id = hs.active.id /\ s.logoutAt = NULL
    BY <1>2, <1>5 DEF HistoryKnown
  <2>2. ~(rows = {} \/ LastState(rows).validTo # NULL)
    BY <2>1, LastStateIsOpen
  <2>3. sn = [lastEventAt |-> Latest(times), lastEventID |-> hs.lastEventID,
              active |-> [hs.active EXCEPT !.states = rows]]
    BY <1>1, <1>5, <2>2 DEF LoadCurrent, LoadActiveStates, Loaded
  <2>4. hs.lastEventAt \in Int /\ hs.active \in ActiveSession
    BY <1>3, <1>5 DEF Snapshot
  <2>5. rows \in SUBSET StateRow
    BY DEF StoreOK, StatesOf
  <2>6. StateTimes(rows) \subseteq Int /\ HasLatest(StateTimes(rows))
    BY <2>1, <2>5, TimesAreIntegers DEF StoreOK, MaximaExist
  <2>7. HasLatest(times) /\ times \subseteq Int
    BY <2>4, <2>6 DEF HasLatest
  <2>8. Latest(times) \in Int /\ \A u \in times : u <= Latest(times)
    <3> HIDE DEF times
    <3> QED
      BY <2>7, LatestFacts
  <2>9. sn.active # NULL /\ sn.active.id = hs.active.id
    <3>1. [hs.active EXCEPT !.states = rows] \in ActiveSession
      BY <2>4, <2>5 DEF ActiveSession
    <3>2. [hs.active EXCEPT !.states = rows].id = hs.active.id
      BY <2>4 DEF ActiveSession
    <3> QED
      BY <2>3, <3>1, <3>2, StoreAssumption
  <2>10. sn.lastEventAt = Latest(times)
    BY <2>3
  <2>11. \A r \in rows : r.validFrom \in times
    BY DEF StateTimes
  <2>12. hs.lastEventAt <= sn.lastEventAt
    BY <2>8, <2>10
  <2>13. \A q \in S : q.key = k =>
           /\ q.loginAt <= sn.lastEventAt
           /\ q.logoutAt # NULL => q.logoutAt <= sn.lastEventAt
    <3> SUFFICES ASSUME NEW q \in S, q.key = k
                 PROVE  /\ q.loginAt <= sn.lastEventAt
                        /\ q.logoutAt # NULL => q.logoutAt <= sn.lastEventAt
      OBVIOUS
    <3>1. q.loginAt \in Int /\ (q.logoutAt # NULL => q.logoutAt \in Int)
      BY DEF StoreOK, SessionRow
    <3>2. q.loginAt <= hs.lastEventAt /\ (q.logoutAt # NULL => q.logoutAt <= hs.lastEventAt)
      BY <1>2 DEF HistoryKnown
    <3>3. sn.lastEventAt \in Int
      BY <2>8, <2>10
    <3> QED
      BY <2>4, <2>12, <3>1, <3>2, <3>3
  <2> HIDE DEF times, rows
  <2> QED
    BY <2>1, <2>8, <2>9, <2>10, <2>11, <2>13 DEF HistoryKnown, rows
<1> QED
  BY <1>4, <1>5

(* What a decision to write says about the snapshot it was made on.        *)
LEMMA DecideFacts ==
  ASSUME NEW sn, NEW e, e.type \in EventTypes, NEW newID
  PROVE  LET m == Decide(sn, e, newID) IN
         /\ m.kind \in Writes =>
              m.at = e.at /\ (sn.lastEventAt # NULL => ~(e.at < sn.lastEventAt))
         /\ m.kind = "start_session" =>
              e.type = "LOGIN" /\ sn.active = NULL /\ m.sessionID = newID
         /\ m.kind \in {"replace_state", "end_session"} =>
              sn.active # NULL /\ m.sessionID = sn.active.id
<1>1. CASE PrepareTransition(sn, e) # "ok"
  BY <1>1 DEF Decide, DuplicateEvent, Mutation, Rejected, PrepareTransition, Writes
<1>2. CASE PrepareTransition(sn, e) = "ok"
  <2>1. sn.lastEventAt # NULL => ~(e.at < sn.lastEventAt)
    BY <1>2 DEF PrepareTransition
  <2>2. CASE e.type = "LOGIN"
    <3>1. Decide(sn, e, newID) = DecideLogin(sn, e, newID)
      BY <1>2, <2>2 DEF Decide
    <3> QED
      BY <2>1, <2>2, <3>1 DEF DecideLogin, Rejected, Mutation, Writes
  <2>3. CASE e.type = "UPDATE"
    <3>1. Decide(sn, e, newID) = DecideUpdate(sn, e)
      BY <1>2, <2>3 DEF Decide
    <3> QED
      BY <2>1, <3>1 DEF DecideUpdate, CurrentState, Rejected, Mutation, Writes
  <2>4. CASE e.type = "LOGOUT"
    <3>1. Decide(sn, e, newID) = DecideLogout(sn, e)
      BY <1>2, <2>4 DEF Decide
    <3> QED
      BY <2>1, <3>1 DEF DecideLogout, CurrentState, Rejected, Mutation, Writes
  <2> QED
    BY <2>2, <2>3, <2>4 DEF EventTypes
<1> QED
  BY <1>1, <1>2

(* A mutation decided on a current snapshot fits the tables.               *)
LEMMA DecisionFits ==
  ASSUME NEW S, NEW T, StoreOK(S, T), NEW e \in Events,
         NEW sn \in Snapshot, LoadCurrent(S, T, e.key) = Loaded(sn),
         NEW newID \in NewSessionIDs(S, e), Decide(sn, e, newID).kind \notin DomainErrors
  PROVE  LET m == Decide(sn, e, newID) IN
         /\ e.key \in Keys
         /\ m.kind \in {"start_session", "replace_state", "end_session", "duplicate_event"}
         /\ m.kind # "duplicate_event" => IsMutation(m) /\ m.at = e.at
         /\ MutationFits(S, T, e.key, m)
<1> DEFINE m == Decide(sn, e, newID)
<1>2. e.key \in Keys /\ e.at \in Times /\ e.type \in EventTypes
  BY DEF Events
<1>3. e.type = "LOGIN" => newID \in SessionIDs /\ \A s \in S : s.id # newID
  BY DEF NewSessionIDs
<1>4. /\ m.kind \in DomainErrors \cup Writes \cup {"duplicate_event"}
      /\ m.kind \in Writes => IsMutation(m)
  BY <1>3, DecideType
<1>5. /\ m.kind \in Writes =>
           m.at = e.at /\ (sn.lastEventAt # NULL => ~(e.at < sn.lastEventAt))
      /\ m.kind = "start_session" =>
           e.type = "LOGIN" /\ sn.active = NULL /\ m.sessionID = newID
      /\ m.kind \in {"replace_state", "end_session"} =>
           sn.active # NULL /\ m.sessionID = sn.active.id
  BY <1>2, DecideFacts
<1> DEFINE k == e.key
<1>6. /\ HistoryKnown(S, k, sn)
      /\ sn.active # NULL => /\ sn.lastEventAt \in Int
                             /\ \A r \in StatesOf(T, sn.active.id) :
                                  r.validFrom <= sn.lastEventAt
  BY <1>2, FreshFacts
<1>7. m.kind \in Writes \cup {"duplicate_event"}
  BY <1>4
<1>8. e.at \in Int
  BY <1>2, ServiceAssumption
<1> HIDE DEF m
<1>9. ASSUME m.kind \in Writes, sn.lastEventAt \in Int PROVE sn.lastEventAt <= m.at
  BY <1>5, <1>8, <1>9, StoreAssumption
<1>10. ASSUME m.kind = "start_session"
       PROVE  /\ \A s \in S : s.id # m.sessionID
              /\ \A s \in S : s.key = k => s.logoutAt # NULL /\ s.logoutAt <= m.at
  <2>1. \A s \in S : s.id # m.sessionID
    BY <1>3, <1>5, <1>10
  <2>2. ASSUME NEW s \in S, s.key = k
        PROVE  s.logoutAt # NULL /\ s.logoutAt <= m.at
    <3>1. s.logoutAt # NULL /\ s.logoutAt <= sn.lastEventAt /\ sn.lastEventAt \in Int
      BY <1>5, <1>6, <1>10, <2>2 DEF HistoryKnown
    <3>2. sn.lastEventAt <= m.at /\ m.at \in Int
      BY <1>5, <1>8, <1>9, <1>10, <3>1 DEF Writes
    <3>3. s.logoutAt \in Int
      BY <3>1 DEF StoreOK, SessionRow
    <3> QED
      BY <3>1, <3>2, <3>3
  <2> QED
    BY <2>1, <2>2
<1>11. ASSUME m.kind \in {"replace_state", "end_session"}
       PROVE  \E s \in S :
                /\ s.id = m.sessionID /\ s.key = k /\ s.logoutAt = NULL
                /\ s.loginAt <= m.at
                /\ \A r \in StatesOf(T, s.id) : r.validFrom <= m.at
  <2>1. PICK s \in S : s.key = k /\ s.id = sn.active.id /\ s.logoutAt = NULL
    BY <1>5, <1>6, <1>11 DEF HistoryKnown
  <2>2. sn.lastEventAt \in Int /\ sn.lastEventAt <= m.at /\ m.at \in Int
    BY <1>5, <1>6, <1>8, <1>9, <1>11 DEF Writes
  <2>3. s.loginAt <= sn.lastEventAt /\ s.loginAt \in Int
    BY <1>6, <2>1 DEF HistoryKnown, StoreOK, SessionRow
  <2>4. \A r \in StatesOf(T, s.id) : r.validFrom \in Int /\ r.validFrom <= sn.lastEventAt
    BY <1>5, <1>6, <1>11, <2>1 DEF StatesOf, StoreOK, StateRow
  <2>5. s.loginAt <= m.at /\ \A r \in StatesOf(T, s.id) : r.validFrom <= m.at
    BY <2>2, <2>3, <2>4
  <2> QED
    BY <1>5, <1>11, <2>1, <2>5
<1>12. MutationFits(S, T, k, m)
  BY <1>10, <1>11 DEF MutationFits
<1>13. m.kind # "duplicate_event" => IsMutation(m) /\ m.at = e.at
  BY <1>4, <1>5, <1>7, <1>8
<1> QED
  BY <1>2, <1>7, <1>12, <1>13 DEF Writes, m

(* What a key loads depends on no row of another key.                      *)
LEMMA LoadFrame ==
  ASSUME NEW S, NEW T, StoreOK(S, T), NEW S2, NEW T2, NEW key, NEW k \in Keys, k # key,
         OnlyKey(S, T, S2, T2, key)
  PROVE  LoadHistory(S2, k) = LoadHistory(S, k) /\ LoadCurrent(S2, T2, k) = LoadCurrent(S, T, k)
<1> DEFINE h == LoadHistory(S, k)
<1>1. SessionsOf(S2, k) = SessionsOf(S, k)
  BY DEF OnlyKey
<1>2. LoadHistory(S2, k) = h
  BY <1>1 DEF LoadHistory
<1>3. h.err = "none" /\ h = Loaded(h.snapshot)
  BY LoadSucceeds DEF LoadHistory, Loaded
<1>4. CASE h.snapshot.active = NULL
  BY <1>2, <1>4 DEF LoadCurrent
<1>5. CASE h.snapshot.active # NULL
  <2>1. PICK s \in S : s.key = k /\ s.id = h.snapshot.active.id
    BY <1>3, <1>5, HistoryFacts DEF HistoryKnown
  <2>2. StatesOf(T2, h.snapshot.active.id) = StatesOf(T, h.snapshot.active.id)
    BY <2>1 DEF OnlyKey
  <2> HIDE DEF h
  <2>3. LoadActiveStates(T2, h.snapshot) = LoadActiveStates(T, h.snapshot)
    BY <2>2 DEF LoadActiveStates
  <2> QED
    BY <1>2, <1>3, <1>5, <2>3 DEF LoadCurrent, h
<1> QED
  BY <1>2, <1>4, <1>5
-----------------------------------------------------------------------------
(************************ What a transaction does *************************)

(* The three ways in which a transaction changes the tables S and T: a     *)
(* session n begins with the state w; in an open session s the open state  *)
(* r gives way to w; s ends, and r with it.                                *)
Starts(S, T, S2, T2, n, w) ==
  /\ n \in SessionRow /\ w \in StateRow
  /\ n.logoutAt = NULL
  /\ \A s \in S : s.id # n.id /\ ~(s.key = n.key /\ s.logoutAt = NULL)
  /\ w.sessionID = n.id /\ w.validFrom = n.loginAt /\ w.validTo = NULL
  /\ \A q \in T : q.id < w.id
  /\ S2 = S \cup {n}
  /\ T2 = T \cup {w}

Replaces(S, T, S2, T2, s, s2, r, w) ==
  /\ s \in S /\ r \in T /\ s2 \in SessionRow /\ w \in StateRow
  /\ s.logoutAt = NULL /\ s2 = [s EXCEPT !.lastEventID = s2.lastEventID]
  /\ r.sessionID = s.id /\ r.validTo = NULL /\ r.validFrom <= w.validFrom
  /\ w.sessionID = s.id /\ w.validTo = NULL
  /\ \A q \in T : q.id < w.id
  /\ S2 = (S \ {s}) \cup {s2}
  /\ T2 = (T \ {r}) \cup {Closed(r, w.validFrom), w}

Ends(S, T, S2, T2, s, s2, r) ==
  /\ s \in S /\ r \in T /\ s2 \in SessionRow
  /\ s.logoutAt = NULL /\ s2.logoutAt \in Int
  /\ s2 = [s EXCEPT !.logoutAt = s2.logoutAt, !.lastEventID = s2.lastEventID]
  /\ r.sessionID = s.id /\ r.validTo = NULL
  /\ s.loginAt <= s2.logoutAt /\ r.validFrom <= s2.logoutAt
  /\ S2 = (S \ {s}) \cup {s2}
  /\ T2 = (T \ {r}) \cup {Closed(r, s2.logoutAt)}

(* What ApplyMutation, returning err, does for a mutation m of a key.       *)
Effect(S, T, S2, T2, err, key, m) ==
  \/ S2 = S /\ T2 = T /\ (err = "none" => m.kind = "duplicate_event")
  \/ /\ m.kind = "start_session"
     /\ \E n, w : /\ Starts(S, T, S2, T2, n, w)
                  /\ n = NewSession(key, m) /\ w.tags = m.tags
  \/ /\ m.kind = "replace_state"
     /\ \E s, s2, r, w :
          /\ Replaces(S, T, S2, T2, s, s2, r, w)
          /\ s.id = m.sessionID /\ s2.lastEventID = m.eventID
          /\ w.validFrom = ToNanos(m.at) /\ w.tags = m.tags
  \/ /\ m.kind = "end_session"
     /\ \E s, s2, r :
          /\ Ends(S, T, S2, T2, s, s2, r)
          /\ s.id = m.sessionID /\ s2.lastEventID = m.eventID
          /\ s2.logoutAt = ToNanos(m.at)

(* Of a session and its state that agree, the state is open only if the    *)
(* session is.                                                             *)
LEMMA OpenOwner ==
  ASSUME NEW S, NEW T, StoreOK(S, T), NEW s \in S, NEW r \in T,
         r.sessionID = s.id, r.validTo = NULL
  PROVE  s.logoutAt = NULL
<1>1. PICK o \in S : o.id = r.sessionID /\ o.logoutAt = NULL
  BY DEF StoreOK, OpenRowsAgree
<1>2. o = s
  BY <1>1 DEF StoreOK, RowsAreUnique
<1> QED
  BY <1>1, <1>2

LEMMA ApplyEffects ==
  ASSUME NEW S, NEW T, StoreOK(S, T), NEW key \in Keys, NEW m,
         m.kind \in Writes => IsMutation(m),
         m.kind \in Writes \cup {"duplicate_event"}
  PROVE  LET d == ApplyMutation(S, T, key, m) IN
         Effect(S, T, d.sessions, d.states, d.err, key, m)
<1> DEFINE db == [err |-> "none", sessions |-> S, states |-> T]
           d == PersistMutation(db, key, m)
           t == ToNanos(m.at)
<1>1. db \in Transaction /\ db.err = "none"
  <2>1. S \in SUBSET SessionRow /\ T \in SUBSET StateRow
    BY DEF StoreOK
  <2> QED
    BY <2>1 DEF Transaction
<1>2. ApplyMutation(S, T, key, m) = IF d.err = "none" THEN d ELSE Fail(db, d.err)
  BY DEF ApplyMutation
<1>3. CASE d.err # "none"
  BY <1>2, <1>3 DEF Fail, Effect
<1>4. CASE d.err = "none"
  <2>0. ApplyMutation(S, T, key, m) = d
    BY <1>2, <1>4
  <2>1. CASE m.kind = "duplicate_event"
    BY <2>0, <2>1 DEF PersistMutation, Effect
  <2>2. CASE m.kind = "start_session"
    <3>1. d = PersistStart(db, key, m) /\ IsMutation(m)
      BY <2>2 DEF PersistMutation, Writes
    <3>2. StartEffect(S, T, d.sessions, d.states, key, m)
      BY <1>1, <1>4, <3>1, StartFacts
    <3> DEFINE n == NewSession(key, m)
               w == NewState(T, m)
    <3>3. n \in SessionRow /\ w \in StateRow /\ \A q \in T : q.id < w.id
      BY <3>1, NewRowFacts DEF StoreOK, MaximaExist
    <3>4. /\ n.id = m.sessionID /\ n.key = key /\ n.logoutAt = NULL /\ n.loginAt = t
          /\ w.sessionID = m.sessionID /\ w.validFrom = t /\ w.validTo = NULL
          /\ w.tags = m.tags
      BY DEF NewSession, NewState
    <3>5. d.sessions = S \cup {n} /\ d.states = T \cup {w}
      BY <3>2 DEF StartEffect
    <3>6. \A s \in S : s.id # m.sessionID /\ ~(s.key = key /\ s.logoutAt = NULL)
      BY <3>2 DEF StartEffect
    <3> HIDE DEF n, w, d
    <3>7. Starts(S, T, d.sessions, d.states, n, w)
      BY <3>3, <3>4, <3>5, <3>6 DEF Starts
    <3> QED
      BY <2>0, <2>2, <3>4, <3>7 DEF Effect, n
  <2>3. CASE m.kind = "replace_state"
    <3>1. d = PersistReplace(db, m) /\ IsMutation(m)
      BY <2>3 DEF PersistMutation, Writes
    <3>2. m.at \in Int /\ t \in Int
      BY <3>1, NanosFacts DEF IsMutation
    <3>3. PICK r \in T, s \in S, C \in {CloseCurrentState(db, m).states} :
            /\ CloseEffect(T, C, m, r)
            /\ d.states = C \cup {NewState(C, m)}
            /\ TouchEffect(S, d.sessions, m, s)
      BY <1>1, <1>4, <3>1, <3>2, ReplaceFacts
    <3> DEFINE w == NewState(C, m)
               s2 == [s EXCEPT !.lastEventID = m.eventID]
    <3>4. C = (T \ {r}) \cup {Closed(r, t)}
      BY <3>3 DEF CloseEffect
    <3>5. /\ r.sessionID = s.id /\ r.validTo = NULL /\ r.validFrom <= t
          /\ s.id = m.sessionID /\ d.sessions = (S \ {s}) \cup {s2}
      BY <3>3 DEF CloseEffect, TouchEffect
    <3>6. s2 \in SessionRow /\ s2.lastEventID = m.eventID
      BY <3>1 DEF StoreOK, SessionRow, IsMutation
    <3>7. s.logoutAt = NULL
      BY <3>5, OpenOwner
    <3>8. T \subseteq StateRow /\ Closed(r, t) \in StateRow /\ Closed(r, t).id = r.id
      BY <3>2 DEF StoreOK, StateRow, Closed
    <3>9. C \in SUBSET StateRow /\ {q.id : q \in C} = {q.id : q \in T}
      <4> HIDE DEF t
      <4> QED
        BY <3>4, <3>8
    <3>10. w \in StateRow /\ \A q \in C : q.id < w.id
      <4>1. HasLatest({q.id : q \in C})
        BY <3>9 DEF StoreOK, MaximaExist
      <4> QED
        BY <3>1, <3>9, <4>1, NewRowFacts
    <3>11. \A q \in T : q.id < w.id
      BY <3>9, <3>10
    <3>12. /\ w.validTo = NULL /\ w.validFrom = t /\ w.sessionID = s.id /\ w.tags = m.tags
      BY <3>5 DEF NewState
    <3>13. d.states = (T \ {r}) \cup {Closed(r, t), w}
      BY <3>3, <3>4
    <3>14. s2 = [s EXCEPT !.lastEventID = s2.lastEventID]
      BY <3>6
    <3> HIDE DEF w, s2, d, t
    <3>15. Replaces(S, T, d.sessions, d.states, s, s2, r, w)
      BY <3>5, <3>6, <3>7, <3>10, <3>11, <3>12, <3>13, <3>14 DEF Replaces
    <3> QED
      BY <2>0, <2>3, <3>5, <3>6, <3>12, <3>15 DEF Effect, t
  <2>4. CASE m.kind = "end_session"
    <3>1. d = PersistEnd(db, m) /\ IsMutation(m)
      BY <2>4 DEF PersistMutation, Writes
    <3>2. m.at \in Int /\ t \in Int
      BY <3>1, NanosFacts DEF IsMutation
    <3>3. PICK r \in T, s \in S :
            CloseEffect(T, d.states, m, r) /\ EndEffect(S, d.sessions, m, s)
      BY <1>1, <1>4, <3>1, <3>2, EndFacts
    <3> DEFINE s2 == [s EXCEPT !.logoutAt = t, !.lastEventID = m.eventID]
    <3>4. s2 \in SessionRow /\ s2.logoutAt = t /\ s2.lastEventID = m.eventID
      BY <3>1, <3>2 DEF StoreOK, SessionRow, IsMutation
    <3>5. /\ r.sessionID = s.id /\ r.validTo = NULL /\ r.validFrom <= t
          /\ s.id = m.sessionID /\ s.logoutAt = NULL /\ s.loginAt <= t
          /\ d.sessions = (S \ {s}) \cup {s2} /\ d.states = (T \ {r}) \cup {Closed(r, t)}
      BY <3>3 DEF CloseEffect, EndEffect
    <3>6. s2 = [s EXCEPT !.logoutAt = s2.logoutAt, !.lastEventID = s2.lastEventID]
      BY <3>4
    <3> HIDE DEF s2, d, t
    <3>7. Ends(S, T, d.sessions, d.states, s, s2, r)
      BY <3>2, <3>4, <3>5, <3>6 DEF Ends
    <3> QED
      BY <2>0, <2>4, <3>4, <3>5, <3>7 DEF Effect, t
  <2> QED
    BY <2>1, <2>2, <2>3, <2>4 DEF Writes
<1> QED
  BY <1>3, <1>4

(* Whatever a step is, it leaves the tables alone or has such an effect.   *)
Changes(S, T, S2, T2) ==
  \/ \E n, w : Starts(S, T, S2, T2, n, w)
  \/ \E s, s2, r, w : Replaces(S, T, S2, T2, s, s2, r, w)
  \/ \E s, s2, r : Ends(S, T, S2, T2, s, s2, r)

(* Which states a session has after a change.                              *)
LEMMA StartStates ==
  ASSUME NEW S, NEW T, StoreOK(S, T), NEW S2, NEW T2, NEW n, NEW w,
         Starts(S, T, S2, T2, n, w)
  PROVE  /\ StatesOf(T2, n.id) = {w}
         /\ \A s \in S : StatesOf(T2, s.id) = StatesOf(T, s.id)
<1>1. \A q \in T : q.sessionID # n.id
  BY DEF StoreOK, OpenRowsAgree, Starts
<1> QED
  BY <1>1 DEF Starts, StatesOf

LEMMA ReplaceStates ==
  ASSUME NEW S, NEW T, StoreOK(S, T), NEW S2, NEW T2, NEW s, NEW s2, NEW r, NEW w,
         Replaces(S, T, S2, T2, s, s2, r, w)
  PROVE  /\ StatesOf(T2, s.id) = (StatesOf(T, s.id) \ {r}) \cup {Closed(r, w.validFrom)} \cup {w}
         /\ \A o \in S : o # s => StatesOf(T2, o.id) = StatesOf(T, o.id)
<1>1. Closed(r, w.validFrom).sessionID = s.id
  BY DEF Replaces, Closed, StoreOK, StateRow
<1>2. \A o \in S : o # s => o.id # s.id
  BY DEF Replaces, StoreOK, RowsAreUnique
<1> QED
  BY <1>1, <1>2 DEF Replaces, StatesOf

LEMMA EndStates ==
  ASSUME NEW S, NEW T, StoreOK(S, T), NEW S2, NEW T2, NEW s, NEW s2, NEW r,
         Ends(S, T, S2, T2, s, s2, r)
  PROVE  /\ StatesOf(T2, s.id) = (StatesOf(T, s.id) \ {r}) \cup {Closed(r, s2.logoutAt)}
         /\ \A o \in S : o # s => StatesOf(T2, o.id) = StatesOf(T, o.id)
<1>1. Closed(r, s2.logoutAt).sessionID = s.id
  BY DEF Ends, Closed, StoreOK, StateRow
<1>2. \A o \in S : o # s => o.id # s.id
  BY DEF Ends, StoreOK, RowsAreUnique
<1> QED
  BY <1>1, <1>2 DEF Ends, StatesOf
-----------------------------------------------------------------------------
(************************* Times run forward *******************************)

(* A session ends after it begins, a state likewise, and no state outlasts *)
(* its session.                                                            *)
SpansOK(S, T) ==
  /\ \A s \in S : s.logoutAt # NULL => s.loginAt <= s.logoutAt
  /\ \A r \in T : r.validTo # NULL => r.validFrom <= r.validTo
  /\ \A s \in S, r \in T :
       r.sessionID = s.id /\ s.logoutAt # NULL => r.validTo # NULL /\ r.validTo <= s.logoutAt

LEMMA SpansStart ==
  ASSUME NEW S, NEW T, StoreOK(S, T), SpansOK(S, T), NEW S2, NEW T2, NEW n, NEW w,
         Starts(S, T, S2, T2, n, w)
  PROVE  SpansOK(S2, T2)
<1>1. \A r \in T : r.sessionID # n.id
  BY DEF StoreOK, OpenRowsAgree, Starts
<1>2. \A s \in S : s.id # n.id
  BY DEF Starts
<1> QED
  BY <1>1, <1>2 DEF Starts, SpansOK

LEMMA SpansReplace ==
  ASSUME NEW S, NEW T, StoreOK(S, T), SpansOK(S, T), NEW S2, NEW T2,
         NEW s, NEW s2, NEW r, NEW w, Replaces(S, T, S2, T2, s, s2, r, w)
  PROVE  SpansOK(S2, T2)
<1> DEFINE c == Closed(r, w.validFrom)
<1>1. /\ c.validFrom = r.validFrom /\ c.validTo = w.validFrom /\ c.sessionID = s.id
      /\ s2.id = s.id /\ s2.logoutAt = NULL
  BY DEF Replaces, Closed, StoreOK, StateRow, SessionRow
<1>2. r.validFrom <= w.validFrom /\ w.validTo = NULL /\ w.sessionID = s.id /\ s \in S
      /\ S2 = (S \ {s}) \cup {s2} /\ T2 = (T \ {r}) \cup {c, w}
  BY DEF Replaces
<1>3. \A o \in S : o # s => o.id # s.id
  BY <1>2 DEF StoreOK, RowsAreUnique
<1> HIDE DEF c
<1>4. \A o \in S2 : o.logoutAt # NULL => o \in S /\ o.id # s.id
  BY <1>1, <1>2, <1>3
<1>5. \A q \in T2 : q \in T \/ q = c \/ q = w
  BY <1>2
<1> QED
  BY <1>1, <1>2, <1>4, <1>5 DEF SpansOK

LEMMA SpansEnd ==
  ASSUME NEW S, NEW T, StoreOK(S, T), SpansOK(S, T), NEW S2, NEW T2,
         NEW s, NEW s2, NEW r, Ends(S, T, S2, T2, s, s2, r)
  PROVE  SpansOK(S2, T2)
<1> DEFINE t == s2.logoutAt
           c == Closed(r, t)
<1>1. /\ c.validFrom = r.validFrom /\ c.validTo = t /\ c.sessionID = s.id
      /\ s2.id = s.id /\ s2.loginAt = s.loginAt
  BY DEF Ends, Closed, StoreOK, StateRow, SessionRow
<1>2. /\ r.validFrom <= t /\ s.loginAt <= t /\ s \in S /\ r \in T /\ t \in Int
      /\ r.sessionID = s.id /\ r.validTo = NULL
      /\ S2 = (S \ {s}) \cup {s2} /\ T2 = (T \ {r}) \cup {c}
  BY DEF Ends
<1>3. \A o \in S : o # s => o.id # s.id
  BY <1>2 DEF StoreOK, RowsAreUnique
<1>4. t # NULL /\ t <= t
  BY <1>2, StoreAssumption
<1>5. ASSUME NEW q \in T, q # r, q.sessionID = s.id PROVE q.validTo # NULL /\ q.validTo <= t
  <2>1. q.validTo # NULL /\ q.validTo <= r.validFrom
    BY <1>2, <1>5 DEF StoreOK, OpenStateIsLast
  <2>2. q.validTo \in Int /\ r.validFrom \in Int
    BY <1>2, <2>1 DEF StoreOK, StateRow
  <2> QED
    BY <1>2, <2>1, <2>2
<1> HIDE DEF c, t
<1>6. \A o \in S2 : (o \in S /\ o.id # s.id) \/ o = s2
  BY <1>2, <1>3
<1>7. \A q \in T2 : (q \in T /\ q # r) \/ q = c
  BY <1>2
<1>8. \A o \in S2 : o.logoutAt # NULL => o.loginAt <= o.logoutAt
  BY <1>1, <1>2, <1>6 DEF SpansOK, t
<1>9. \A q \in T2 : q.validTo # NULL => q.validFrom <= q.validTo
  BY <1>1, <1>2, <1>7 DEF SpansOK
<1>10. ASSUME NEW o \in S2, NEW q \in T2, q.sessionID = o.id, o.logoutAt # NULL
       PROVE  q.validTo # NULL /\ q.validTo <= o.logoutAt
  <2>1. CASE o = s2
    BY <1>1, <1>4, <1>5, <1>7, <1>10, <2>1 DEF t
  <2>2. CASE o \in S /\ o.id # s.id
    BY <1>1, <1>7, <1>10, <2>2 DEF SpansOK
  <2> QED
    BY <1>6, <2>1, <2>2
<1> QED
  BY <1>8, <1>9, <1>10 DEF SpansOK

(* Every time stored for a key: of its sessions and of their states.       *)
TimesIn(S, T, k) ==
  SessionTimes(SessionsOf(S, k)) \cup
  UNION {StateTimes(StatesOf(T, s.id)) : s \in SessionsOf(S, k)}

LEMMA TimesInAre ==
  ASSUME NEW S, NEW T, NEW k, NEW u
  PROVE  u \in TimesIn(S, T, k) <=>
           \E s \in S :
             /\ s.key = k
             /\ \/ u = s.loginAt
                \/ u = s.logoutAt /\ u # NULL
                \/ \E r \in StatesOf(T, s.id) :
                     u = r.validFrom \/ (u = r.validTo /\ u # NULL)
<1>1. u \in SessionTimes(SessionsOf(S, k)) <=>
        \E s \in S : s.key = k /\ (u = s.loginAt \/ (u = s.logoutAt /\ u # NULL))
  BY DEF SessionTimes, SessionsOf, NonNull
<1>2. \A R : u \in StateTimes(R) <=>
        \E r \in R : u = r.validFrom \/ (u = r.validTo /\ u # NULL)
  BY DEF StateTimes, NonNull
<1>3. u \in UNION {StateTimes(StatesOf(T, s.id)) : s \in SessionsOf(S, k)} <=>
        \E s \in S : s.key = k /\ u \in StateTimes(StatesOf(T, s.id))
  BY DEF SessionsOf
<1> QED
  BY <1>1, <1>2, <1>3 DEF TimesIn

(* The times of a key depend on no row of another key.                     *)
LEMMA TimesFrame ==
  ASSUME NEW S, NEW T, NEW S2, NEW T2, NEW key, OnlyKey(S, T, S2, T2, key),
         NEW k, k # key
  PROVE  TimesIn(S2, T2, k) = TimesIn(S, T, k)
<1>1. SessionsOf(S2, k) = SessionsOf(S, k)
  BY DEF OnlyKey
<1>2. \A s \in SessionsOf(S, k) : StatesOf(T2, s.id) = StatesOf(T, s.id)
  BY DEF OnlyKey, SessionsOf
<1> QED
  BY <1>1, <1>2 DEF TimesIn

(* No time stored for a key is later than LastEventAt of its snapshot.     *)
LEMMA SnapshotClock ==
  ASSUME NEW S, NEW T, StoreOK(S, T), SpansOK(S, T), NEW k \in Keys,
         NEW sn, LoadCurrent(S, T, k) = Loaded(sn),
         NEW u \in TimesIn(S, T, k)
  PROVE  u \in Int /\ sn.lastEventAt \in Int /\ u <= sn.lastEventAt
<1>1. /\ HistoryKnown(S, k, sn)
      /\ sn.active # NULL => /\ sn.lastEventAt \in Int
                             /\ \A r \in StatesOf(T, sn.active.id) :
                                  r.validFrom <= sn.lastEventAt
  BY FreshFacts
<1>2. ASSUME NEW s \in S, s.key = k
      PROVE  /\ s.loginAt \in Int /\ s.loginAt <= sn.lastEventAt /\ sn.lastEventAt \in Int
             /\ s.logoutAt # NULL => s.logoutAt \in Int /\ s.logoutAt <= sn.lastEventAt
  <2>1. s.loginAt \in Int /\ (s.logoutAt # NULL => s.logoutAt \in Int)
    BY DEF StoreOK, SessionRow
  <2> QED
    BY <1>1, <1>2, <2>1 DEF HistoryKnown
<1>3. ASSUME NEW s \in S, s.key = k, NEW r \in StatesOf(T, s.id)
      PROVE  /\ r.validFrom \in Int /\ r.validFrom <= sn.lastEventAt
             /\ r.validTo # NULL => r.validTo \in Int /\ r.validTo <= sn.lastEventAt
  <2>1. /\ r \in T /\ r.sessionID = s.id /\ r.validFrom \in Int
        /\ r.validTo # NULL => r.validTo \in Int
    BY DEF StoreOK, StateRow, StatesOf
  <2>2. CASE s.logoutAt # NULL
    <3>1. r.validTo # NULL /\ r.validTo <= s.logoutAt /\ r.validFrom <= r.validTo
      BY <2>1, <2>2 DEF SpansOK
    <3> QED
      BY <1>2, <1>3, <2>1, <2>2, <3>1
  <2>3. CASE s.logoutAt = NULL
    <3>1. sn.active # NULL
      BY <1>1, <1>3, <2>3 DEF HistoryKnown
    <3>2. PICK o \in S : o.key = k /\ o.id = sn.active.id /\ o.logoutAt = NULL
      BY <1>1, <3>1 DEF HistoryKnown
    <3>3. o = s
      BY <1>3, <2>3, <3>2 DEF StoreOK, RowsAreUnique
    <3>4. \A q \in StatesOf(T, s.id) : q.validFrom \in Int /\ q.validFrom <= sn.lastEventAt
      BY <1>1, <3>1, <3>2, <3>3 DEF StoreOK, StateRow, StatesOf
    <3>5. PICK c \in StatesOf(T, s.id) : c.validTo = NULL
      BY <2>3 DEF StoreOK, OpenRowsAgree
    <3>6. r.validTo # NULL => r.validTo <= c.validFrom
      BY <2>1, <3>5 DEF StoreOK, OpenStateIsLast, StatesOf
    <3> QED
      BY <1>2, <1>3, <2>1, <3>4, <3>5, <3>6
  <2> QED
    BY <2>2, <2>3
<1>4. PICK s \in S :
        /\ s.key = k
        /\ \/ u = s.loginAt
           \/ u = s.logoutAt /\ u # NULL
           \/ \E r \in StatesOf(T, s.id) :
                u = r.validFrom \/ (u = r.validTo /\ u # NULL)
  BY TimesInAre
<1> QED
  BY <1>2, <1>3, <1>4

(* What a load tells of the event accepted last, and of the open session.  *)
LEMMA SnapshotIs ==
  ASSUME NEW S, NEW T, StoreOK(S, T), NEW k \in Keys,
         NEW sn, LoadCurrent(S, T, k) = Loaded(sn)
  PROVE  /\ SessionsOf(S, k) = {} => sn = EmptySnapshot
         /\ SessionsOf(S, k) # {} =>
              /\ sn.lastEventID = LastSession(SessionsOf(S, k)).lastEventID
              /\ IsLastSession(LastSession(SessionsOf(S, k)), SessionsOf(S, k))
              /\ sn.lastEventAt \in TimesIn(S, T, k)
         /\ sn.active # NULL => sn.active.key = k /\ CurrentState(sn) = "ok"
<1> DEFINE rows == SessionsOf(S, k)
           active == {s \in rows : s.logoutAt = NULL}
           h == LoadHistory(S, k)
           hs == h.snapshot
<1>1. h.err = "none" /\ h = Loaded(hs) /\ LoadCurrent(S, T, k).err = "none"
  BY LoadSucceeds DEF LoadHistory, Loaded
<1>2. CASE rows = {}
  <2>1. h = Loaded(EmptySnapshot)
    BY <1>2 DEF LoadHistory, Loaded
  <2>2. hs = EmptySnapshot /\ hs.active = NULL
    BY <2>1 DEF Loaded, EmptySnapshot
  <2>3. sn = EmptySnapshot
    BY <1>1, <2>1, <2>2 DEF LoadCurrent, Loaded
  <2> QED
    BY <1>2, <2>3 DEF EmptySnapshot
<1>3. CASE rows # {}
  <2>1. PICK a \in S : a.key = k
    BY <1>3 DEF SessionsOf
  <2>2. HasLatest(SessionTimes(rows)) /\ \E l \in S : IsLastSession(l, rows)
    BY <2>1 DEF StoreOK, MaximaExist
  <2>3. IsLastSession(LastSession(rows), rows)
    BY <2>2 DEF LastSession, IsLastSession
  <2>4. rows \subseteq SessionRow
    BY DEF SessionsOf, StoreOK
  <2>5. SessionTimes(rows) \subseteq Int
    BY <2>4, TimesAreIntegers
  <2>6. Latest(SessionTimes(rows)) \in SessionTimes(rows)
    <3> HIDE DEF rows
    <3> QED
      BY <2>2, LatestFacts
  <2> DEFINE o == CHOOSE s \in active : TRUE
             act == IF active = {} THEN NULL ELSE Active(o)
  <2>7. hs = [lastEventAt |-> Latest(SessionTimes(rows)),
              lastEventID |-> LastSession(rows).lastEventID,
              active      |-> act]
    BY <1>1, <1>3 DEF LoadHistory
  <2>8. hs.active # NULL => hs.active.key = k /\ o \in S /\ o.key = k
                            /\ o.logoutAt = NULL /\ hs.active = Active(o)
    BY <2>7 DEF Active, SessionsOf
  <2> HIDE DEF o, act
  <2>9. hs.lastEventAt \in TimesIn(S, T, k) /\ hs.lastEventID = LastSession(rows).lastEventID
    BY <2>6, <2>7 DEF TimesIn
  <2> HIDE DEF h, rows, active
  <2>10. CASE hs.active = NULL
    <3>1. sn = hs
      BY <1>1, <2>10 DEF LoadCurrent, Loaded, h
    <3> QED
      BY <1>3, <2>3, <2>9, <2>10, <3>1 DEF rows
  <2>11. CASE hs.active # NULL
    <3> DEFINE R == StatesOf(T, hs.active.id)
               times == {hs.lastEventAt} \cup StateTimes(R)
    <3>1. hs.active.id = o.id /\ o \in S /\ o.logoutAt = NULL /\ o.key = k
      BY <2>8, <2>11 DEF Active
    <3>2. R # {} /\ LastState(R).validTo = NULL
      BY <3>1, LastStateIsOpen
    <3>3. LoadCurrent(S, T, k) = LoadActiveStates(T, hs)
      BY <1>1, <2>11 DEF LoadCurrent, h
    <3>4. sn = [lastEventAt |-> Latest(times), lastEventID |-> hs.lastEventID,
                active |-> [hs.active EXCEPT !.states = R]]
      BY <3>2, <3>3 DEF LoadActiveStates, Loaded
    <3>5. hs.active = [id |-> o.id, key |-> o.key, logoutAt |-> NULL, states |-> {}]
      BY <2>8, <2>11 DEF Active
    <3>6. sn.active = [id |-> o.id, key |-> o.key, logoutAt |-> NULL, states |-> R]
      BY <3>4, <3>5
    <3>7. HasLatest(StateTimes(R)) /\ StateTimes(R) \subseteq Int
      <4>1. R \in SUBSET StateRow
        BY DEF StoreOK, StatesOf
      <4> QED
        BY <3>1, <4>1, TimesAreIntegers DEF StoreOK, MaximaExist
    <3>8. HasLatest(times)
      <4>1. hs.lastEventAt \in Int
        BY <2>5, <2>6, <2>7
      <4> QED
        BY <3>7, <4>1 DEF HasLatest
    <3>9. Latest(times) \in times
      <4> HIDE DEF times
      <4> QED
        BY <3>8, LatestFacts
    <3>10. StateTimes(R) \subseteq TimesIn(S, T, k)
      <4>1. o \in SessionsOf(S, k)
        BY <3>1 DEF SessionsOf
      <4> QED
        BY <3>1, <4>1 DEF TimesIn
    <3>11. sn.lastEventAt \in TimesIn(S, T, k)
      BY <2>9, <3>4, <3>9, <3>10
    <3>12. /\ sn.active.states = R /\ sn.active.key = k /\ sn.active.logoutAt = NULL
           /\ sn.active.id # NULL
      <4>1. o.id \in Int
        BY <3>1, StoreAssumption DEF StoreOK, SessionRow
      <4> QED
        BY <3>1, <3>6, <4>1, StoreAssumption
    <3>13. CurrentState(sn) \in {"ok", "ErrInvalidTransition"}
      BY <3>2, <3>12 DEF CurrentState
    <3> HIDE DEF R, times
    <3>14. sn.active # NULL => CurrentState(sn) = "ok"
      BY <3>2, <3>12 DEF CurrentState
    <3> QED
      BY <1>3, <2>3, <2>9, <3>4, <3>11, <3>12, <3>14 DEF rows
  <2> QED
    BY <2>10, <2>11
<1> QED
  BY <1>2, <1>3
-----------------------------------------------------------------------------
(************************ Deciding and applying ****************************)

(* What becomes of an event decided on a snapshot: Outcome in EventWorkers *)
(* and, on the snapshot just loaded, ApplyEvent.                           *)
Applied(S, T, sn, e, newID) ==
  LET m == Decide(sn, e, newID) IN
  IF m.kind \in DomainErrors THEN [err |-> m.kind, sessions |-> S, states |-> T]
  ELSE ApplyMutation(S, T, e.key, m)

LEMMA ApplyEventIs ==
  ASSUME NEW S, NEW T, NEW e, NEW newID, NEW sn, LoadCurrent(S, T, e.key) = Loaded(sn)
  PROVE  ApplyEvent(S, T, e, newID) = Applied(S, T, sn, e, newID)
<1> DEFINE m == Decide(sn, e, newID)
           same == [err |-> "none", sessions |-> S, states |-> T]
<1>1. /\ LoadCurrent(S, T, e.key).err = "none"
      /\ LoadCurrent(S, T, e.key).snapshot = sn
  BY DEF Loaded
<1>2. ApplyEvent(S, T, e, newID)
        = IF m.kind \in DomainErrors THEN Fail(same, m.kind)
          ELSE ApplyMutation(S, T, e.key, m)
  BY <1>1 DEF ApplyEvent
<1>3. Fail(same, m.kind) = [err |-> m.kind, sessions |-> S, states |-> T]
  BY DEF Fail
<1> HIDE DEF m, same
<1> QED
  BY <1>2, <1>3 DEF Applied, m

(* A key always loads.                                                     *)
LEMMA SnapshotLoaded ==
  ASSUME NEW S, NEW T, StoreOK(S, T), NEW k \in Keys
  PROVE  \E sn \in Snapshot : LoadCurrent(S, T, k) = Loaded(sn)
<1> DEFINE h == LoadHistory(S, k)
           l == LoadCurrent(S, T, k)
<1>1. h.err = "none" /\ l.err = "none"
  BY LoadSucceeds
<1>2. h.snapshot \in Snapshot /\ (h.snapshot.active # NULL => h.snapshot.lastEventAt # NULL)
  BY LoadHistoryType
<1>3. CASE h.snapshot.active = NULL
  <2>1. l = h /\ h = Loaded(h.snapshot)
    BY <1>1, <1>3 DEF LoadCurrent, LoadHistory, Loaded
  <2> QED
    BY <1>2, <2>1
<1>4. CASE h.snapshot.active # NULL
  <2>1. l = LoadActiveStates(T, h.snapshot)
    BY <1>1, <1>4 DEF LoadCurrent
  <2> HIDE DEF h
  <2>2. LoadActiveStates(T, h.snapshot).snapshot \in Snapshot
    BY <1>2, <1>4, LoadActiveStatesType
  <2>3. l = Loaded(l.snapshot)
    BY <1>1, <2>1 DEF LoadActiveStates, Loaded
  <2> QED
    BY <2>1, <2>2, <2>3
<1> QED
  BY <1>3, <1>4

(* A worker or a process that is about to apply an event e with a new id   *)
(* of a session, on a snapshot sn that is what the tables hold of the key. *)
HasCurrent(S, T, sn, e, newID) ==
  /\ StoreOK(S, T) /\ e \in Events /\ sn \in Snapshot
  /\ LoadCurrent(S, T, e.key) = Loaded(sn)
  /\ newID \in NewSessionIDs(S, e)

Ready(S, T, sn, e, newID) == RepresentableTimes /\ HasCurrent(S, T, sn, e, newID)

(* Whatever the snapshot, the tables keep the repository's constraints,    *)
(* and they change as Effect says.                                         *)
LEMMA AppliedType ==
  ASSUME NEW S, NEW T, StoreOK(S, T), NEW e \in Events, NEW sn \in Snapshot,
         NEW newID \in NewSessionIDs(S, e)
  PROVE  LET o == Applied(S, T, sn, e, newID)
             m == Decide(sn, e, newID)
         IN
         /\ StoreOK(o.sessions, o.states)
         /\ Effect(S, T, o.sessions, o.states, o.err, e.key, m)
         /\ m.kind \in DomainErrors \cup Writes \cup {"duplicate_event"}
         /\ m.kind \in Writes => IsMutation(m)
<1> DEFINE m == Decide(sn, e, newID)
           o == Applied(S, T, sn, e, newID)
<1>1. e.key \in Keys /\ (e.type = "LOGIN" => newID \in SessionIDs)
  BY DEF Events, NewSessionIDs
<1>2. /\ m.kind \in DomainErrors \cup Writes \cup {"duplicate_event"}
      /\ m.kind \in Writes => IsMutation(m)
  BY <1>1, DecideType
<1> HIDE DEF m
<1>3. CASE m.kind \in DomainErrors
  <2>1. o = [err |-> m.kind, sessions |-> S, states |-> T]
    BY <1>3 DEF Applied, m
  <2> QED
    BY <1>2, <1>3, <2>1 DEF Effect, DomainErrors, m
<1>4. CASE m.kind \notin DomainErrors
  <2>1. o = ApplyMutation(S, T, e.key, m)
    BY <1>4 DEF Applied, m
  <2>2. m.kind \in Writes \cup {"duplicate_event"}
    BY <1>2, <1>4
  <2>3. StoreOK(o.sessions, o.states)
    BY <1>1, <1>2, <2>1, <2>2, ApplyPreservesStore DEF Writes
  <2>4. Effect(S, T, o.sessions, o.states, o.err, e.key, m)
    BY <1>1, <1>2, <2>1, <2>2, ApplyEffects
  <2> QED
    BY <1>2, <2>3, <2>4 DEF m
<1> QED
  BY <1>3, <1>4

(* On a current snapshot the database accepts what the domain decides at a *)
(* time that fits in the columns, and an event touches only the rows of    *)
(* its key.                                                                *)
LEMMA AppliedOnKey ==
  ASSUME NEW S, NEW T, NEW sn, NEW e, NEW newID, HasCurrent(S, T, sn, e, newID)
  PROVE  LET o == Applied(S, T, sn, e, newID)
             m == Decide(sn, e, newID)
         IN
         /\ m.kind \notin DomainErrors /\ Representable(e.at) => o.err = "none"
         /\ m.kind \in DomainErrors => o.err = m.kind
         /\ OnlyKey(S, T, o.sessions, o.states, e.key)
<1> DEFINE m == Decide(sn, e, newID)
           o == Applied(S, T, sn, e, newID)
<1> USE DEF HasCurrent
<1>1. CASE m.kind \in DomainErrors
  <2>1. o = [err |-> m.kind, sessions |-> S, states |-> T]
    BY <1>1 DEF Applied
  <2> QED
    BY <1>1, <2>1 DEF OnlyKey
<1>2. CASE m.kind \notin DomainErrors
  <2>1. /\ e.key \in Keys
        /\ m.kind \in {"start_session", "replace_state", "end_session", "duplicate_event"}
        /\ m.kind # "duplicate_event" => IsMutation(m) /\ m.at = e.at
        /\ MutationFits(S, T, e.key, m)
    BY <1>2, DecisionFits
  <2>2. o = ApplyMutation(S, T, e.key, m)
    BY <1>2 DEF Applied
  <2> HIDE DEF m
  <2>3. Representable(e.at) => o.err = "none"
    BY <2>1, <2>2, ApplySucceeds
  <2>4. OnlyKey(S, T, o.sessions, o.states, e.key)
    BY <2>1, <2>2, ApplyFrame
  <2> QED
    BY <1>2, <2>3, <2>4 DEF m
<1> QED
  BY <1>1, <1>2

(* If every time fits, it accepts whatever the domain decides, and the     *)
(* sessions of the key stay apart.                                         *)
LEMMA AppliedFacts ==
  ASSUME NEW S, NEW T, NEW sn, NEW e, NEW newID, Ready(S, T, sn, e, newID),
         SessionsDisjoint(S)
  PROVE  LET o == Applied(S, T, sn, e, newID)
             m == Decide(sn, e, newID)
         IN
         /\ m.kind \notin DomainErrors => o.err = "none"
         /\ m.kind \in DomainErrors => o.err = m.kind
         /\ OnlyKey(S, T, o.sessions, o.states, e.key)
         /\ SessionsDisjoint(o.sessions)
<1> DEFINE m == Decide(sn, e, newID)
           o == Applied(S, T, sn, e, newID)
<1>1. HasCurrent(S, T, sn, e, newID)
  BY DEF Ready
<1>2. Representable(e.at)
  BY DEF Ready, HasCurrent, Events, RepresentableTimes
<1>3. SessionsDisjoint(o.sessions)
  <2>1. CASE m.kind \in DomainErrors
    BY <2>1 DEF Applied
  <2>2. CASE m.kind \notin DomainErrors
    <3>1. /\ e.key \in Keys
          /\ m.kind \in {"start_session", "replace_state", "end_session", "duplicate_event"}
          /\ m.kind # "duplicate_event" => IsMutation(m) /\ m.at = e.at
          /\ MutationFits(S, T, e.key, m)
      BY <1>1, <2>2, DecisionFits DEF HasCurrent
    <3>2. o = ApplyMutation(S, T, e.key, m)
      BY <2>2 DEF Applied
    <3> HIDE DEF m
    <3> QED
      BY <1>1, <1>2, <3>1, <3>2, ApplyKeepsDisjoint DEF HasCurrent
  <2> QED
    BY <2>1, <2>2
<1> QED
  BY <1>1, <1>2, <1>3, AppliedOnKey
-----------------------------------------------------------------------------
(************************ What an accepted event does **********************)

(* What is accepted: an event of the key, on its open session if there is  *)
(* one, at no earlier time than any stored for the key.                    *)
LEMMA AcceptedFacts ==
  ASSUME NEW S, NEW T, NEW sn, NEW e, NEW newID, Ready(S, T, sn, e, newID),
         SpansOK(S, T), Decide(sn, e, newID).kind \in Writes
  PROVE  LET m == Decide(sn, e, newID) IN
         /\ IsMutation(m) /\ m.at = e.at /\ e.at \in Int /\ ToNanos(m.at) = m.at
         /\ m.kind \in {"replace_state", "end_session"} =>
              \E s \in S : s.id = m.sessionID /\ s.key = e.key /\ s.logoutAt = NULL
         /\ \A u \in TimesIn(S, T, e.key) : u \in Int /\ u <= e.at
<1> DEFINE m == Decide(sn, e, newID)
<1> USE DEF Ready, HasCurrent
<1>1. e.key \in Keys /\ e.type \in EventTypes /\ Representable(e.at)
  BY DEF Events, RepresentableTimes
<1>2. /\ IsMutation(m) /\ Representable(m.at)
      /\ MutationFits(S, T, e.key, m)
  BY <1>1, DecisionFits DEF Writes, DomainErrors
<1>3. m.at = e.at /\ (sn.lastEventAt # NULL => ~(e.at < sn.lastEventAt))
  BY <1>1, DecideFacts
<1>4. m.at \in Int /\ ToNanos(m.at) = m.at
  BY <1>2, NanosFacts DEF IsMutation
<1>5. m.kind \in {"replace_state", "end_session"} =>
        \E s \in S : s.id = m.sessionID /\ s.key = e.key /\ s.logoutAt = NULL
  BY <1>2 DEF MutationFits
<1>6. ASSUME NEW u \in TimesIn(S, T, e.key) PROVE u \in Int /\ u <= e.at
  <2>1. u \in Int /\ sn.lastEventAt \in Int /\ u <= sn.lastEventAt
    BY <1>1, SnapshotClock
  <2> QED
    BY <1>3, <1>4, <2>1, StoreAssumption
<1> QED
  BY <1>2, <1>3, <1>4, <1>5, <1>6

(* The rows of a key grow by an event with an id, at time t.               *)
Grows(S, T, S2, T2, k, id, t) ==
  /\ id \in EventIDs /\ t \in Int
  /\ OnlyKey(S, T, S2, T2, k)
  /\ \A u \in TimesIn(S, T, k) : u \in Int /\ u <= t
  /\ \/ \E n, w :
          /\ Starts(S, T, S2, T2, n, w)
          /\ n.key = k /\ n.loginAt = t /\ n.lastEventID = id
     \/ \E s, s2, r, w :
          /\ Replaces(S, T, S2, T2, s, s2, r, w)
          /\ s.key = k /\ w.validFrom = t /\ s2.lastEventID = id
     \/ \E s, s2, r :
          /\ Ends(S, T, S2, T2, s, s2, r)
          /\ s.key = k /\ s2.logoutAt = t /\ s2.lastEventID = id

(* The same, telling which event it is.                                    *)
Accepts(S, T, S2, T2, e) ==
  /\ e.eventID \in EventIDs /\ e.at \in Int
  /\ OnlyKey(S, T, S2, T2, e.key)
  /\ \A u \in TimesIn(S, T, e.key) : u \in Int /\ u <= e.at
  /\ \/ /\ e.type = "LOGIN"
        /\ \E n, w :
             /\ Starts(S, T, S2, T2, n, w)
             /\ n.key = e.key /\ n.loginAt = e.at /\ n.lastEventID = e.eventID
             /\ w.tags = e.tags
     \/ /\ e.type = "UPDATE"
        /\ \E s, s2, r, w :
             /\ Replaces(S, T, S2, T2, s, s2, r, w)
             /\ s.key = e.key /\ w.validFrom = e.at /\ s2.lastEventID = e.eventID
             /\ w.tags = e.tags
     \/ /\ e.type = "LOGOUT"
        /\ \E s, s2, r :
             /\ Ends(S, T, S2, T2, s, s2, r)
             /\ s.key = e.key /\ s2.logoutAt = e.at /\ s2.lastEventID = e.eventID

LEMMA AcceptsGrows ==
  ASSUME NEW S, NEW T, NEW S2, NEW T2, NEW e, Accepts(S, T, S2, T2, e)
  PROVE  Grows(S, T, S2, T2, e.key, e.eventID, e.at)
BY DEF Accepts, Grows

(* A decision to write keeps what its event says.                          *)
LEMMA DecisionKeepsEvent ==
  ASSUME NEW sn, NEW e, e.type \in EventTypes, NEW newID
  PROVE  LET m == Decide(sn, e, newID) IN
         m.kind \in Writes =>
           /\ m.eventID = e.eventID
           /\ m.kind = "start_session" => e.type = "LOGIN" /\ m.tags = e.tags
           /\ m.kind = "replace_state" => e.type = "UPDATE" /\ m.tags = e.tags
           /\ m.kind = "end_session" => e.type = "LOGOUT"
BY DEF Decide, Rejected, DuplicateEvent, Mutation, DecideLogin, DecideUpdate,
       DecideLogout, EventTypes, Writes, PrepareTransition, CurrentState

(* An event is accepted, or the tables stay as they are.                   *)
LEMMA AppliedAccepts ==
  ASSUME NEW S, NEW T, NEW sn, NEW e, NEW newID, Ready(S, T, sn, e, newID),
         SessionsDisjoint(S), SpansOK(S, T)
  PROVE  LET o == Applied(S, T, sn, e, newID)
             m == Decide(sn, e, newID)
         IN
         /\ m.kind \in Writes =>
              o.err = "none" /\ Accepts(S, T, o.sessions, o.states, e)
         /\ m.kind \notin Writes => o.sessions = S /\ o.states = T
<1> DEFINE m == Decide(sn, e, newID)
           o == Applied(S, T, sn, e, newID)
           k == e.key
<1>1. /\ StoreOK(S, T) /\ e \in Events /\ sn \in Snapshot
      /\ newID \in NewSessionIDs(S, e) /\ e.type \in EventTypes /\ e.eventID \in EventIDs
  BY DEF Ready, HasCurrent, Events
<1>2. Effect(S, T, o.sessions, o.states, o.err, k, m)
  BY <1>1, AppliedType
<1>3. /\ m.kind \notin DomainErrors => o.err = "none"
      /\ OnlyKey(S, T, o.sessions, o.states, k)
  BY AppliedFacts
<1>4. m.kind \in Writes =>
        /\ m.eventID = e.eventID
        /\ m.kind = "start_session" => e.type = "LOGIN" /\ m.tags = e.tags
        /\ m.kind = "replace_state" => e.type = "UPDATE" /\ m.tags = e.tags
        /\ m.kind = "end_session" => e.type = "LOGOUT"
  BY <1>1, DecisionKeepsEvent
<1>5. m.kind \in Writes =>
        /\ e.at \in Int /\ ToNanos(m.at) = e.at
        /\ m.kind \in {"replace_state", "end_session"} =>
             \E s \in S : s.id = m.sessionID /\ s.key = k /\ s.logoutAt = NULL
        /\ \A u \in TimesIn(S, T, k) : u \in Int /\ u <= e.at
  BY AcceptedFacts
<1>6. \A r, s \in S : r.id = s.id => r = s
  BY <1>1 DEF StoreOK, RowsAreUnique
<1> HIDE DEF m, o, k
<1>7. CASE m.kind \notin Writes
  BY <1>2, <1>7 DEF Effect, Writes, m, o
<1>8. CASE m.kind \in Writes
  <2>1. o.err = "none" /\ m.kind # "duplicate_event"
    BY <1>3, <1>8 DEF DomainErrors, Writes
  <2>2. /\ e.eventID \in EventIDs /\ e.at \in Int
        /\ OnlyKey(S, T, o.sessions, o.states, k)
        /\ \A u \in TimesIn(S, T, k) : u \in Int /\ u <= e.at
    BY <1>1, <1>3, <1>5, <1>8
  <2>3. CASE m.kind = "start_session"
    <3>1. PICK n, w : /\ Starts(S, T, o.sessions, o.states, n, w)
                      /\ n = NewSession(k, m) /\ w.tags = m.tags
      BY <1>2, <2>1, <2>3 DEF Effect
    <3>2. n.key = k /\ n.loginAt = e.at /\ n.lastEventID = e.eventID
      BY <1>4, <1>5, <1>8, <3>1 DEF NewSession
    <3> QED
      BY <1>4, <1>8, <2>1, <2>2, <2>3, <3>1, <3>2 DEF Accepts, k, m, o
  <2>4. CASE m.kind = "replace_state"
    <3>1. PICK s, s2, r, w :
            /\ Replaces(S, T, o.sessions, o.states, s, s2, r, w)
            /\ s.id = m.sessionID /\ s2.lastEventID = m.eventID
            /\ w.validFrom = ToNanos(m.at) /\ w.tags = m.tags
      BY <1>2, <2>1, <2>4 DEF Effect
    <3>2. s.key = k
      BY <1>5, <1>6, <1>8, <2>4, <3>1 DEF Replaces
    <3> QED
      BY <1>4, <1>5, <1>8, <2>1, <2>2, <2>4, <3>1, <3>2 DEF Accepts, k, m, o
  <2>5. CASE m.kind = "end_session"
    <3>1. PICK s, s2, r :
            /\ Ends(S, T, o.sessions, o.states, s, s2, r)
            /\ s.id = m.sessionID /\ s2.lastEventID = m.eventID
            /\ s2.logoutAt = ToNanos(m.at)
      BY <1>2, <2>1, <2>5 DEF Effect
    <3>2. s.key = k
      BY <1>5, <1>6, <1>8, <2>5, <3>1 DEF Ends
    <3> QED
      BY <1>4, <1>5, <1>8, <2>1, <2>2, <2>5, <3>1, <3>2 DEF Accepts, k, m, o
  <2> QED
    BY <1>8, <2>3, <2>4, <2>5 DEF Writes
<1> QED
  BY <1>7, <1>8 DEF m, o

LEMMA LatestLoginIsLast ==
  ASSUME NEW S \in SUBSET SessionRow, NEW k, NEW x \in S, x.key = k,
         \A s \in S : s.key = k => s.loginAt <= x.loginAt,
         ~LoginsTie(S, k), NEW l \in S, l.key = k, IsLastSession(l, SessionsOf(S, k))
  PROVE  l = x
<1>1. l.loginAt \in Int /\ x.loginAt \in Int /\ l.loginAt <= x.loginAt
  BY DEF SessionRow
<1>2. x.loginAt <= l.loginAt
  BY <1>1 DEF IsLastSession, SessionsOf
<1>3. l.loginAt = x.loginAt
  BY <1>1, <1>2
<1> QED
  BY <1>3 DEF LoginsTie, SessionsOf

(* The session that grows logged in last.                                  *)
LEMMA GrowsOnLast ==
  ASSUME NEW S, NEW T, StoreOK(S, T), SessionsDisjoint(S), SpansOK(S, T),
         NEW S2, NEW T2, NEW k, NEW id, NEW t, Grows(S, T, S2, T2, k, id, t)
  PROVE  \E x \in S2 :
           /\ x.key = k /\ x.lastEventID = id
           /\ \A s \in S2 : s.key = k => s.loginAt <= x.loginAt
<1>0. \A s \in S : s.loginAt \in Int /\ (s.logoutAt # NULL => s.logoutAt \in Int)
  BY DEF StoreOK, SessionRow
<1>1. ASSUME NEW s \in S, s.logoutAt = NULL, NEW o \in S, o.key = s.key
      PROVE  o.loginAt <= s.loginAt
  <2>1. CASE o = s
    BY <1>0, <2>1
  <2>2. CASE o # s
    <3>1. Precedes(o, s)
      BY <1>1, <2>2 DEF SessionsDisjoint, Precedes
    <3>2. o.logoutAt # NULL /\ o.logoutAt <= s.loginAt /\ o.loginAt <= o.logoutAt
      BY <3>1 DEF Precedes, SpansOK
    <3> QED
      BY <1>0, <3>2
  <2> QED
    BY <2>1, <2>2
<1>2. ASSUME NEW s \in S, s.key = k, s.logoutAt = NULL, NEW s2,
             s2.key = s.key, s2.loginAt = s.loginAt, s2.lastEventID = id,
             S2 = (S \ {s}) \cup {s2}
      PROVE  /\ s2 \in S2 /\ s2.key = k /\ s2.lastEventID = id
             /\ \A o \in S2 : o.key = k => o.loginAt <= s2.loginAt
  BY <1>0, <1>1, <1>2
<1>3. ASSUME NEW n, NEW w, Starts(S, T, S2, T2, n, w),
             n.key = k, n.loginAt = t, n.lastEventID = id
      PROVE  /\ n \in S2 /\ n.key = k /\ n.lastEventID = id
             /\ \A o \in S2 : o.key = k => o.loginAt <= n.loginAt
  <2>1. \A o \in S : o.key = k => o.loginAt \in TimesIn(S, T, k)
    BY TimesInAre
  <2>2. S2 = S \cup {n} /\ t \in Int
    BY <1>3 DEF Starts, Grows
  <2>3. \A o \in S : o.key = k => o.loginAt <= t
    BY <2>1 DEF Grows
  <2> QED
    BY <1>3, <2>2, <2>3
<1>4. ASSUME NEW s, NEW s2, NEW r, NEW w,
             Replaces(S, T, S2, T2, s, s2, r, w),
             s.key = k, s2.lastEventID = id
      PROVE  /\ s2 \in S2 /\ s2.key = k /\ s2.lastEventID = id
             /\ \A o \in S2 : o.key = k => o.loginAt <= s2.loginAt
  <2>1. s2.key = s.key /\ s2.loginAt = s.loginAt
    BY <1>4 DEF Replaces, StoreOK, SessionRow
  <2> QED
    BY <1>2, <1>4, <2>1 DEF Replaces
<1>5. ASSUME NEW s, NEW s2, NEW r,
             Ends(S, T, S2, T2, s, s2, r),
             s.key = k, s2.lastEventID = id
      PROVE  /\ s2 \in S2 /\ s2.key = k /\ s2.lastEventID = id
             /\ \A o \in S2 : o.key = k => o.loginAt <= s2.loginAt
  <2>1. s2.key = s.key /\ s2.loginAt = s.loginAt
    BY <1>5 DEF Ends, StoreOK, SessionRow
  <2> QED
    BY <1>2, <1>5, <2>1 DEF Ends
<1> QED
  BY <1>3, <1>4, <1>5 DEF Grows

(* In session s, which becomes s2, the open state r is closed as c and the *)
(* open states W are added.                                                *)
ClosesIn(S, T, S2, T2, s, s2, r, c, W) ==
  /\ s \in S /\ S2 = (S \ {s}) \cup {s2}
  /\ s2.key = s.key /\ s2.loginAt = s.loginAt
  /\ r \in StatesOf(T, s.id) /\ r.validTo = NULL /\ c.validTo # NULL
  /\ \A w \in W : w.validTo = NULL
  /\ StatesOf(T2, s2.id) = (StatesOf(T, s.id) \ {r}) \cup {c} \cup W
  /\ \A o \in S : o # s => StatesOf(T2, o.id) = StatesOf(T, o.id)

(* An accepted event's time becomes a time of its key.                     *)
LEMMA GrowthTime ==
  ASSUME NEW S, NEW T, StoreOK(S, T), NEW S2, NEW T2,
         NEW k, NEW id, NEW t, Grows(S, T, S2, T2, k, id, t)
  PROVE  /\ t \in TimesIn(S2, T2, k)
         /\ \A u \in TimesIn(S2, T2, k) :
              u = t \/ u \in TimesIn(S, T, k)
<1> DEFINE G == /\ t \in TimesIn(S2, T2, k)
                /\ \A u \in TimesIn(S2, T2, k) : u = t \/ u \in TimesIn(S, T, k)
<1>1. StoreOK(S, T) /\ t \in Int /\ t # NULL
  BY StoreAssumption DEF Grows
<1>2. ASSUME NEW n, NEW w, Starts(S, T, S2, T2, n, w),
             n.key = k, n.loginAt = t
      PROVE  G
  <2>1. StatesOf(T2, n.id) = {w} /\ \A s \in S : StatesOf(T2, s.id) = StatesOf(T, s.id)
    BY <1>1, <1>2, StartStates
  <2>2. S2 = S \cup {n} /\ n.logoutAt = NULL /\ w.validFrom = t /\ w.validTo = NULL
    BY <1>2 DEF Starts
  <2>3. t \in TimesIn(S2, T2, k)
    BY <1>2, <2>2, TimesInAre
  <2>4. ASSUME NEW u \in TimesIn(S2, T2, k) PROVE u = t \/ u \in TimesIn(S, T, k)
    <3>1. PICK o \in S2 :
            /\ o.key = k
            /\ \/ u = o.loginAt
               \/ u = o.logoutAt /\ u # NULL
               \/ \E r \in StatesOf(T2, o.id) :
                    u = r.validFrom \/ (u = r.validTo /\ u # NULL)
      BY <2>4, TimesInAre
    <3>2. CASE o = n
      BY <1>2, <2>1, <2>2, <3>1, <3>2
    <3>3. CASE o \in S
      <4>1. StatesOf(T2, o.id) = StatesOf(T, o.id)
        BY <2>1, <3>3
      <4> QED
        BY <3>1, <3>3, <4>1, TimesInAre
    <3> QED
      BY <2>2, <3>2, <3>3
  <2> QED
    BY <2>3, <2>4
<1>3. ASSUME NEW s \in S, s.key = k, NEW s2, NEW r, NEW c, NEW W,
             s.logoutAt = NULL, s2.logoutAt = NULL \/ s2.logoutAt = t,
             ClosesIn(S, T, S2, T2, s, s2, r, c, W),
             c.validFrom = r.validFrom, c.validTo = t,
             \A w \in W : w.validFrom = t
      PROVE  G
  <2> USE DEF ClosesIn
  <2>1. s2 \in S2 /\ s2.key = k /\ c \in StatesOf(T2, s2.id)
    BY <1>3
  <2>2. t \in TimesIn(S2, T2, k)
    BY <1>1, <1>3, <2>1, TimesInAre
  <2>3. ASSUME NEW u \in TimesIn(S2, T2, k) PROVE u = t \/ u \in TimesIn(S, T, k)
    <3>1. PICK o \in S2 :
            /\ o.key = k
            /\ \/ u = o.loginAt
               \/ u = o.logoutAt /\ u # NULL
               \/ \E q \in StatesOf(T2, o.id) :
                    u = q.validFrom \/ (u = q.validTo /\ u # NULL)
      BY <2>3, TimesInAre
    <3>2. CASE o = s2
      <4>1. \A q \in StatesOf(T2, o.id) :
              \/ q \in StatesOf(T, s.id)
              \/ q.validFrom = r.validFrom /\ q.validTo = t
              \/ q.validFrom = t /\ q.validTo = NULL
        BY <1>3, <3>2
      <4>2. \/ u = s.loginAt \/ u = t \/ u = r.validFrom
            \/ \E q \in StatesOf(T, s.id) :
                 u = q.validFrom \/ (u = q.validTo /\ u # NULL)
        BY <1>3, <3>1, <3>2, <4>1
      <4> QED
        BY <1>3, <4>2, TimesInAre
    <3>3. CASE o \in S /\ o # s
      <4>1. StatesOf(T2, o.id) = StatesOf(T, o.id)
        BY <1>3, <3>3
      <4> QED
        BY <3>1, <3>3, <4>1, TimesInAre
    <3> QED
      BY <1>3, <3>2, <3>3
  <2> QED
    BY <2>2, <2>3
<1>4. ASSUME NEW s, NEW s2, NEW r, NEW w, Replaces(S, T, S2, T2, s, s2, r, w),
             s.key = k, w.validFrom = t
      PROVE  G
  <2> DEFINE c == Closed(r, t)
  <2>1. /\ s \in S /\ r \in T /\ S2 = (S \ {s}) \cup {s2}
        /\ s.logoutAt = NULL /\ r.sessionID = s.id /\ r.validTo = NULL /\ w.validTo = NULL
    BY <1>4 DEF Replaces
  <2>2. /\ s2.id = s.id /\ s2.key = s.key /\ s2.loginAt = s.loginAt /\ s2.logoutAt = NULL
        /\ c.validFrom = r.validFrom /\ c.validTo = t
    BY <1>1, <1>4, <2>1 DEF Replaces, StoreOK, SessionRow, StateRow, Closed
  <2>3. /\ StatesOf(T2, s.id) = (StatesOf(T, s.id) \ {r}) \cup {c} \cup {w}
        /\ \A o \in S : o # s => StatesOf(T2, o.id) = StatesOf(T, o.id)
    BY <1>1, <1>4, ReplaceStates
  <2>4. r \in StatesOf(T, s.id)
    BY <2>1 DEF StatesOf
  <2> HIDE DEF c
  <2>5. ClosesIn(S, T, S2, T2, s, s2, r, c, {w})
    BY <1>1, <2>1, <2>2, <2>3, <2>4 DEF ClosesIn
  <2> HIDE DEF G
  <2> QED
    BY <1>3, <1>4, <2>1, <2>2, <2>5
<1>5. ASSUME NEW s, NEW s2, NEW r, Ends(S, T, S2, T2, s, s2, r),
             s.key = k, s2.logoutAt = t
      PROVE  G
  <2> DEFINE c == Closed(r, t)
  <2>1. /\ s \in S /\ r \in T /\ S2 = (S \ {s}) \cup {s2}
        /\ s.logoutAt = NULL /\ r.sessionID = s.id /\ r.validTo = NULL
    BY <1>5 DEF Ends
  <2>2. /\ s2.id = s.id /\ s2.key = s.key /\ s2.loginAt = s.loginAt
        /\ c.validFrom = r.validFrom /\ c.validTo = t
    BY <1>1, <1>5, <2>1 DEF Ends, StoreOK, SessionRow, StateRow, Closed
  <2>3. /\ StatesOf(T2, s.id) = (StatesOf(T, s.id) \ {r}) \cup {c} \cup {}
        /\ \A o \in S : o # s => StatesOf(T2, o.id) = StatesOf(T, o.id)
    BY <1>1, <1>5, EndStates
  <2>4. r \in StatesOf(T, s.id)
    BY <2>1 DEF StatesOf
  <2> HIDE DEF c
  <2>5. ClosesIn(S, T, S2, T2, s, s2, r, c, {})
    BY <1>1, <2>1, <2>2, <2>3, <2>4 DEF ClosesIn
  <2> HIDE DEF G
  <2> QED
    BY <1>3, <1>5, <2>1, <2>2, <2>5
<1> QED
  BY <1>2, <1>4, <1>5 DEF Grows

(* Every key with a time has a latest one.                                 *)
TimesOK(S, T) ==
  \A k \in Keys : /\ TimesIn(S, T, k) \subseteq Int
                  /\ TimesIn(S, T, k) = {} \/ HasLatest(TimesIn(S, T, k))

(* The accepted time is the latest.                                        *)
LEMMA GrowthIsLatest ==
  ASSUME NEW S, NEW T, StoreOK(S, T), NEW S2, NEW T2,
         NEW k, NEW id, NEW t, Grows(S, T, S2, T2, k, id, t)
  PROVE  /\ TimesIn(S2, T2, k) # {}
         /\ TimesIn(S2, T2, k) \subseteq Int
         /\ HasLatest(TimesIn(S2, T2, k))
         /\ Latest(TimesIn(S2, T2, k)) = t
<1> DEFINE U == TimesIn(S2, T2, k)
<1>1. t \in Int /\ \A u \in TimesIn(S, T, k) : u \in Int /\ u <= t
  BY DEF Grows
<1>2. t \in U /\ \A u \in U : u = t \/ u \in TimesIn(S, T, k)
  BY GrowthTime
<1> HIDE DEF U
<1>3. \A u \in U : u \in Int /\ u <= t
  BY <1>1, <1>2
<1>4. HasLatest(U)
  BY <1>2, <1>3 DEF HasLatest
<1>5. Latest(U) \in U /\ t <= Latest(U)
  BY <1>2, <1>4, LatestFacts
<1>6. Latest(U) \in Int /\ Latest(U) <= t
  BY <1>3, <1>5
<1>7. Latest(U) = t
  BY <1>1, <1>5, <1>6
<1> QED
  BY <1>2, <1>3, <1>4, <1>7 DEF U

LEMMA GrowthKeepsTimes ==
  ASSUME NEW S, NEW T, StoreOK(S, T), TimesOK(S, T), NEW S2, NEW T2,
         NEW key, NEW id, NEW t, Grows(S, T, S2, T2, key, id, t)
  PROVE  TimesOK(S2, T2)
<1>1. ASSUME NEW k \in Keys, k # key
      PROVE  TimesIn(S2, T2, k) = TimesIn(S, T, k)
  BY <1>1, TimesFrame DEF Grows
<1> QED
  BY <1>1, GrowthIsLatest DEF TimesOK
-----------------------------------------------------------------------------
(************************ Loading and applying *****************************)

TablesOK(S, T) == StoreOK(S, T) /\ SessionsDisjoint(S) /\ SpansOK(S, T)

LEMMA AcceptsKeepsSpans ==
  ASSUME NEW S, NEW T, StoreOK(S, T), SpansOK(S, T), NEW S2, NEW T2, NEW e,
         Accepts(S, T, S2, T2, e)
  PROVE  SpansOK(S2, T2)
<1>1. CASE \E n, w : Starts(S, T, S2, T2, n, w)
  BY <1>1, SpansStart
<1>2. CASE \E s, s2, r, w : Replaces(S, T, S2, T2, s, s2, r, w)
  BY <1>2, SpansReplace
<1>3. CASE \E s, s2, r : Ends(S, T, S2, T2, s, s2, r)
  BY <1>3, SpansEnd
<1> QED
  BY <1>1, <1>2, <1>3 DEF Accepts

(* An event e is applied in one step; it draws newID if it is a login.     *)
Deliverable(S, T, e, newID) ==
  /\ RepresentableTimes
  /\ TablesOK(S, T) /\ e \in Events /\ newID \in NewSessionIDs(S, e)

(* The event is accepted, or the tables stay as they are.                  *)
LEMMA DeliveryIs ==
  ASSUME NEW S, NEW T, NEW e, NEW newID, Deliverable(S, T, e, newID),
         NEW sn, LoadCurrent(S, T, e.key) = Loaded(sn), sn \in Snapshot
  PROVE  LET o == ApplyEvent(S, T, e, newID)
             m == Decide(sn, e, newID)
         IN
         /\ TablesOK(o.sessions, o.states)
         /\ OnlyKey(S, T, o.sessions, o.states, e.key)
         /\ m.kind \in Writes => Accepts(S, T, o.sessions, o.states, e)
         /\ m.kind \notin Writes => o.sessions = S /\ o.states = T
         /\ o.err = "none" <=> m.kind \in Writes \cup {"duplicate_event"}
<1> DEFINE m == Decide(sn, e, newID)
           o == Applied(S, T, sn, e, newID)
<1>1. ApplyEvent(S, T, e, newID) = o
  BY ApplyEventIs
<1>2. Ready(S, T, sn, e, newID) /\ SessionsDisjoint(S) /\ SpansOK(S, T) /\ StoreOK(S, T)
  BY DEF Ready, HasCurrent, Deliverable, TablesOK
<1>3. /\ StoreOK(o.sessions, o.states)
      /\ m.kind \in DomainErrors \cup Writes \cup {"duplicate_event"}
  BY <1>2, AppliedType DEF Ready, HasCurrent
<1>4. /\ m.kind \notin DomainErrors => o.err = "none"
      /\ m.kind \in DomainErrors => o.err = m.kind
      /\ OnlyKey(S, T, o.sessions, o.states, e.key)
      /\ SessionsDisjoint(o.sessions)
  BY <1>2, AppliedFacts
<1>5. /\ m.kind \in Writes => o.err = "none" /\ Accepts(S, T, o.sessions, o.states, e)
      /\ m.kind \notin Writes => o.sessions = S /\ o.states = T
  BY <1>2, AppliedAccepts
<1> HIDE DEF m, o
<1>6. SpansOK(o.sessions, o.states)
  BY <1>2, <1>5, AcceptsKeepsSpans
<1>7. o.err = "none" <=> m.kind \in Writes \cup {"duplicate_event"}
  BY <1>3, <1>4 DEF DomainErrors, Writes
<1> QED
  BY <1>1, <1>3, <1>4, <1>5, <1>6, <1>7 DEF TablesOK, m, o

LEMMA DeliveryKeepsTables ==
  ASSUME NEW S, NEW T, NEW e, NEW newID, Deliverable(S, T, e, newID)
  PROVE  LET o == ApplyEvent(S, T, e, newID) IN
         /\ TablesOK(o.sessions, o.states)
         /\ OnlyKey(S, T, o.sessions, o.states, e.key)
         /\ \/ Accepts(S, T, o.sessions, o.states, e)
            \/ o.sessions = S /\ o.states = T
<1>1. StoreOK(S, T) /\ e.key \in Keys
  BY DEF Deliverable, TablesOK, Events
<1>2. PICK sn \in Snapshot : LoadCurrent(S, T, e.key) = Loaded(sn)
  BY <1>1, SnapshotLoaded
<1> QED
  BY <1>2, DeliveryIs
-----------------------------------------------------------------------------
(******************** Changes only append to the past **********************)

(* What has ended stays as it is, what is open keeps its beginning.        *)
Appends(S, T, S2, T2) ==
  /\ \A s \in S :
       \E q \in S2 :
         /\ q.id = s.id /\ q.key = s.key /\ q.loginAt = s.loginAt
         /\ s.logoutAt # NULL => q = s
  /\ \A s \in T :
       \E q \in T2 :
         /\ q = [s EXCEPT !.validTo = q.validTo]
         /\ s.validTo # NULL => q = s

LEMMA ChangesAppend ==
  ASSUME NEW S, NEW T, StoreOK(S, T), NEW S2, NEW T2, Changes(S, T, S2, T2)
  PROVE  Appends(S, T, S2, T2)
<1>0. \A s \in T : s = [s EXCEPT !.validTo = s.validTo]
  BY DEF StoreOK, StateRow
<1>1. ASSUME NEW n, NEW w, Starts(S, T, S2, T2, n, w) PROVE Appends(S, T, S2, T2)
  BY <1>0, <1>1 DEF Starts, Appends
<1>2. ASSUME NEW s, NEW s2, NEW r, NEW t, NEW W,
             s \in S, s.logoutAt = NULL, r \in T, r.validTo = NULL,
             s2.id = s.id, s2.key = s.key, s2.loginAt = s.loginAt,
             S2 = (S \ {s}) \cup {s2}, T2 = (T \ {r}) \cup {Closed(r, t)} \cup W
      PROVE  Appends(S, T, S2, T2)
  <2>1. Closed(r, t) = [r EXCEPT !.validTo = Closed(r, t).validTo]
    BY <1>2 DEF Closed, StoreOK, StateRow
  <2> DEFINE r2 == Closed(r, t)
  <2>2. r2 = [r EXCEPT !.validTo = r2.validTo]
    BY <2>1
  <2> HIDE DEF r2
  <2>3. T2 = (T \ {r}) \cup {r2} \cup W
    BY <1>2 DEF r2
  <2>4. \A q \in S :
          \E o \in S2 :
            /\ o.id = q.id /\ o.key = q.key /\ o.loginAt = q.loginAt
            /\ q.logoutAt # NULL => o = q
    BY <1>2
  <2>5. \A q \in T :
          \E o \in T2 :
            /\ o = [q EXCEPT !.validTo = o.validTo]
            /\ q.validTo # NULL => o = q
    BY <1>0, <1>2, <2>2, <2>3
  <2> QED
    BY <2>4, <2>5, Zenon DEF Appends
<1>3. ASSUME NEW s, NEW s2, NEW r, NEW w, Replaces(S, T, S2, T2, s, s2, r, w)
      PROVE  Appends(S, T, S2, T2)
  <2>1. s2.id = s.id /\ s2.key = s.key /\ s2.loginAt = s.loginAt
    BY <1>3 DEF Replaces, StoreOK, SessionRow
  <2>2. T2 = (T \ {r}) \cup {Closed(r, w.validFrom)} \cup {w}
    BY <1>3 DEF Replaces
  <2>3. /\ s \in S /\ s.logoutAt = NULL /\ r \in T /\ r.validTo = NULL
        /\ S2 = (S \ {s}) \cup {s2}
    BY <1>3 DEF Replaces
  <2> QED
    BY <1>2, <2>1, <2>2, <2>3
<1>4. ASSUME NEW s, NEW s2, NEW r, Ends(S, T, S2, T2, s, s2, r)
      PROVE  Appends(S, T, S2, T2)
  <2>1. s2.id = s.id /\ s2.key = s.key /\ s2.loginAt = s.loginAt
    BY <1>4 DEF Ends, StoreOK, SessionRow
  <2>2. T2 = (T \ {r}) \cup {Closed(r, s2.logoutAt)} \cup {}
    BY <1>4 DEF Ends
  <2>3. /\ s \in S /\ s.logoutAt = NULL /\ r \in T /\ r.validTo = NULL
        /\ S2 = (S \ {s}) \cup {s2}
    BY <1>4 DEF Ends
  <2> QED
    BY <1>2, <2>1, <2>2, <2>3
<1> QED
  BY <1>1, <1>3, <1>4 DEF Changes
-----------------------------------------------------------------------------
(************************ States tile their session ************************)

(* The state of R that comes after r is q.                                 *)
ComesNext(r, q, R) ==
  r.id < q.id /\ \A u \in R : r.id < u.id => q.id <= u.id

Chained(s, r, R) ==
  \/ \E q \in R : ComesNext(r, q, R) /\ r.validTo = q.validFrom
  \/ (\A q \in R : q.id <= r.id) /\ r.validTo = s.logoutAt

Tiles(s, R) ==
  /\ \E r \in R : r.validFrom = s.loginAt /\ \A u \in R : r.id <= u.id
  /\ \A r \in R : Chained(s, r, R)

(* A chain whose last state r is closed, at the end of the session or      *)
(* where a new state w begins, is a chain.                                 *)
LEMMA ClosingTiles ==
  ASSUME NEW R \in SUBSET StateRow, NEW r \in R, r.validTo = NULL,
         \A q \in R : q # r => q.id < r.id /\ q.validTo # NULL,
         NEW s, s.logoutAt = NULL, Tiles(s, R),
         NEW s2, s2.loginAt = s.loginAt,
         NEW t \in Int, NEW W \in SUBSET StateRow, NEW R2, R2 = (R \ {r}) \cup {Closed(r, t)} \cup W,
         \/ W = {} /\ s2.logoutAt = t
         \/ /\ s2.logoutAt = NULL
            /\ \E w \in W : /\ W = {w} /\ w.validFrom = t /\ w.validTo = NULL
                            /\ \A q \in R : q.id < w.id
  PROVE  Tiles(s2, R2)
<1> DEFINE r2 == Closed(r, t)
<1>1. /\ r2.id = r.id /\ r2.validFrom = r.validFrom /\ r2.validTo = t
      /\ r2 \in StateRow
  BY DEF Closed, StateRow
<1>2. \A q \in R \cup R2 : q.id \in Int
  <2>1. R2 \subseteq StateRow
    BY <1>1
  <2> QED
    BY <2>1 DEF StateRow
<1>3. r2 \in R2 /\ \A q \in R : q # r => q \in R2
  OBVIOUS
<1>4. \A u \in R2 : u \in W \/ u = r2 \/ (u \in R /\ u # r)
  OBVIOUS
<1>5. \A u \in W : \A q \in R : q.id < u.id
  OBVIOUS
<1> HIDE DEF r2
<1>6. \E f \in R2 : f.validFrom = s2.loginAt /\ \A u \in R2 : f.id <= u.id
  <2>1. PICK f \in R : f.validFrom = s.loginAt /\ \A u \in R : f.id <= u.id
    BY DEF Tiles
  <2>2. \E g \in R2 : g.id = f.id /\ g.validFrom = f.validFrom
    BY <1>1, <1>3
  <2>3. \A u \in R2 : f.id <= u.id
    BY <1>1, <1>2, <1>4, <1>5, <2>1
  <2> QED
    BY <2>1, <2>2, <2>3
<1>7. ASSUME NEW q \in R, q # r PROVE Chained(s2, q, R2)
  <2>1. PICK x \in R : ComesNext(q, x, R) /\ q.validTo = x.validFrom
    BY <1>7 DEF Tiles, Chained
  <2>2. PICK y \in R2 : y.id = x.id /\ y.validFrom = x.validFrom
    BY <1>1, <1>3
  <2>3. q.id < y.id
    BY <2>1, <2>2 DEF ComesNext
  <2>4. ASSUME NEW u \in R2, q.id < u.id PROVE y.id <= u.id
    <3>1. CASE u \in W
      <4>1. x.id < u.id
        BY <1>5, <3>1
      <4> QED
        BY <1>2, <2>2, <4>1
    <3>2. CASE u = r2
      BY <1>1, <2>1, <2>2, <2>4, <3>2 DEF ComesNext
    <3>3. CASE u \in R
      BY <2>1, <2>2, <2>4, <3>3 DEF ComesNext
    <3> QED
      BY <1>4, <3>1, <3>2, <3>3
  <2>5. ComesNext(q, y, R2)
    BY <2>2, <2>3, <2>4 DEF ComesNext
  <2> QED
    BY <2>1, <2>2, <2>5 DEF Chained
<1>8. Chained(s2, r2, R2)
  <2>1. CASE W = {} /\ s2.logoutAt = t
    <3>1. \A q \in R2 : q.id <= r2.id
      BY <1>1, <1>2, <1>4, <2>1
    <3> QED
      BY <1>1, <2>1, <3>1 DEF Chained
  <2>2. ASSUME NEW w \in W, W = {w}, w.validFrom = t PROVE Chained(s2, r2, R2)
    <3>1. w \in R2 /\ r2.id < w.id
      BY <1>1, <1>5, <2>2
    <3>2. \A u \in R2 : r2.id < u.id => w.id <= u.id
      BY <1>1, <1>2, <1>4, <2>2
    <3>3. ComesNext(r2, w, R2)
      BY <3>1, <3>2 DEF ComesNext
    <3> QED
      BY <1>1, <2>2, <3>1, <3>3 DEF Chained
  <2> QED
    BY <2>1, <2>2
<1>9. ASSUME NEW w \in W PROVE Chained(s2, w, R2)
  <2>1. W = {w} /\ w.validTo = NULL /\ s2.logoutAt = NULL /\ w \in R2
    BY <1>9
  <2>2. \A q \in R2 : q.id <= w.id
    BY <1>1, <1>2, <1>4, <1>5, <2>1
  <2> QED
    BY <2>1, <2>2 DEF Chained
<1> QED
  BY <1>4, <1>6, <1>7, <1>8, <1>9 DEF Tiles

Tiled(S, T) == \A s \in S : Tiles(s, StatesOf(T, s.id))

LEMMA ChangesTile ==
  ASSUME NEW S, NEW T, StoreOK(S, T), Tiled(S, T), NEW S2, NEW T2, Changes(S, T, S2, T2)
  PROVE  Tiled(S2, T2)
<1>0. ASSUME NEW s \in S, NEW r \in T, r.sessionID = s.id, r.validTo = NULL
      PROVE  /\ StatesOf(T, s.id) \in SUBSET StateRow /\ r \in StatesOf(T, s.id)
             /\ \A q \in StatesOf(T, s.id) : q # r => q.id < r.id /\ q.validTo # NULL
             /\ Tiles(s, StatesOf(T, s.id))
  BY <1>0 DEF StoreOK, OpenStateIsLast, StatesOf, Tiled
<1>1. ASSUME NEW n, NEW w, Starts(S, T, S2, T2, n, w) PROVE Tiled(S2, T2)
  <2>1. w.id \in Int /\ w.validFrom = n.loginAt /\ w.validTo = n.logoutAt
    BY <1>1 DEF Starts, StateRow
  <2>2. Tiles(n, {w})
    BY <2>1 DEF Tiles, Chained
  <2>3. StatesOf(T2, n.id) = {w} /\ \A o \in S : StatesOf(T2, o.id) = StatesOf(T, o.id)
    BY <1>1, StartStates
  <2>4. S2 = S \cup {n}
    BY <1>1 DEF Starts
  <2>5. ASSUME NEW o \in S PROVE Tiles(o, StatesOf(T2, o.id))
    BY <2>3 DEF Tiled
  <2>6. Tiles(n, StatesOf(T2, n.id))
    BY <2>2, <2>3
  <2> QED
    BY <2>4, <2>5, <2>6 DEF Tiled
<1>2. ASSUME NEW s, NEW s2, NEW r, NEW w, Replaces(S, T, S2, T2, s, s2, r, w)
      PROVE  Tiled(S2, T2)
  <2>1. s2.id = s.id /\ s2.loginAt = s.loginAt /\ s2.logoutAt = NULL
    BY <1>2 DEF Replaces, StoreOK, SessionRow
  <2>2. \A q \in StatesOf(T, s.id) : q.id < w.id
    BY <1>2 DEF Replaces, StatesOf
  <2>3. /\ s \in S /\ r \in T /\ r.sessionID = s.id /\ r.validTo = NULL /\ s.logoutAt = NULL
        /\ w \in StateRow /\ w.validTo = NULL /\ w.validFrom \in Int
    BY <1>2 DEF Replaces, StateRow
  <2>4. StatesOf(T2, s.id) = (StatesOf(T, s.id) \ {r}) \cup {Closed(r, w.validFrom)} \cup {w}
    BY <1>2, ReplaceStates
  <2> DEFINE R == StatesOf(T, s.id)
             R2 == StatesOf(T2, s.id)
             W == {w}
  <2>5. R \in SUBSET StateRow /\ r \in R /\ Tiles(s, R)
        /\ \A q \in R : q # r => q.id < r.id /\ q.validTo # NULL
    BY <1>0, <2>3
  <2>6. W \in SUBSET StateRow /\ \E v \in W : /\ W = {v} /\ v.validFrom = w.validFrom
                                            /\ v.validTo = NULL /\ \A q \in R : q.id < v.id
    BY <2>2, <2>3
  <2>7. R2 = (R \ {r}) \cup {Closed(r, w.validFrom)} \cup W
    BY <2>4
  <2> HIDE DEF R, R2, W
  <2>8. Tiles(s2, R2)
    BY <2>1, <2>3, <2>5, <2>6, <2>7, ClosingTiles
  <2>9. S2 = (S \ {s}) \cup {s2}
    BY <1>2 DEF Replaces
  <2>10. \A o \in S : o # s => StatesOf(T2, o.id) = StatesOf(T, o.id)
    BY <1>2, ReplaceStates
  <2>11. ASSUME NEW o \in S, o # s PROVE Tiles(o, StatesOf(T2, o.id))
    BY <2>10, <2>11 DEF Tiled
  <2>12. Tiles(s2, StatesOf(T2, s2.id))
    BY <2>1, <2>8 DEF R2
  <2> QED
    BY <2>9, <2>11, <2>12 DEF Tiled
<1>3. ASSUME NEW s, NEW s2, NEW r, Ends(S, T, S2, T2, s, s2, r) PROVE Tiled(S2, T2)
  <2>1. s2.id = s.id /\ s2.loginAt = s.loginAt
    BY <1>3 DEF Ends, StoreOK, SessionRow
  <2>2. /\ s \in S /\ r \in T /\ r.sessionID = s.id /\ r.validTo = NULL /\ s.logoutAt = NULL
        /\ s2.logoutAt \in Int
    BY <1>3 DEF Ends
  <2>3. StatesOf(T2, s.id) = (StatesOf(T, s.id) \ {r}) \cup {Closed(r, s2.logoutAt)} \cup {}
    BY <1>3, EndStates
  <2> DEFINE R == StatesOf(T, s.id)
             R2 == StatesOf(T2, s.id)
  <2>4. R \in SUBSET StateRow /\ r \in R /\ Tiles(s, R)
        /\ \A q \in R : q # r => q.id < r.id /\ q.validTo # NULL
    BY <1>0, <2>2
  <2>5. R2 = (R \ {r}) \cup {Closed(r, s2.logoutAt)} \cup {}
    BY <2>3
  <2> HIDE DEF R, R2
  <2>6. Tiles(s2, R2)
    BY <2>1, <2>2, <2>4, <2>5, ClosingTiles
  <2>7. S2 = (S \ {s}) \cup {s2}
    BY <1>3 DEF Ends
  <2>8. \A o \in S : o # s => StatesOf(T2, o.id) = StatesOf(T, o.id)
    BY <1>3, EndStates
  <2>9. ASSUME NEW o \in S, o # s PROVE Tiles(o, StatesOf(T2, o.id))
    BY <2>8, <2>9 DEF Tiled
  <2>10. Tiles(s2, StatesOf(T2, s2.id))
    BY <2>1, <2>6 DEF R2
  <2> QED
    BY <2>7, <2>9, <2>10 DEF Tiled
<1> QED
  BY <1>1, <1>2, <1>3 DEF Changes
=============================================================================
