----------------------- MODULE SessionLifecycleProofs -----------------------
(***************************************************************************)
(* Theorems of EventWorkers about what accepted events do to a key, when   *)
(* one worker owns each key and every time can be stored: the tables       *)
(* implement the timelines of SessionLifecycle, and a replay of the event  *)
(* accepted last changes nothing.                                          *)
(***************************************************************************)
EXTENDS EventWorkersProofs

LEMMA SpansNext ==
  ASSUME TypeInv, SpansOK(sessions, states), [Next]_vars
  PROVE  SpansOK(sessions', states')
<1>1. StoreOK(sessions, states)
  BY DEF TypeInv, StorageOK
<1>2. CASE UNCHANGED tables
  BY <1>2 DEF tables
<1>3. CASE Changes(sessions, states, sessions', states')
  BY <1>1, <1>3, SpansStart, SpansReplace, SpansEnd DEF Changes
<1> QED
  BY <1>2, <1>3, TableSteps

-----------------------------------------------------------------------------
(************************ What an accepted event does **********************)

(* A step that accepts an event e, at time t, for a key k.                 *)
AcceptsEvent(k, e, t) ==
  /\ lastAccepted' = [lastAccepted EXCEPT ![k] = e]
  /\ Grows(sessions, states, sessions', states', k, e.eventID, t)

LEMMA ApplyAccepts ==
  ASSUME RepresentableTimes, SafetyInv, SpansOK(sessions, states),
         NEW p \in Partitions, DecideAndApply(p)
  PROVE  \/ UNCHANGED <<sessions, states, lastAccepted>>
         \/ \E t : AcceptsEvent(event[p].key, event[p], t)
<1> DEFINE k == event[p].key
           id == event[p].eventID
<1>1. PICK newID \in NewSessionIDs(sessions, event[p]) :
        /\ sessions' = Outcome(p, newID).sessions
        /\ states' = Outcome(p, newID).states
        /\ lastAccepted' =
             IF Outcome(p, newID).err = "none" /\ Decision(p, newID).kind # "duplicate_event"
             THEN [lastAccepted EXCEPT ![k] = event[p]]
             ELSE lastAccepted
  BY DEF DecideAndApply
<1> DEFINE m == Decision(p, newID)
           o == Outcome(p, newID)
<1>2. pc[p] = "apply" /\ SessionsDisjoint(sessions)
  BY DEF SafetyInv, DecideAndApply, LifecyclesDisjoint
<1>3. Ready(sessions, states, snap[p], event[p], newID)
  BY <1>1, <1>2, WorkerReady DEF SafetyInv
<1>4. o = Applied(sessions, states, snap[p], event[p], newID)
      /\ m = Decide(snap[p], event[p], newID)
  BY OutcomeIs DEF Decision
<1>5. /\ m.kind \in Writes =>
           o.err = "none" /\ Accepts(sessions, states, o.sessions, o.states, event[p])
      /\ m.kind \notin Writes => o.sessions = sessions /\ o.states = states
  BY <1>2, <1>3, <1>4, AppliedAccepts
<1>6. m.kind \notin Writes => o.err # "none" \/ m.kind = "duplicate_event"
  <2>1. /\ m.kind \in DomainErrors \cup Writes \cup {"duplicate_event"}
        /\ m.kind \in DomainErrors => o.err = m.kind
    BY <1>2, <1>3, <1>4, AppliedType, AppliedFacts DEF Ready, HasCurrent
  <2> QED
    BY <2>1 DEF DomainErrors
<1> HIDE DEF m, o
<1>7. CASE m.kind \in Writes
  <2>1. lastAccepted' = [lastAccepted EXCEPT ![k] = event[p]]
    BY <1>1, <1>5, <1>7 DEF Writes, m, o
  <2>2. Grows(sessions, states, sessions', states', k, id, event[p].at)
    BY <1>1, <1>5, <1>7, AcceptsGrows DEF o
  <2> QED
    BY <2>1, <2>2 DEF AcceptsEvent
<1>8. CASE m.kind \notin Writes
  BY <1>1, <1>5, <1>6, <1>8 DEF m, o
<1> QED
  BY <1>7, <1>8
-----------------------------------------------------------------------------
(************************ A replay changes nothing *************************)

(* The last session of a key holds the id of the event accepted last.      *)
AcceptedIsLast(S, accepted) ==
  \A k \in Keys :
    /\ SessionsOf(S, k) = {} => accepted[k] = NULL
    /\ ~LoginsTie(S, k) =>
         \A s \in S : s.key = k /\ IsLastSession(s, SessionsOf(S, k)) =>
                        s.lastEventID = accepted[k].eventID

LEMMA AcceptedStaysLast ==
  ASSUME SafetyInv, SafetyInv', SpansOK(sessions, states),
         AcceptedIsLast(sessions, lastAccepted),
         NEW key \in Keys, NEW e, NEW t, AcceptsEvent(key, e, t)
  PROVE  AcceptedIsLast(sessions', lastAccepted')
<1>1. PICK x \in sessions' :
        /\ x.key = key /\ x.lastEventID = e.eventID
        /\ \A s \in sessions' : s.key = key => s.loginAt <= x.loginAt
  BY GrowsOnLast DEF SafetyInv, CurrencyInv, TypeInv, StorageOK, LifecyclesDisjoint, AcceptsEvent
<1>2. sessions' \in SUBSET SessionRow
  BY DEF SafetyInv, CurrencyInv, TypeInv, TypeOK
<1>3. lastAccepted'[key] = e /\ \A k \in Keys : k # key => lastAccepted'[k] = lastAccepted[k]
  BY DEF AcceptsEvent, Grows, SafetyInv, CurrencyInv, TypeInv, TypeOK
<1>4. ASSUME NEW k \in Keys, k # key
      PROVE  /\ SessionsOf(sessions', k) = {} => lastAccepted'[k] = NULL
             /\ ~LoginsTie(sessions', k) =>
                  \A s \in sessions' : s.key = k /\ IsLastSession(s, SessionsOf(sessions', k)) =>
                                 s.lastEventID = lastAccepted'[k].eventID
  <2>1. SessionsOf(sessions', k) = SessionsOf(sessions, k)
    BY <1>4 DEF AcceptsEvent, Grows, OnlyKey
  <2>2. LoginsTie(sessions', k) <=> LoginsTie(sessions, k)
    BY <2>1 DEF LoginsTie
  <2>3. \A s \in sessions' : s.key = k => s \in sessions
    BY <2>1 DEF SessionsOf
  <2> QED
    BY <1>3, <1>4, <2>1, <2>2, <2>3 DEF AcceptedIsLast
<1>5. /\ SessionsOf(sessions', key) # {}
      /\ ~LoginsTie(sessions', key) =>
           \A s \in sessions' : s.key = key /\ IsLastSession(s, SessionsOf(sessions', key)) =>
                                  s.lastEventID = lastAccepted'[key].eventID
  <2>1. SessionsOf(sessions', key) # {}
    BY <1>1 DEF SessionsOf
  <2>2. ASSUME ~LoginsTie(sessions', key), NEW s \in sessions', s.key = key,
               IsLastSession(s, SessionsOf(sessions', key))
        PROVE  s = x
    BY <1>1, <1>2, <2>2, LatestLoginIsLast
  <2> QED
    BY <1>1, <1>3, <2>1, <2>2
<1> QED
  BY <1>4, <1>5 DEF AcceptedIsLast

(* What is known of the tables at any time, with the assumptions made.     *)
ReplayInv ==
  SafetyInv /\ SpansOK(sessions, states) /\ AcceptedIsLast(sessions, lastAccepted)

LEMMA TableWriters ==
  ASSUME [Next]_vars
  PROVE  \/ UNCHANGED <<sessions, states, lastAccepted>>
         \/ \E p \in Partitions : DecideAndApply(p)
BY DEF Next, Work, Receive, LoadSessionHistory, LoadStates, Backoff, Abort, DecideCancelled,
       StorageFault, Cancel, Stopped, vars

LEMMA AcceptsKey ==
  ASSUME SafetyInv, NEW p \in Partitions, DecideAndApply(p)
  PROVE  event[p] \in Events /\ event[p].key \in Keys
BY DEF SafetyInv, CurrencyInv, TypeInv, TypeOK, WorkersOK, DecideAndApply, Working, Events

LEMMA ReplayInvNext ==
  ASSUME ExclusiveOwners, RepresentableTimes, ReplayInv, [Next]_vars
  PROVE  ReplayInv'
<1>1. SafetyInv'
  BY SafetyNext DEF ReplayInv
<1>2. SpansOK(sessions', states')
  BY SpansNext DEF ReplayInv, SafetyInv, CurrencyInv
<1>3. AcceptedIsLast(sessions', lastAccepted')
  <2>1. CASE UNCHANGED <<sessions, states, lastAccepted>>
    BY <2>1 DEF ReplayInv
  <2>2. ASSUME NEW p \in Partitions, NEW t, DecideAndApply(p),
               AcceptsEvent(event[p].key, event[p], t)
        PROVE  AcceptedIsLast(sessions', lastAccepted')
    BY <1>1, <2>2, AcceptsKey, AcceptedStaysLast DEF ReplayInv
  <2> QED
    BY <2>1, <2>2, TableWriters, ApplyAccepts DEF ReplayInv
<1> QED
  BY <1>1, <1>2, <1>3 DEF ReplayInv

LEMMA ReplayInvInit == Init => ReplayInv
<1> SUFFICES ASSUME Init PROVE ReplayInv
  OBVIOUS
<1>1. SafetyInv
  BY CurrencyInit DEF SafetyInv, Init, LifecyclesDisjoint, SessionsDisjoint
<1>2. SpansOK(sessions, states)
  BY DEF Init, SpansOK
<1>3. AcceptedIsLast(sessions, lastAccepted)
  BY DEF Init, AcceptedIsLast
<1> QED
  BY <1>1, <1>2, <1>3 DEF ReplayInv

(* The snapshot of a key whose logins do not tie ends with the event       *)
(* accepted last.                                                          *)
LEMMA SnapshotEndsWithAccepted ==
  ASSUME ReplayInv, NEW k \in Keys, lastAccepted[k] # NULL, ~LoginsTie(sessions, k),
         NEW sn, FreshLoad(k) = Loaded(sn)
  PROVE  sn.lastEventID = lastAccepted[k].eventID
<1> DEFINE rows == SessionsOf(sessions, k)
           l == LastSession(rows)
<1>1. StoreOK(sessions, states) /\ rows # {}
  BY DEF ReplayInv, SafetyInv, CurrencyInv, TypeInv, StorageOK, AcceptedIsLast
<1>2. sn.lastEventID = l.lastEventID /\ IsLastSession(l, rows)
  BY <1>1, SnapshotIs DEF FreshLoad
<1>3. l \in sessions /\ l.key = k
  BY <1>2 DEF IsLastSession, SessionsOf
<1> HIDE DEF l
<1> QED
  BY <1>2, <1>3 DEF ReplayInv, AcceptedIsLast

LEMMA ReplayStep ==
  ASSUME ExclusiveOwners, RepresentableTimes, ReplayInv, [Next]_vars,
         NEW p \in Partitions, NEW k \in Keys, SettlesFor(p, k),
         RepeatsTheID(event[p], lastAccepted[k]), ~LoginsTie(sessions, k)
  PROVE  UNCHANGED tables
<1>1. TypeInv /\ ControlOK
  BY DEF ReplayInv, SafetyInv, CurrencyInv, TypeInv, TypeOK, ControlOK
<1>2. /\ pc[p] = "apply" /\ event[p].key = k /\ event'[p] = NULL
      /\ lastAccepted[k] # NULL /\ event[p].eventID = lastAccepted[k].eventID
  BY DEF SettlesFor, RepeatsTheID
<1>3. event[p] \in Events
  BY <1>1, <1>2 DEF ControlOK, WorkersOK, Working
<1>4. event[p] # NULL
  BY <1>3, EventWorkersAssumption
<1>5. ASSUME NEW q \in Partitions, DecideAndApply(q) PROVE UNCHANGED tables
  <2>1. PICK newID \in NewSessionIDs(sessions, event[q]) :
          /\ sessions' = Outcome(q, newID).sessions
          /\ states' = Outcome(q, newID).states
          /\ Return(q, Outcome(q, newID).err)
    BY <1>5 DEF DecideAndApply
  <2>2. q = p
    BY <1>1, <1>2, <1>4, <2>1, ReturnFacts
  <2>3. FreshLoad(k) = Loaded(snap[p])
    BY <1>2 DEF ReplayInv, SafetyInv, CurrencyInv, SnapshotIsCurrent
  <2>4. snap[p].lastEventID = event[p].eventID
    BY <1>2, <1>4, <2>3, SnapshotEndsWithAccepted
  <2>5. Decision(p, newID).kind = "duplicate_event"
    BY <2>4 DEF Decision, Decide, PrepareTransition, DuplicateEvent, Mutation
  <2>6. Effect(sessions, states, sessions', states', Outcome(p, newID).err,
               event[p].key, Decision(p, newID))
    BY <1>1, <1>2, <2>1, <2>2, OutcomeEffect
  <2> QED
    BY <2>5, <2>6 DEF Effect, tables
<1> QED
  BY <1>5, TableWriters DEF tables

(* The event of a key that was accepted last changes nothing when it is    *)
(* delivered again, nor does any event that carries its id, provided the   *)
(* sessions of the key logged in at different instants: the row            *)
(* loadCurrent takes LastEventID from is then the one the event wrote.     *)
THEOREM ReplaysChangeNothing ==
  ASSUME ExclusiveOwners, RepresentableTimes
  PROVE  Spec => ReplayIsNoopUnlessLoginsTie
<1>1. ReplayInv /\ [Next]_vars => ReplayInv'
  BY ReplayInvNext
<1>2. ReplayInv /\ [Next]_vars =>
        [\A p \in Partitions, k \in Keys :
           /\ SettlesFor(p, k)
           /\ RepeatsTheID(event[p], lastAccepted[k]) /\ ~LoginsTie(sessions, k)
           => UNCHANGED tables]_vars
  BY ReplayStep
<1> QED
  BY <1>1, <1>2, ReplayInvInit, PTL DEF Spec, ReplayIsNoopUnlessLoginsTie
-----------------------------------------------------------------------------
(************************ Tables as timelines ******************************)

OpenPeriod(s, r) == [login |-> s.loginAt, from |-> r.validFrom, tags |-> r.tags]

PastPeriod(s, r) ==
  [login |-> s.loginAt, from |-> r.validFrom, to |-> r.validTo, tags |-> r.tags]

EndedSession(s) == [login |-> s.loginAt, logout |-> s.logoutAt]

OpenIn(S, T, k) ==
  UNION {{OpenPeriod(s, r) : r \in {q \in StatesOf(T, s.id) : q.validTo = NULL}} :
          s \in SessionsOf(S, k)}

PastIn(S, T, k) ==
  UNION {{PastPeriod(s, r) : r \in {q \in StatesOf(T, s.id) : q.validTo # NULL}} :
          s \in SessionsOf(S, k)}

EndedIn(S, k) ==
  {EndedSession(s) : s \in {r \in SessionsOf(S, k) : r.logoutAt # NULL}}

LEMMA PeriodsAre ==
  ASSUME NEW S, NEW T, NEW k, NEW x
  PROVE  /\ x \in OpenIn(S, T, k) <=>
              \E s \in S : /\ s.key = k
                           /\ \E r \in StatesOf(T, s.id) : r.validTo = NULL /\ x = OpenPeriod(s, r)
         /\ x \in PastIn(S, T, k) <=>
              \E s \in S : /\ s.key = k
                           /\ \E r \in StatesOf(T, s.id) : r.validTo # NULL /\ x = PastPeriod(s, r)
BY DEF OpenIn, PastIn, SessionsOf

LEMMA EndedAre ==
  ASSUME NEW S, NEW k, NEW x
  PROVE  x \in EndedIn(S, k) <=>
           \E s \in S : s.key = k /\ s.logoutAt # NULL /\ x = EndedSession(s)
BY DEF EndedIn, SessionsOf

(* A timeline depends on no row of another key.                            *)
LEMMA TimelineFrame ==
  ASSUME NEW S, NEW T, NEW S2, NEW T2, NEW key, OnlyKey(S, T, S2, T2, key),
         NEW k, k # key
  PROVE  /\ OpenIn(S2, T2, k) = OpenIn(S, T, k)
         /\ PastIn(S2, T2, k) = PastIn(S, T, k)
         /\ EndedIn(S2, k) = EndedIn(S, k)
         /\ TimesIn(S2, T2, k) = TimesIn(S, T, k)
<1>1. SessionsOf(S2, k) = SessionsOf(S, k)
  BY DEF OnlyKey
<1>2. \A s \in SessionsOf(S, k) : StatesOf(T2, s.id) = StatesOf(T, s.id)
  BY DEF OnlyKey, SessionsOf
<1> QED
  BY <1>1, <1>2 DEF OpenIn, PastIn, EndedIn, TimesIn

(* How the timeline of a key goes on: like the steps of SessionLifecycle.  *)
StartsTimeline(S, T, S2, T2, k, t) ==
  /\ OpenIn(S, T, k) = {}
  /\ \E tags \in TagSets \cup {{}} :
       OpenIn(S2, T2, k) = {[login |-> t, from |-> t, tags |-> tags]}
  /\ PastIn(S2, T2, k) = PastIn(S, T, k)
  /\ EndedIn(S2, k) = EndedIn(S, k)

ReplacesTimeline(S, T, S2, T2, k, t) ==
  \E s, r :
    /\ OpenIn(S, T, k) = {OpenPeriod(s, r)} /\ s.loginAt \in Int /\ r.validFrom \in Int
    /\ r.tags \in TagSets \cup {{}}
    /\ \E tags \in TagSets \cup {{}} :
         OpenIn(S2, T2, k) = {[login |-> s.loginAt, from |-> t, tags |-> tags]}
    /\ PastIn(S2, T2, k) = PastIn(S, T, k) \cup
         {[login |-> s.loginAt, from |-> r.validFrom, to |-> t, tags |-> r.tags]}
    /\ EndedIn(S2, k) = EndedIn(S, k)

EndsTimeline(S, T, S2, T2, k, t) ==
  \E s, r :
    /\ OpenIn(S, T, k) = {OpenPeriod(s, r)} /\ s.loginAt \in Int /\ r.validFrom \in Int
    /\ r.tags \in TagSets \cup {{}}
    /\ OpenIn(S2, T2, k) = {}
    /\ PastIn(S2, T2, k) = PastIn(S, T, k) \cup
         {[login |-> s.loginAt, from |-> r.validFrom, to |-> t, tags |-> r.tags]}
    /\ EndedIn(S2, k) = EndedIn(S, k) \cup {[login |-> s.loginAt, logout |-> t]}

(* Only the open session of a key has an open state, and just one.         *)
LEMMA OpenIsUnique ==
  ASSUME NEW S, NEW T, StoreOK(S, T), NEW s \in S, NEW r \in T,
         s.logoutAt = NULL, r.sessionID = s.id, r.validTo = NULL
  PROVE  OpenIn(S, T, s.key) = {OpenPeriod(s, r)}
<1>1. ASSUME NEW o \in S, o.key = s.key, NEW q \in StatesOf(T, o.id), q.validTo = NULL
      PROVE  o = s /\ q = r
  <2>1. q \in T /\ q.sessionID = o.id
    BY DEF StatesOf
  <2>2. o.logoutAt = NULL
    BY <1>1, <2>1, OpenOwner
  <2>3. o = s
    BY <1>1, <2>2 DEF StoreOK, RowsAreUnique
  <2> QED
    BY <1>1, <2>1, <2>3 DEF StoreOK, OpenStateIsLast
<1>2. r \in StatesOf(T, s.id)
  BY DEF StatesOf
<1>3. \A x : x \in OpenIn(S, T, s.key) <=> x = OpenPeriod(s, r)
  BY <1>1, <1>2, PeriodsAre
<1> QED
  BY <1>3

LEMMA StartsMaps ==
  ASSUME NEW S, NEW T, StoreOK(S, T), NEW S2, NEW T2, NEW n, NEW w,
         Starts(S, T, S2, T2, n, w)
  PROVE  StartsTimeline(S, T, S2, T2, n.key, n.loginAt)
<1>1. /\ S2 = S \cup {n} /\ n.logoutAt = NULL /\ w.validFrom = n.loginAt
      /\ w.validTo = NULL /\ w.tags \in TagSets \cup {{}}
      /\ \A s \in S : s.id # n.id /\ ~(s.key = n.key /\ s.logoutAt = NULL)
  BY DEF Starts, StateRow
<1>2. StatesOf(T2, n.id) = {w} /\ \A s \in S : StatesOf(T2, s.id) = StatesOf(T, s.id)
  BY StartStates
<1>3. ASSUME NEW s \in S, s.key = n.key, NEW r \in StatesOf(T, s.id)
      PROVE  r.validTo # NULL
  BY <1>1, <1>3, OpenOwner DEF StatesOf
<1>4. OpenIn(S, T, n.key) = {}
  <2>1. \A x : x \notin OpenIn(S, T, n.key)
    BY <1>3, PeriodsAre
  <2> QED
    BY <2>1
<1>5. OpenIn(S2, T2, n.key) = {OpenPeriod(n, w)}
  <2>1. \A x : x \in OpenIn(S2, T2, n.key) <=> x = OpenPeriod(n, w)
    BY <1>1, <1>2, <1>3, PeriodsAre
  <2> QED
    BY <2>1
<1>6. PastIn(S2, T2, n.key) = PastIn(S, T, n.key)
  <2>1. \A x : x \in PastIn(S2, T2, n.key) <=> x \in PastIn(S, T, n.key)
    BY <1>1, <1>2, PeriodsAre
  <2> QED
    BY <2>1
<1>7. EndedIn(S2, n.key) = EndedIn(S, n.key)
  <2>1. \A x : x \in EndedIn(S2, n.key) <=> x \in EndedIn(S, n.key)
    BY <1>1, EndedAre
  <2> QED
    BY <2>1
<1> QED
  BY <1>1, <1>4, <1>5, <1>6, <1>7 DEF StartsTimeline, OpenPeriod

(* The timeline then gains one past period.                                *)
LEMMA ClosingAddsPast ==
  ASSUME NEW S, NEW T, NEW S2, NEW T2, NEW s, NEW s2, NEW r, NEW c, NEW W,
         ClosesIn(S, T, S2, T2, s, s2, r, c, W)
  PROVE  PastIn(S2, T2, s.key) = PastIn(S, T, s.key) \cup {PastPeriod(s2, c)}
<1> USE DEF ClosesIn
<1>1. \A q : PastPeriod(s2, q) = PastPeriod(s, q)
  BY DEF PastPeriod
<1>2. ASSUME NEW x \in PastIn(S2, T2, s.key)
      PROVE  x \in PastIn(S, T, s.key) \/ x = PastPeriod(s2, c)
  <2>1. PICK o \in S2 :
          /\ o.key = s.key
          /\ \E q \in StatesOf(T2, o.id) : q.validTo # NULL /\ x = PastPeriod(o, q)
    BY <1>2, PeriodsAre
  <2>2. PICK q \in StatesOf(T2, o.id) : q.validTo # NULL /\ x = PastPeriod(o, q)
    BY <2>1
  <2>3. CASE o = s2
    <3>1. q \in StatesOf(T, s.id) \/ q = c
      BY <2>2, <2>3
    <3>2. CASE q = c
      BY <2>2, <2>3, <3>2
    <3>3. CASE q \in StatesOf(T, s.id)
      <4>1. x = PastPeriod(s, q)
        BY <1>1, <2>2, <2>3
      <4> QED
        BY <2>2, <3>3, <4>1, PeriodsAre
    <3> QED
      BY <3>1, <3>2, <3>3
  <2>4. CASE o \in S /\ o # s
    BY <2>1, <2>2, <2>4, PeriodsAre
  <2> QED
    BY <2>3, <2>4
<1>3. PastPeriod(s2, c) \in PastIn(S2, T2, s.key)
  <2>1. s2 \in S2 /\ c \in StatesOf(T2, s2.id)
    OBVIOUS
  <2> QED
    BY <2>1, PeriodsAre
<1>4. ASSUME NEW x \in PastIn(S, T, s.key) PROVE x \in PastIn(S2, T2, s.key)
  <2>1. PICK o \in S :
          /\ o.key = s.key
          /\ \E q \in StatesOf(T, o.id) : q.validTo # NULL /\ x = PastPeriod(o, q)
    BY <1>4, PeriodsAre
  <2>2. PICK q \in StatesOf(T, o.id) : q.validTo # NULL /\ x = PastPeriod(o, q)
    BY <2>1
  <2>3. CASE o = s
    <3>1. s2 \in S2 /\ q \in StatesOf(T2, s2.id) /\ x = PastPeriod(s2, q)
      BY <1>1, <2>2, <2>3
    <3> QED
      BY <2>2, <3>1, PeriodsAre
  <2>4. CASE o # s
    BY <2>1, <2>2, <2>4, PeriodsAre
  <2> QED
    BY <2>3, <2>4
<1> QED
  BY <1>2, <1>3, <1>4

LEMMA ReplacesMaps ==
  ASSUME NEW S, NEW T, StoreOK(S, T), NEW S2, NEW T2, NEW s, NEW s2, NEW r, NEW w,
         Replaces(S, T, S2, T2, s, s2, r, w)
  PROVE  ReplacesTimeline(S, T, S2, T2, s.key, w.validFrom)
<1> DEFINE k == s.key
           t == w.validFrom
           c == Closed(r, t)
<1>1. /\ s \in S /\ r \in T /\ s.logoutAt = NULL /\ r.sessionID = s.id /\ r.validTo = NULL
      /\ S2 = (S \ {s}) \cup {s2} /\ w.validTo = NULL /\ t \in Int
      /\ w.tags \in TagSets \cup {{}}
  BY DEF Replaces, StateRow
<1>2. /\ s2.id = s.id /\ s2.key = k /\ s2.loginAt = s.loginAt /\ s2.logoutAt = NULL
      /\ s.loginAt \in Int /\ r.validFrom \in Int /\ r.tags \in TagSets \cup {{}}
      /\ c.validFrom = r.validFrom /\ c.validTo = t /\ c.tags = r.tags
  BY DEF Replaces, StoreOK, SessionRow, StateRow, Closed
<1>3. /\ StatesOf(T2, s.id) = (StatesOf(T, s.id) \ {r}) \cup {c, w}
      /\ \A o \in S : o # s => StatesOf(T2, o.id) = StatesOf(T, o.id)
  BY ReplaceStates
<1>4. t # NULL
  BY <1>1, StoreAssumption
<1>5. ASSUME NEW o \in S, o.key = k, NEW q \in StatesOf(T, o.id), q.validTo = NULL
      PROVE  o = s /\ q = r
  <2>1. q \in T /\ q.sessionID = o.id
    BY DEF StatesOf
  <2>2. o.logoutAt = NULL
    BY <1>5, <2>1, OpenOwner
  <2>3. o = s
    BY <1>1, <1>5, <2>2 DEF StoreOK, RowsAreUnique
  <2> QED
    BY <1>1, <1>5, <2>1, <2>3 DEF StoreOK, OpenStateIsLast
<1>6. r \in StatesOf(T, s.id)
  BY <1>1 DEF StatesOf
<1>7. OpenIn(S, T, k) = {OpenPeriod(s, r)}
  BY <1>1, OpenIsUnique
<1> DEFINE new == [login |-> s.loginAt, from |-> t, tags |-> w.tags]
           old == [login |-> s.loginAt, from |-> r.validFrom, to |-> t, tags |-> r.tags]
<1>8. OpenPeriod(s2, w) = new /\ PastPeriod(s2, c) = old
  BY <1>2 DEF OpenPeriod, PastPeriod
<1> HIDE DEF c, new, old, t, k
<1>10. OpenIn(S2, T2, k) = {new}
  <2>1. ASSUME NEW o \in S2, o.key = k, NEW q \in StatesOf(T2, o.id), q.validTo = NULL
        PROVE  o = s2 /\ q = w
    <3>1. CASE o = s2
      <4>1. (q \in StatesOf(T, s.id) /\ q # r) \/ q = c \/ q = w
        BY <1>2, <1>3, <3>1
      <4> QED
        BY <1>1, <1>2, <1>4, <1>5, <2>1, <3>1, <4>1 DEF k
    <3>2. CASE o \in S /\ o # s
      BY <1>3, <1>5, <2>1, <3>2
    <3> QED
      BY <1>1, <3>1, <3>2
  <2>2. s2 \in S2 /\ s2.key = k /\ w \in StatesOf(T2, s2.id) /\ w.validTo = NULL
    BY <1>1, <1>2, <1>3
  <2>3. \A x : x \in OpenIn(S2, T2, k) <=> x = new
    BY <1>8, <2>1, <2>2, PeriodsAre
  <2> QED
    BY <2>3
<1>11. PastIn(S2, T2, k) = PastIn(S, T, k) \cup {old}
  <2>1. StatesOf(T2, s2.id) = (StatesOf(T, s.id) \ {r}) \cup {c} \cup {w}
    BY <1>2, <1>3
  <2>2. \A v \in {w} : v.validTo = NULL
    BY <1>1
  <2>3. ClosesIn(S, T, S2, T2, s, s2, r, c, {w})
    BY <1>1, <1>2, <1>3, <1>4, <1>6, <2>1, <2>2 DEF ClosesIn, k
  <2> QED
    BY <1>8, <2>3, ClosingAddsPast DEF k
<1>12. EndedIn(S2, k) = EndedIn(S, k)
  <2>1. \A x : x \in EndedIn(S2, k) <=> x \in EndedIn(S, k)
    BY <1>1, <1>2, EndedAre
  <2> QED
    BY <2>1
<1> QED
  BY <1>1, <1>2, <1>7, <1>10, <1>11, <1>12 DEF ReplacesTimeline, new, old, k, t

LEMMA EndsMaps ==
  ASSUME NEW S, NEW T, StoreOK(S, T), NEW S2, NEW T2, NEW s, NEW s2, NEW r,
         Ends(S, T, S2, T2, s, s2, r)
  PROVE  EndsTimeline(S, T, S2, T2, s.key, s2.logoutAt)
<1> DEFINE k == s.key
           t == s2.logoutAt
           c == Closed(r, t)
<1>1. /\ s \in S /\ r \in T /\ s.logoutAt = NULL /\ r.sessionID = s.id /\ r.validTo = NULL
      /\ S2 = (S \ {s}) \cup {s2} /\ t \in Int
  BY DEF Ends
<1>2. /\ s2.id = s.id /\ s2.key = k /\ s2.loginAt = s.loginAt
      /\ s.loginAt \in Int /\ r.validFrom \in Int /\ r.tags \in TagSets \cup {{}}
      /\ c.validFrom = r.validFrom /\ c.validTo = t /\ c.tags = r.tags
  BY DEF Ends, StoreOK, SessionRow, StateRow, Closed
<1>3. /\ StatesOf(T2, s.id) = (StatesOf(T, s.id) \ {r}) \cup {c}
      /\ \A o \in S : o # s => StatesOf(T2, o.id) = StatesOf(T, o.id)
  BY EndStates
<1>4. t # NULL
  BY <1>1, StoreAssumption
<1>5. OpenIn(S, T, k) = {OpenPeriod(s, r)}
  BY <1>1, OpenIsUnique
<1>6. r \in StatesOf(T, s.id)
  BY <1>1 DEF StatesOf
<1> DEFINE old == [login |-> s.loginAt, from |-> r.validFrom, to |-> t, tags |-> r.tags]
           over == [login |-> s.loginAt, logout |-> t]
<1>7. PastPeriod(s2, c) = old /\ EndedSession(s2) = over
  BY <1>2 DEF PastPeriod, EndedSession
<1> HIDE DEF c, old, over
<1>8. OpenIn(S2, T2, k) = {}
  <2>1. ASSUME NEW o \in S2, o.key = k, NEW q \in StatesOf(T2, o.id) PROVE q.validTo # NULL
    <3>1. ASSUME NEW u \in S, u.key = k, NEW v \in StatesOf(T, u.id), v.validTo = NULL
          PROVE  u = s /\ v = r
      <4>1. v \in T /\ v.sessionID = u.id
        BY DEF StatesOf
      <4>2. u.logoutAt = NULL
        BY <3>1, <4>1, OpenOwner
      <4>3. u = s
        BY <1>1, <3>1, <4>2 DEF StoreOK, RowsAreUnique
      <4> QED
        BY <1>1, <3>1, <4>1, <4>3 DEF StoreOK, OpenStateIsLast
    <3>2. CASE o = s2
      <4>1. (q \in StatesOf(T, s.id) /\ q # r) \/ q = c
        BY <1>2, <1>3, <2>1, <3>2
      <4> QED
        BY <1>1, <1>2, <1>4, <3>1, <4>1
    <3>3. CASE o \in S /\ o # s
      BY <1>3, <2>1, <3>1, <3>3
    <3> QED
      BY <1>1, <3>2, <3>3
  <2>2. \A x : x \notin OpenIn(S2, T2, k)
    BY <2>1, PeriodsAre
  <2> QED
    BY <2>2
<1>9. PastIn(S2, T2, k) = PastIn(S, T, k) \cup {old}
  <2>1. StatesOf(T2, s2.id) = (StatesOf(T, s.id) \ {r}) \cup {c} \cup {}
    BY <1>2, <1>3
  <2>2. ClosesIn(S, T, S2, T2, s, s2, r, c, {})
    BY <1>1, <1>2, <1>3, <1>4, <1>6, <2>1 DEF ClosesIn
  <2> QED
    BY <1>7, <2>2, ClosingAddsPast
<1>10. EndedIn(S2, k) = EndedIn(S, k) \cup {over}
  <2>1. \A x : x \in EndedIn(S2, k) <=> x \in EndedIn(S, k) \/ x = over
    BY <1>1, <1>2, <1>4, <1>7, EndedAre
  <2> QED
    BY <2>1
<1> QED
  BY <1>2, <1>5, <1>8, <1>9, <1>10 DEF EndsTimeline, old, over

-----------------------------------------------------------------------------
(************************ The refinement ***********************************)

LifecycleInv == ReplayInv /\ TimesOK(sessions, states)

CurrentOf(k) == IF OpenPeriods(k) = {} THEN NULL ELSE CHOOSE o \in OpenPeriods(k) : TRUE
ClockOf(k)   == IF KeyTimes(k) = {} THEN NULL ELSE Latest(KeyTimes(k))

LEMMA MappingIs ==
  ASSUME NEW k
  PROVE  /\ OpenPeriods(k) = OpenIn(sessions, states, k)
         /\ PastPeriods(k) = PastIn(sessions, states, k)
         /\ EndedSessions(k) = EndedIn(sessions, k)
         /\ KeyTimes(k) = TimesIn(sessions, states, k)
         /\ OpenPeriods(k)' = OpenIn(sessions', states', k)
         /\ PastPeriods(k)' = PastIn(sessions', states', k)
         /\ EndedSessions(k)' = EndedIn(sessions', k)
         /\ KeyTimes(k)' = TimesIn(sessions', states', k)
BY DEF OpenPeriods, PastPeriods, EndedSessions, KeyTimes, OpenIn, PastIn, EndedIn, TimesIn,
       OpenPeriod, PastPeriod, EndedSession

(* What an accepted event does to the timelines of all keys.               *)
LEMMA AcceptsMaps ==
  ASSUME StorageOK, NEW key, NEW e, NEW t, AcceptsEvent(key, e, t)
  PROVE  /\ \A k : k # key => /\ CurrentOf(k)' = CurrentOf(k)
                              /\ PastPeriods(k)' = PastPeriods(k)
                              /\ EndedSessions(k)' = EndedSessions(k)
                              /\ ClockOf(k)' = ClockOf(k)
         /\ ClockOf(key)' = t
         /\ \/ StartsTimeline(sessions, states, sessions', states', key, t)
            \/ ReplacesTimeline(sessions, states, sessions', states', key, t)
            \/ EndsTimeline(sessions, states, sessions', states', key, t)
<1>1. ASSUME NEW k, k # key
      PROVE  /\ OpenPeriods(k)' = OpenPeriods(k) /\ PastPeriods(k)' = PastPeriods(k)
             /\ EndedSessions(k)' = EndedSessions(k) /\ KeyTimes(k)' = KeyTimes(k)
  <2>1. OnlyKey(sessions, states, sessions', states', key)
    BY DEF AcceptsEvent, Grows
  <2>2. /\ OpenIn(sessions', states', k) = OpenIn(sessions, states, k)
        /\ PastIn(sessions', states', k) = PastIn(sessions, states, k)
        /\ EndedIn(sessions', k) = EndedIn(sessions, k)
        /\ TimesIn(sessions', states', k) = TimesIn(sessions, states, k)
    BY <1>1, <2>1, TimelineFrame
  <2> QED
    BY <2>2, MappingIs
<1>2. ClockOf(key)' = t
  BY GrowthIsLatest, MappingIs DEF ClockOf, StorageOK, AcceptsEvent
<1>3. StoreOK(sessions, states)
  BY DEF StorageOK
<1>4. \/ StartsTimeline(sessions, states, sessions', states', key, t)
      \/ ReplacesTimeline(sessions, states, sessions', states', key, t)
      \/ EndsTimeline(sessions, states, sessions', states', key, t)
  BY <1>3, StartsMaps, ReplacesMaps, EndsMaps DEF AcceptsEvent, Grows
<1>5. ASSUME NEW k, k # key
      PROVE  CurrentOf(k)' = CurrentOf(k) /\ ClockOf(k)' = ClockOf(k)
  <2>1. OpenPeriods(k)' = OpenPeriods(k) /\ KeyTimes(k)' = KeyTimes(k)
    BY <1>1, <1>5
  <2> QED
    BY <2>1 DEF CurrentOf, ClockOf
<1> QED
  BY <1>1, <1>2, <1>4, <1>5

LEMMA AcceptImplements ==
  ASSUME LifecycleInv, NEW key \in Keys, NEW e, NEW t, AcceptsEvent(key, e, t)
  PROVE  Lifecycle!Next
<1> DEFINE current == [k \in Keys |-> CurrentOf(k)]
           past == [k \in Keys |-> PastPeriods(k)]
           ended == [k \in Keys |-> EndedSessions(k)]
           clock == [k \in Keys |-> ClockOf(k)]
<1>1. StorageOK /\ TimesOK(sessions, states) /\ t \in Int /\ t # NULL
  BY StoreAssumption DEF LifecycleInv, ReplayInv, SafetyInv, CurrencyInv, TypeInv, AcceptsEvent, Grows
<1>2. /\ \A k : k # key => /\ CurrentOf(k)' = CurrentOf(k)
                           /\ PastPeriods(k)' = PastPeriods(k)
                           /\ EndedSessions(k)' = EndedSessions(k)
                           /\ ClockOf(k)' = ClockOf(k)
      /\ ClockOf(key)' = t
      /\ \/ StartsTimeline(sessions, states, sessions', states', key, t)
         \/ ReplacesTimeline(sessions, states, sessions', states', key, t)
         \/ EndsTimeline(sessions, states, sessions', states', key, t)
  BY <1>1, AcceptsMaps
<1>3. clock' = [clock EXCEPT ![key] = t] /\ clock'[key] = t
  BY <1>2
<1>4. clock[key] = NULL \/ clock[key] <= t
  <2>1. CASE KeyTimes(key) = {}
    BY <2>1 DEF ClockOf
  <2>2. CASE KeyTimes(key) # {}
    <3>1. HasLatest(TimesIn(sessions, states, key))
      BY <1>1, <2>2, MappingIs DEF TimesOK
    <3>2. Latest(TimesIn(sessions, states, key)) \in TimesIn(sessions, states, key)
      BY <3>1, LatestFacts
    <3>3. Latest(TimesIn(sessions, states, key)) <= t
      BY <3>2 DEF AcceptsEvent, Grows
    <3>4. clock[key] = Latest(TimesIn(sessions, states, key))
      BY <2>2, MappingIs DEF ClockOf
    <3> QED
      BY <3>3, <3>4
  <2> QED
    BY <2>1, <2>2
<1>5. ASSUME NEW o \in [login : Int, from : Int, tags : TagSets \cup {{}}] PROVE o # NULL
  BY EventWorkersAssumption
<1>6. ASSUME NEW o, OpenPeriods(key) = {o} PROVE current[key] = o
  BY <1>6 DEF CurrentOf
<1>7. ASSUME NEW o, OpenPeriods(key)' = {o}
      PROVE  current' = [current EXCEPT ![key] = o] /\ current'[key] = o
  <2>1. CurrentOf(key)' = o
    BY <1>7 DEF CurrentOf
  <2> QED
    BY <1>2, <2>1
<1>8. \A x : /\ PastPeriods(key)' = x => past' = [past EXCEPT ![key] = x]
             /\ EndedSessions(key)' = x => ended' = [ended EXCEPT ![key] = x]
  BY <1>2
<1>9. ASSUME StartsTimeline(sessions, states, sessions', states', key, t)
      PROVE  Lifecycle!Next
  <2>1. PICK tags \in TagSets \cup {{}} :
          OpenPeriods(key)' = {[login |-> t, from |-> t, tags |-> tags]}
    BY <1>9, MappingIs DEF StartsTimeline
  <2> DEFINE o == [login |-> t, from |-> t, tags |-> tags]
  <2>2. current[key] = NULL
    BY <1>9, MappingIs DEF StartsTimeline, CurrentOf
  <2>3. o \in [login : Int, from : Int, tags : TagSets \cup {{}}] /\ o.tags = tags
    BY <1>1
  <2>4. current' = [current EXCEPT ![key] = o] /\ current'[key] = o
    BY <1>7, <2>1
  <2>5. o # NULL
    BY <1>5, <2>3
  <2>6. past' = past
    <3>1. PastPeriods(key)' = PastPeriods(key)
      BY <1>9, MappingIs DEF StartsTimeline
    <3> QED
      BY <1>2, <3>1
  <2>7. ended' = ended
    <3>1. EndedSessions(key)' = EndedSessions(key)
      BY <1>9, MappingIs DEF StartsTimeline
    <3> QED
      BY <1>2, <3>1
  <2> DEFINE A == current'[key] # NULL /\ Lifecycle!Start(key, clock'[key], current'[key].tags)
  <2>8. A
    BY <1>3, <1>4, <2>2, <2>3, <2>4, <2>5, <2>6, <2>7
    DEF Lifecycle!Start, Lifecycle!NotBefore, CurrentOf, ClockOf
  <2> QED
    BY <2>8 DEF Lifecycle!Next, CurrentOf, ClockOf
<1>10. ASSUME NEW s, NEW r, OpenIn(sessions, states, key) = {OpenPeriod(s, r)},
              s.loginAt \in Int, r.validFrom \in Int, r.tags \in TagSets \cup {{}},
              PastIn(sessions', states', key) = PastIn(sessions, states, key) \cup
                {[login |-> s.loginAt, from |-> r.validFrom, to |-> t, tags |-> r.tags]}
       PROVE  /\ current[key] = OpenPeriod(s, r) /\ current[key] # NULL
              /\ past' = [past EXCEPT ![key] = @ \cup
                   {[login |-> current[key].login, from |-> current[key].from, to |-> t,
                     tags |-> current[key].tags]}]
  <2>1. current[key] = OpenPeriod(s, r)
    BY <1>6, <1>10, MappingIs
  <2>2. OpenPeriod(s, r) \in [login : Int, from : Int, tags : TagSets \cup {{}}]
    BY <1>10 DEF OpenPeriod
  <2>3. /\ current[key].login = s.loginAt /\ current[key].from = r.validFrom
        /\ current[key].tags = r.tags
    BY <2>1 DEF OpenPeriod
  <2>4. PastPeriods(key)' = PastPeriods(key) \cup
          {[login |-> s.loginAt, from |-> r.validFrom, to |-> t, tags |-> r.tags]}
    BY <1>10, MappingIs
  <2>5. past[key] = PastPeriods(key)
    OBVIOUS
  <2> HIDE DEF current, past
  <2>6. past' = [past EXCEPT ![key] = PastPeriods(key) \cup
                   {[login |-> s.loginAt, from |-> r.validFrom, to |-> t, tags |-> r.tags]}]
    BY <1>8, <2>4
  <2> QED
    BY <1>5, <2>1, <2>2, <2>3, <2>5, <2>6
<1>11. ASSUME ReplacesTimeline(sessions, states, sessions', states', key, t)
       PROVE  Lifecycle!Next
  <2>1. PICK s, r :
          /\ OpenIn(sessions, states, key) = {OpenPeriod(s, r)}
          /\ s.loginAt \in Int /\ r.validFrom \in Int /\ r.tags \in TagSets \cup {{}}
          /\ \E tags \in TagSets \cup {{}} :
               OpenIn(sessions', states', key) = {[login |-> s.loginAt, from |-> t, tags |-> tags]}
          /\ PastIn(sessions', states', key) = PastIn(sessions, states, key) \cup
               {[login |-> s.loginAt, from |-> r.validFrom, to |-> t, tags |-> r.tags]}
          /\ EndedIn(sessions', key) = EndedIn(sessions, key)
    BY <1>11 DEF ReplacesTimeline
  <2>2. PICK tags \in TagSets \cup {{}} :
          OpenPeriods(key)' = {[login |-> s.loginAt, from |-> t, tags |-> tags]}
    BY <2>1, MappingIs
  <2> DEFINE o == [login |-> s.loginAt, from |-> t, tags |-> tags]
  <2>3. /\ current[key] = OpenPeriod(s, r) /\ current[key] # NULL
        /\ past' = [past EXCEPT ![key] = @ \cup
             {[login |-> current[key].login, from |-> current[key].from, to |-> t,
               tags |-> current[key].tags]}]
    BY <1>10, <2>1
  <2>4. o \in [login : Int, from : Int, tags : TagSets \cup {{}}] /\ o.tags = tags
    BY <1>1, <2>1
  <2>5. current' = [current EXCEPT ![key] = o] /\ current'[key] = o
    BY <1>7, <2>2
  <2>6. o # NULL /\ current[key].login = s.loginAt
    BY <1>5, <2>3, <2>4 DEF OpenPeriod
  <2>7. ended' = ended
    <3>1. EndedSessions(key)' = EndedSessions(key)
      BY <2>1, MappingIs
    <3> QED
      BY <1>2, <3>1
  <2> DEFINE A == current'[key] # NULL /\ Lifecycle!Replace(key, clock'[key], current'[key].tags)
  <2>8. A
    BY <1>3, <1>4, <2>3, <2>4, <2>5, <2>6, <2>7
    DEF Lifecycle!Replace, Lifecycle!NotBefore, Lifecycle!EndedPeriod, CurrentOf, ClockOf
  <2> QED
    BY <2>8 DEF Lifecycle!Next, CurrentOf, ClockOf
<1>12. ASSUME EndsTimeline(sessions, states, sessions', states', key, t)
       PROVE  Lifecycle!Next
  <2>1. PICK s, r :
          /\ OpenIn(sessions, states, key) = {OpenPeriod(s, r)}
          /\ s.loginAt \in Int /\ r.validFrom \in Int /\ r.tags \in TagSets \cup {{}}
          /\ OpenIn(sessions', states', key) = {}
          /\ PastIn(sessions', states', key) = PastIn(sessions, states, key) \cup
               {[login |-> s.loginAt, from |-> r.validFrom, to |-> t, tags |-> r.tags]}
          /\ EndedIn(sessions', key) = EndedIn(sessions, key) \cup
               {[login |-> s.loginAt, logout |-> t]}
    BY <1>12 DEF EndsTimeline
  <2>2. /\ current[key] = OpenPeriod(s, r) /\ current[key] # NULL
        /\ past' = [past EXCEPT ![key] = @ \cup
             {[login |-> current[key].login, from |-> current[key].from, to |-> t,
               tags |-> current[key].tags]}]
    BY <1>10, <2>1
  <2>3. current' = [current EXCEPT ![key] = NULL]
    <3>1. OpenPeriods(key)' = {}
      BY <2>1, MappingIs
    <3>2. CurrentOf(key)' = NULL
      BY <3>1 DEF CurrentOf
    <3> QED
      BY <1>2, <3>2
  <2>4. current[key].login = s.loginAt
    BY <2>2 DEF OpenPeriod
  <2>5. ended' = [ended EXCEPT ![key] = @ \cup {[login |-> current[key].login, logout |-> t]}]
    <3>1. EndedSessions(key)' = EndedSessions(key) \cup {[login |-> s.loginAt, logout |-> t]}
      BY <2>1, MappingIs
    <3>2. ended[key] = EndedSessions(key)
      OBVIOUS
    <3> HIDE DEF current, ended
    <3>3. ended' = [ended EXCEPT ![key] = EndedSessions(key) \cup
                                           {[login |-> s.loginAt, logout |-> t]}]
      BY <1>8, <3>1
    <3> QED
      BY <2>4, <3>2, <3>3
  <2> DEFINE A == Lifecycle!End(key, clock'[key])
  <2>6. A
    BY <1>3, <1>4, <2>2, <2>3, <2>5
    DEF Lifecycle!End, Lifecycle!NotBefore, Lifecycle!EndedPeriod, CurrentOf, ClockOf
  <2> QED
    BY <2>6 DEF Lifecycle!Next, CurrentOf, ClockOf
<1> QED
  BY <1>2, <1>9, <1>11, <1>12

LEMMA LifecycleInit == Init => LifecycleInv /\ Lifecycle!Init
<1> SUFFICES ASSUME Init PROVE LifecycleInv /\ Lifecycle!Init
  OBVIOUS
<1>1. \A k : /\ OpenPeriods(k) = {} /\ PastPeriods(k) = {}
             /\ EndedSessions(k) = {} /\ KeyTimes(k) = {}
  BY DEF Init, OpenPeriods, PastPeriods, EndedSessions, KeyTimes, SessionsOf, SessionTimes, NonNull
<1>2. TimesOK(sessions, states)
  BY <1>1, MappingIs DEF TimesOK
<1>3. Lifecycle!Init
  BY <1>1 DEF Lifecycle!Init
<1> QED
  BY <1>2, <1>3, ReplayInvInit DEF LifecycleInv

(* A step that accepts nothing is a stuttering step.                       *)
LEMMA StutterImplements ==
  ASSUME UNCHANGED <<sessions, states>>
  PROVE  UNCHANGED Lifecycle!vars
<1>1. ASSUME NEW k
      PROVE  /\ OpenPeriods(k)' = OpenPeriods(k) /\ PastPeriods(k)' = PastPeriods(k)
             /\ EndedSessions(k)' = EndedSessions(k) /\ KeyTimes(k)' = KeyTimes(k)
  BY MappingIs
<1>2. ASSUME NEW k
      PROVE  CurrentOf(k)' = CurrentOf(k) /\ ClockOf(k)' = ClockOf(k)
  <2>1. OpenPeriods(k)' = OpenPeriods(k) /\ KeyTimes(k)' = KeyTimes(k)
    BY <1>1
  <2> QED
    BY <2>1 DEF CurrentOf, ClockOf
<1> DEFINE current == [k \in Keys |-> CurrentOf(k)]
           past == [k \in Keys |-> PastPeriods(k)]
           ended == [k \in Keys |-> EndedSessions(k)]
           clock == [k \in Keys |-> ClockOf(k)]
<1>3. current' = current /\ past' = past /\ ended' = ended /\ clock' = clock
  BY <1>1, <1>2
<1> QED
  BY <1>3 DEF Lifecycle!vars, CurrentOf, ClockOf

LEMMA LifecycleNext ==
  ASSUME ExclusiveOwners, RepresentableTimes, LifecycleInv, [Next]_vars
  PROVE  LifecycleInv' /\ [Lifecycle!Next]_(Lifecycle!vars)
<1>1. ReplayInv'
  BY ReplayInvNext DEF LifecycleInv
<1>2. SafetyInv /\ StorageOK /\ SpansOK(sessions, states) /\ TimesOK(sessions, states)
  BY DEF LifecycleInv, ReplayInv, SafetyInv, CurrencyInv, TypeInv
<1>3. CASE UNCHANGED <<sessions, states, lastAccepted>>
  BY <1>1, <1>2, <1>3, StutterImplements DEF LifecycleInv
<1>4. ASSUME NEW p \in Partitions, NEW t, DecideAndApply(p),
             AcceptsEvent(event[p].key, event[p], t)
      PROVE  LifecycleInv' /\ [Lifecycle!Next]_(Lifecycle!vars)
  <2>1. event[p].key \in Keys
    BY <1>2, <1>4, AcceptsKey
  <2>2. TimesOK(sessions', states')
    BY <1>2, <1>4, GrowthKeepsTimes DEF StorageOK, AcceptsEvent
  <2>3. Lifecycle!Next
    BY <1>4, <2>1, AcceptImplements
  <2> QED
    BY <1>1, <2>2, <2>3 DEF LifecycleInv
<1> QED
  BY <1>2, <1>3, <1>4, TableWriters, ApplyAccepts

(* Tables, snapshots, retries, storage faults and concurrent workers       *)
(* together behave like one timeline per key that only accepted events     *)
(* move, and only forward.                                                 *)
THEOREM HistoryIsATimeline ==
  ASSUME ExclusiveOwners, RepresentableTimes
  PROVE  Spec => ImplementsLifecycle
<1>1. LifecycleInv /\ [Next]_vars => LifecycleInv' /\ [Lifecycle!Next]_(Lifecycle!vars)
  BY LifecycleNext
<1> QED
  BY <1>1, LifecycleInit, PTL DEF Spec, ImplementsLifecycle, Lifecycle!Spec
=============================================================================
