------------------------ MODULE EventPipelineProofs ------------------------
(***************************************************************************)
(* Theorems of EventPipeline, for any keys, partitions, events, times and  *)
(* bounds: what the tables hold is what the log means, repeats included.   *)
(***************************************************************************)
EXTENDS EventPipeline, SessionServiceProofs

(************************ What a log means *********************************)

(* What the places after a, up to b, of a log mean for a key.              *)
IsMeaning(h, events, key, a, b) ==
  h = [n \in a..b |->
         IF n = a THEN Blankness
         ELSE IF events[n].key # key THEN h[n - 1] ELSE After(h[n - 1], events[n])]

MeaningOf(events, key, a, b) == (CHOOSE h : IsMeaning(h, events, key, a, b))[b]

LEMMA MeaningIs ==
  ASSUME NEW key
  PROVE  Meaning(key) = MeaningOf(log[Owner[key]], key, base[Owner[key]], done[Owner[key]])
BY DEF Meaning, MeaningOf, IsMeaning

HasMeaning(events, key, a, b) == \E h : IsMeaning(h, events, key, a, b)

MeaningStep(before, events, key, n) ==
  IF events[n].key # key THEN before ELSE After(before, events[n])

Follows(h, events, key, a, b) ==
  /\ h = [n \in a..b |-> h[n]]
  /\ h[a] = Blankness
  /\ \A n \in a..b : n # a => h[n] = MeaningStep(h[n - 1], events, key, n)

(* There is exactly one such function.                                     *)
LEMMA MeaningRec ==
  ASSUME NEW h, NEW events, NEW key, NEW a \in Int, NEW b \in Int, a <= b
  PROVE  IsMeaning(h, events, key, a, b) <=> Follows(h, events, key, a, b)
<1> DEFINE F == [n \in a..b |-> IF n = a THEN Blankness ELSE MeaningStep(h[n - 1], events, key, n)]
<1>1. IsMeaning(h, events, key, a, b) <=> h = F
  BY DEF IsMeaning, MeaningStep
<1>2. ASSUME h = F
      PROVE  Follows(h, events, key, a, b)
  <2>1. a \in a..b
    OBVIOUS
  <2>2. \A n \in a..b : h[n] = IF n = a THEN Blankness ELSE MeaningStep(h[n - 1], events, key, n)
    BY <1>2
  <2>3. h = [n \in a..b |-> h[n]]
    BY <1>2
  <2> QED
    BY <2>1, <2>2, <2>3 DEF Follows
<1>3. ASSUME Follows(h, events, key, a, b)
      PROVE  h = F
  <2>1. /\ h = [n \in a..b |-> h[n]] /\ h[a] = Blankness
        /\ \A n \in a..b : n # a => h[n] = MeaningStep(h[n - 1], events, key, n)
    BY <1>3 DEF Follows
  <2> QED
    BY <2>1
<1> QED
  BY <1>1, <1>2, <1>3

LEMMA MeaningUnique ==
  ASSUME NEW events, NEW key, NEW a \in Int, NEW b \in Int, a <= b,
         NEW g, IsMeaning(g, events, key, a, b), NEW h, IsMeaning(h, events, key, a, b)
  PROVE  g = h
<1> DEFINE X == {n \in a..b : g[n] = h[n]}
<1>0. Follows(g, events, key, a, b) /\ Follows(h, events, key, a, b)
  BY MeaningRec
<1>1. /\ g = [n \in a..b |-> g[n]] /\ h = [n \in a..b |-> h[n]]
      /\ g[a] = Blankness /\ h[a] = Blankness
      /\ \A n \in a..b : n # a => /\ g[n] = MeaningStep(g[n - 1], events, key, n)
                                 /\ h[n] = MeaningStep(h[n - 1], events, key, n)
  BY <1>0 DEF Follows
<1>2. a \in X
  BY <1>1
<1>3. ASSUME NEW i \in a..b, i \in X, i < b PROVE i + 1 \in X
  <2>1. i + 1 \in a..b /\ i + 1 # a /\ (i + 1) - 1 = i
    BY <1>3
  <2>2. /\ g[i + 1] = MeaningStep(g[i], events, key, i + 1)
        /\ h[i + 1] = MeaningStep(h[i], events, key, i + 1)
    BY <1>1, <2>1
  <2> QED
    BY <1>3, <2>1, <2>2
<1> HIDE DEF X
<1>4. a..b \subseteq X
  BY <1>2, <1>3, CountUp
<1>5. \A n \in a..b : g[n] = h[n]
  BY <1>4 DEF X
<1> QED
  BY <1>1, <1>5

LEMMA MeaningExists ==
  ASSUME NEW events, NEW key, NEW a \in Int, NEW b \in Int, a <= b
  PROVE  HasMeaning(events, key, a, b)
<1> DEFINE X == {n \in a..b : HasMeaning(events, key, a, n)}
<1>1. a \in X
  <2> DEFINE h == [n \in a..a |-> Blankness]
  <2>1. h = [n \in a..a |-> h[n]] /\ h[a] = Blankness /\ \A n \in a..a : n = a
    OBVIOUS
  <2> HIDE DEF h
  <2>2. Follows(h, events, key, a, a)
    BY <2>1 DEF Follows
  <2>3. IsMeaning(h, events, key, a, a)
    BY <2>2, MeaningRec
  <2> QED
    BY <2>3 DEF HasMeaning
<1>2. ASSUME NEW i \in a..b, i \in X, i < b PROVE i + 1 \in X
  <2>1. PICK g : IsMeaning(g, events, key, a, i)
    BY <1>2 DEF HasMeaning
  <2>2. Follows(g, events, key, a, i)
    BY <2>1, MeaningRec
  <2>3. /\ g[a] = Blankness
        /\ \A n \in a..i : n # a => g[n] = MeaningStep(g[n - 1], events, key, n)
    BY <2>2 DEF Follows
  <2> DEFINE h == [n \in a..(i + 1) |->
                     IF n = i + 1 THEN MeaningStep(g[i], events, key, n) ELSE g[n]]
  <2>4. /\ h = [n \in a..(i + 1) |-> h[n]]
        /\ \A n \in a..i : h[n] = g[n]
        /\ h[i + 1] = MeaningStep(g[i], events, key, i + 1)
    OBVIOUS
  <2> HIDE DEF h
  <2>5. h[a] = Blankness
    <3>1. a \in a..i
      OBVIOUS
    <3> QED
      BY <2>3, <2>4, <3>1
  <2>6. ASSUME NEW n \in a..(i + 1), n # a
        PROVE  h[n] = MeaningStep(h[n - 1], events, key, n)
    <3>1. CASE n = i + 1
      <4>1. n - 1 = i /\ i \in a..i
        BY <3>1
      <4> QED
        BY <2>4, <3>1, <4>1
    <3>2. CASE n # i + 1
      <4>1. n \in a..i /\ n - 1 \in a..i
        BY <2>6, <3>2
      <4> QED
        BY <2>3, <2>4, <2>6, <4>1
    <3> QED
      BY <3>1, <3>2
  <2>7. Follows(h, events, key, a, i + 1)
    BY <2>4, <2>5, <2>6 DEF Follows
  <2>8. i + 1 \in a..b /\ i + 1 \in Int /\ a <= i + 1
    BY <1>2
  <2>9. IsMeaning(h, events, key, a, i + 1)
    BY <2>7, <2>8, MeaningRec
  <2> QED
    BY <2>8, <2>9 DEF HasMeaning
<1> HIDE DEF X
<1>3. a..b \subseteq X
  BY <1>1, <1>2, CountUp
<1> QED
  BY <1>3 DEF X

(* So the meaning of a log is computed record by record.                   *)
LEMMA MeaningOfIs ==
  ASSUME NEW events, NEW key, NEW a \in Int, NEW b \in Int, a <= b,
         NEW h, IsMeaning(h, events, key, a, b)
  PROVE  MeaningOf(events, key, a, b) = h[b]
<1> DEFINE g == CHOOSE x : IsMeaning(x, events, key, a, b)
<1>1. IsMeaning(g, events, key, a, b)
  OBVIOUS
<1> HIDE DEF g
<1>2. g = h
  BY <1>1, MeaningUnique
<1> QED
  BY <1>2 DEF MeaningOf, g

LEMMA MeaningStarts ==
  ASSUME NEW events, NEW key, NEW a \in Int
  PROVE  MeaningOf(events, key, a, a) = Blankness
<1>0. HasMeaning(events, key, a, a)
  BY MeaningExists
<1>1. PICK h : IsMeaning(h, events, key, a, a)
  BY <1>0 DEF HasMeaning
<1>2. h[a] = Blankness
  <2>1. Follows(h, events, key, a, a)
    BY <1>1, MeaningRec
  <2> QED
    BY <2>1 DEF Follows
<1> QED
  BY <1>1, <1>2, MeaningOfIs

LEMMA MeaningSteps ==
  ASSUME NEW events, NEW key, NEW a \in Int, NEW b \in Int, a < b
  PROVE  MeaningOf(events, key, a, b)
           = MeaningStep(MeaningOf(events, key, a, b - 1), events, key, b)
<1>0. HasMeaning(events, key, a, b)
  BY MeaningExists
<1>1. PICK h : IsMeaning(h, events, key, a, b)
  BY <1>0 DEF HasMeaning
<1>2. /\ h[a] = Blankness
      /\ \A n \in a..b : n # a => h[n] = MeaningStep(h[n - 1], events, key, n)
  <2>1. Follows(h, events, key, a, b)
    BY <1>1, MeaningRec
  <2> QED
    BY <2>1 DEF Follows
<1> DEFINE g == [n \in a..(b - 1) |-> h[n]]
<1>3. a \in a..(b - 1) /\ b - 1 \in a..(b - 1) /\ b \in a..b
  OBVIOUS
<1>4. /\ g = [n \in a..(b - 1) |-> g[n]]
      /\ \A n \in a..(b - 1) : g[n] = h[n] /\ n \in a..b /\ (n # a => n - 1 \in a..(b - 1))
  OBVIOUS
<1> HIDE DEF g
<1>5. IsMeaning(g, events, key, a, b - 1)
  <2>1. Follows(g, events, key, a, b - 1)
    BY <1>2, <1>3, <1>4 DEF Follows
  <2> QED
    BY <2>1, MeaningRec
<1>6. MeaningOf(events, key, a, b - 1) = h[b - 1]
  BY <1>3, <1>4, <1>5, MeaningOfIs
<1>7. MeaningOf(events, key, a, b) = h[b]
  BY <1>1, MeaningOfIs
<1> QED
  BY <1>2, <1>3, <1>6, <1>7

(* It depends on no record outside the interval.                           *)
LEMMA MeaningFrame ==
  ASSUME NEW events, NEW others, NEW key, NEW a \in Int, NEW b \in Int, a <= b,
         \A n \in a..b : n # a => events[n] = others[n]
  PROVE  MeaningOf(others, key, a, b) = MeaningOf(events, key, a, b)
<1>0. HasMeaning(events, key, a, b)
  BY MeaningExists
<1>1. PICK h : IsMeaning(h, events, key, a, b)
  BY <1>0 DEF HasMeaning
<1>2. IsMeaning(h, others, key, a, b)
  <2>1. Follows(h, events, key, a, b)
    BY <1>1, MeaningRec
  <2>2. Follows(h, others, key, a, b)
    BY <2>1 DEF Follows, MeaningStep
  <2> QED
    BY <2>2, MeaningRec
<1> QED
  BY <1>1, <1>2, MeaningOfIs
-----------------------------------------------------------------------------
(************************ The tables mean the log **************************)

PeriodOf(r)  == [from |-> r.validFrom, to |-> r.validTo, tags |-> r.tags]
PeriodsOf(R) == {PeriodOf(r) : r \in R}

StoredSession(T, s) ==
  [login |-> s.loginAt, logout |-> s.logoutAt, lastID |-> s.lastEventID,
   periods |-> PeriodsOf(StatesOf(T, s.id))]

EndedOf(S, k) == {s \in SessionsOf(S, k) : s.logoutAt # NULL}

(* What a session s whose open state is r means.                           *)
OpenRecord(T, s, r) ==
  [login |-> s.loginAt, from |-> r.validFrom, tags |-> r.tags,
   periods |-> PeriodsOf(StatesOf(T, s.id) \ {r})]

(* The rows of a key that no event has changed, or that end with the last  *)
(* event that counted.                                                     *)
EndsWith(S, T, k, M) ==
  /\ SessionsOf(S, k) = {} => M = Blankness
  /\ SessionsOf(S, k) # {} =>
       /\ M.clock \in TimesIn(S, T, k) /\ \A u \in TimesIn(S, T, k) : u <= M.clock
       /\ \E x \in S : /\ x.key = k /\ x.lastEventID = M.lastID
                       /\ \A s \in S : s.key = k => s.loginAt <= x.loginAt

OpenIs(S, T, k, open) ==
  /\ open = NULL => \A s \in S : s.key = k => s.logoutAt # NULL
  /\ open # NULL =>
       \E s \in S : /\ s.key = k /\ s.logoutAt = NULL
                    /\ \E r \in StatesOf(T, s.id) :
                         r.validTo = NULL /\ open = OpenRecord(T, s, r)

EndedAre(S, T, k, ended) == ended = {StoredSession(T, s) : s \in EndedOf(S, k)}

(* The rows of key k are what the history M means.                         *)
Represents(S, T, k, M) ==
  EndsWith(S, T, k, M) /\ OpenIs(S, T, k, M.open) /\ EndedAre(S, T, k, M.ended)

(* A snapshot then tells what the history tells.                           *)
LEMMA SnapshotAgrees ==
  ASSUME NEW S, NEW T, StoreOK(S, T), SpansOK(S, T), NEW k \in Keys, ~LoginsTie(S, k),
         NEW M, Represents(S, T, k, M), NEW sn, LoadCurrent(S, T, k) = Loaded(sn)
  PROVE  /\ sn.lastEventID = M.lastID /\ sn.lastEventAt = M.clock
         /\ sn.active = NULL <=> M.open = NULL
         /\ sn.active # NULL => sn.active.key = k /\ CurrentState(sn) = "ok"
<1> DEFINE rows == SessionsOf(S, k)
           l == LastSession(rows)
<1>1. /\ rows = {} => sn = EmptySnapshot
      /\ rows # {} => /\ sn.lastEventID = l.lastEventID /\ IsLastSession(l, rows)
                      /\ sn.lastEventAt \in TimesIn(S, T, k)
      /\ sn.active # NULL => sn.active.key = k /\ CurrentState(sn) = "ok"
  BY SnapshotIs
<1>2. HistoryKnown(S, k, sn)
  BY FreshFacts
<1>3. sn.active = NULL <=> M.open = NULL
  BY <1>2 DEF HistoryKnown, Represents, OpenIs
<1>4. CASE rows = {}
  BY <1>1, <1>3, <1>4 DEF Represents, EndsWith, EmptySnapshot, Blankness
<1>5. CASE rows # {}
  <2>1. /\ M.clock \in TimesIn(S, T, k) /\ \A u \in TimesIn(S, T, k) : u <= M.clock
    BY <1>5 DEF Represents, EndsWith
  <2>2. PICK x \in S : /\ x.key = k /\ x.lastEventID = M.lastID
                       /\ \A s \in S : s.key = k => s.loginAt <= x.loginAt
    BY <1>5 DEF Represents, EndsWith
  <2>3. l \in S /\ l.key = k
    BY <1>1, <1>5 DEF IsLastSession, SessionsOf
  <2> HIDE DEF l, rows
  <2>4. S \in SUBSET SessionRow /\ IsLastSession(l, SessionsOf(S, k))
    BY <1>1, <1>5 DEF StoreOK, rows
  <2>5. l = x
    BY <2>2, <2>3, <2>4, LatestLoginIsLast
  <2>6. sn.lastEventAt = M.clock
    <3>1. M.clock \in Int /\ sn.lastEventAt \in Int /\ M.clock <= sn.lastEventAt
      BY <2>1, SnapshotClock
    <3>2. sn.lastEventAt <= M.clock
      BY <1>1, <1>5, <2>1
    <3> QED
      BY <3>1, <3>2
  <2> QED
    BY <1>1, <1>3, <1>5, <2>2, <2>5, <2>6
<1> QED
  BY <1>4, <1>5

(* What the domain decides to write is what counts.                        *)
LEMMA CountsIsWritten ==
  ASSUME NEW sn, NEW M, NEW e \in Events, NEW newID,
         e.type = "LOGIN" => newID # NULL,
         sn.lastEventID = M.lastID, sn.lastEventAt = M.clock,
         M.clock \in Int \cup {NULL},
         sn.active = NULL <=> M.open = NULL,
         sn.active # NULL => sn.active.key = e.key /\ CurrentState(sn) = "ok"
  PROVE  /\ Decide(sn, e, newID).kind \in Writes <=> Counts(M, e)
         /\ Decide(sn, e, newID).kind = "duplicate_event" <=> e.eventID = M.lastID
<1> DEFINE m == Decide(sn, e, newID)
           G == /\ m.kind \in Writes <=> Counts(M, e)
                /\ m.kind = "duplicate_event" <=> e.eventID = M.lastID
<1>1. /\ e.type \in EventTypes /\ e.at \in Int
      /\ e.type = "LOGOUT" => e.tags = {}
  BY ServiceAssumption DEF Events
<1>2. M.clock = NULL \/ M.clock <= e.at <=> ~(sn.lastEventAt # NULL /\ e.at < sn.lastEventAt)
  BY <1>1, StoreAssumption
<1>3. CASE e.eventID = M.lastID
  <2>1. m = DuplicateEvent(e)
    BY <1>3 DEF Decide, PrepareTransition
  <2> QED
    BY <1>3, <2>1 DEF DuplicateEvent, Mutation, Writes, Counts
<1>4. CASE e.eventID # M.lastID /\ sn.lastEventAt # NULL /\ e.at < sn.lastEventAt
  <2>1. m = Rejected("ErrStaleEvent")
    BY <1>4 DEF Decide, PrepareTransition
  <2>2. ~(M.clock = NULL \/ M.clock <= e.at)
    BY <1>2, <1>4
  <2> HIDE DEF m
  <2>3. m.kind = "ErrStaleEvent"
    BY <2>1 DEF Rejected
  <2> QED
    BY <1>4, <2>2, <2>3 DEF Writes, Counts, m
<1>5. CASE e.eventID # M.lastID /\ ~(sn.lastEventAt # NULL /\ e.at < sn.lastEventAt)
  <2>1. PrepareTransition(sn, e) = "ok"
    BY <1>5 DEF PrepareTransition
  <2>2. M.clock = NULL \/ M.clock <= e.at
    BY <1>2, <1>5
  <2>3. Counts(M, e) <=> (e.type = "LOGIN" <=> M.open = NULL) /\ ~TagsAreBlank(e.tags)
    BY <1>5, <2>2 DEF Counts
  <2>4. CASE e.type = "LOGIN"
    <3>1. m = DecideLogin(sn, e, newID)
      BY <2>1, <2>4 DEF Decide
    <3>3. newID # NULL
      BY <2>4
    <3>2. m.kind = IF sn.active # NULL THEN "ErrInvalidTransition"
                   ELSE IF TagsAreBlank(e.tags) THEN "ErrInvalidInput" ELSE "start_session"
      BY <3>1, <3>3 DEF DecideLogin, Rejected, Mutation
    <3> HIDE DEF m
    <3> QED
      BY <1>5, <2>3, <2>4, <3>2 DEF Writes, m
  <2>5. CASE e.type = "UPDATE"
    <3>1. m = DecideUpdate(sn, e)
      BY <2>1, <2>5 DEF Decide
    <3>2. m.kind = IF sn.active = NULL THEN "ErrInvalidTransition"
                   ELSE IF TagsAreBlank(e.tags) THEN "ErrInvalidInput" ELSE "replace_state"
      BY <3>1 DEF DecideUpdate, CurrentState, Rejected, Mutation
    <3> HIDE DEF m
    <3> QED
      BY <1>5, <2>3, <2>5, <3>2 DEF Writes, m
  <2>6. CASE e.type = "LOGOUT"
    <3>1. m = DecideLogout(sn, e)
      BY <2>1, <2>6 DEF Decide
    <3>2. m.kind = IF sn.active = NULL THEN "ErrInvalidTransition" ELSE "end_session"
      BY <3>1 DEF DecideLogout, CurrentState, Rejected, Mutation
    <3>3. ~TagsAreBlank(e.tags)
      BY <1>1, <2>6 DEF TagsAreBlank
    <3> HIDE DEF m
    <3> QED
      BY <1>5, <2>3, <2>6, <3>2, <3>3 DEF Writes, m
  <2> QED
    BY <1>1, <2>4, <2>5, <2>6 DEF EventTypes
<1> QED
  BY <1>3, <1>4, <1>5

(* An accepted event makes of the rows what it makes of the history.       *)
LEMMA LoginRepresents ==
  ASSUME NEW S, NEW T, StoreOK(S, T), NEW k \in Keys, NEW M, NEW S2, NEW T2,
         Represents(S, T, k, M), NEW n, NEW w, Starts(S, T, S2, T2, n, w), n.key = k
  PROVE  LET o == [login |-> n.loginAt, from |-> n.loginAt, tags |-> w.tags, periods |-> {}] IN
         /\ M.open = NULL
         /\ OpenIs(S2, T2, k, o)
         /\ EndedAre(S2, T2, k, M.ended)
<1> DEFINE o == [login |-> n.loginAt, from |-> n.loginAt, tags |-> w.tags, periods |-> {}]
<1>1. /\ S2 = S \cup {n} /\ n.logoutAt = NULL
      /\ w.validFrom = n.loginAt /\ w.validTo = NULL /\ w \in StateRow /\ n \in SessionRow
      /\ \A s \in S : s.id # n.id /\ ~(s.key = n.key /\ s.logoutAt = NULL)
  BY DEF Starts
<1>2. StatesOf(T2, n.id) = {w} /\ \A s \in S : StatesOf(T2, s.id) = StatesOf(T, s.id)
  BY StartStates
<1>3. M.open = NULL
  BY <1>1 DEF Represents, OpenIs
<1>4. OpenIs(S2, T2, k, o)
  <2>1. StatesOf(T2, n.id) \ {w} = {}
    BY <1>2
  <2>2. OpenRecord(T2, n, w) = o
    BY <1>1, <2>1 DEF OpenRecord, PeriodsOf
  <2>3. o # NULL
    <3>1. o \in [login : Int, from : Int, tags : TagSets \cup {{}},
                 periods : SUBSET [from : Int, to : Int, tags : TagSets \cup {{}}]]
      BY <1>1 DEF SessionRow, StateRow
    <3> QED
      BY <3>1, PipelineAssumption
  <2> HIDE DEF o
  <2> QED
    BY <1>1, <1>2, <2>2, <2>3 DEF OpenIs
<1>5. EndedAre(S2, T2, k, M.ended)
  <2>1. EndedOf(S2, k) = EndedOf(S, k)
    BY <1>1 DEF EndedOf, SessionsOf
  <2>2. \A s \in EndedOf(S, k) : StoredSession(T2, s) = StoredSession(T, s)
    BY <1>2 DEF StoredSession, EndedOf, SessionsOf
  <2> QED
    BY <2>1, <2>2 DEF EndedAre, Represents
<1> QED
  BY <1>3, <1>4, <1>5

(* The session that is open, and its open state.                           *)
LEMMA OpenRows ==
  ASSUME NEW S, NEW T, StoreOK(S, T), NEW k, NEW open, OpenIs(S, T, k, open),
         NEW s \in S, s.key = k, s.logoutAt = NULL,
         NEW r \in T, r.sessionID = s.id, r.validTo = NULL
  PROVE  /\ open # NULL /\ open = OpenRecord(T, s, r)
         /\ \A q \in StatesOf(T, s.id) \ {r} : q.validTo \in Int
<1>1. open # NULL
  BY DEF OpenIs
<1>2. PICK z \in S : /\ z.key = k /\ z.logoutAt = NULL
                     /\ \E q \in StatesOf(T, z.id) :
                          q.validTo = NULL /\ open = OpenRecord(T, z, q)
  BY <1>1 DEF OpenIs
<1>3. z = s
  BY <1>2 DEF StoreOK, RowsAreUnique
<1>4. PICK q \in StatesOf(T, s.id) : q.validTo = NULL /\ open = OpenRecord(T, s, q)
  BY <1>2, <1>3
<1>5. q = r
  BY <1>4 DEF StoreOK, OpenStateIsLast, StatesOf
<1>6. \A u \in StatesOf(T, s.id) \ {r} : u.validTo # NULL /\ u.validTo \in Int
  BY DEF StoreOK, OpenStateIsLast, StatesOf, StateRow
<1> QED
  BY <1>1, <1>4, <1>5, <1>6

LEMMA UpdateRepresents ==
  ASSUME NEW S, NEW T, StoreOK(S, T), NEW k \in Keys, NEW M, NEW S2, NEW T2,
         Represents(S, T, k, M), NEW s, NEW s2, NEW r, NEW w,
         Replaces(S, T, S2, T2, s, s2, r, w), s.key = k
  PROVE  LET t == w.validFrom
             o == [login |-> M.open.login, from |-> t, tags |-> w.tags,
                   periods |-> M.open.periods \cup {Period(M.open, t)}]
         IN
         /\ M.open # NULL
         /\ OpenIs(S2, T2, k, o)
         /\ EndedAre(S2, T2, k, M.ended)
<1> DEFINE t == w.validFrom
           o == [login |-> M.open.login, from |-> t, tags |-> w.tags,
                 periods |-> M.open.periods \cup {Period(M.open, t)}]
           c == Closed(r, t)
           R == StatesOf(T, s.id)
<1>1. /\ s \in S /\ r \in T /\ w \in StateRow /\ s2 \in SessionRow
      /\ S2 = (S \ {s}) \cup {s2} /\ s.logoutAt = NULL
      /\ r.sessionID = s.id /\ r.validTo = NULL /\ w.validTo = NULL
      /\ \A q \in T : q.id < w.id
  BY DEF Replaces
<1>2. /\ s2.id = s.id /\ s2.key = s.key /\ s2.loginAt = s.loginAt /\ s2.logoutAt = NULL
      /\ s \in SessionRow /\ R \subseteq StateRow /\ r \in R
  BY <1>1 DEF Replaces, StoreOK, SessionRow, StatesOf
<1>3. c.validFrom = r.validFrom /\ c.validTo = t /\ c.tags = r.tags
  BY <1>2 DEF Closed, StateRow
<1>4. /\ StatesOf(T2, s2.id) = (R \ {r}) \cup {c} \cup {w}
      /\ \A z \in S : z # s => StatesOf(T2, z.id) = StatesOf(T, z.id)
  BY <1>2, ReplaceStates
<1>5. M.open # NULL /\ M.open = OpenRecord(T, s, r) /\ \A q \in R \ {r} : q.validTo \in Int
  BY <1>1, OpenRows DEF Represents
<1> HIDE DEF c, t
<1>6. t \in Int /\ t # NULL
  BY <1>1, StoreAssumption DEF StateRow, t
<1>7. w \notin R \ {r} /\ w # c
  BY <1>1, <1>3, <1>6 DEF StatesOf, StoreOK, StateRow
<1>8. StatesOf(T2, s2.id) \ {w} = (R \ {r}) \cup {c}
  BY <1>4, <1>7
<1>9. /\ M.open.login = s.loginAt /\ M.open.periods = PeriodsOf(R \ {r})
      /\ Period(M.open, t) = PeriodOf(c)
  BY <1>3, <1>5 DEF OpenRecord, Period, PeriodOf
<1>10. PeriodsOf((R \ {r}) \cup {c}) = PeriodsOf(R \ {r}) \cup {PeriodOf(c)}
  BY DEF PeriodsOf
<1>11. OpenRecord(T2, s2, w) = o
  BY <1>2, <1>8, <1>9, <1>10 DEF OpenRecord, t
<1>12. o # NULL
  <2>1. PeriodsOf(R \ {r}) \subseteq [from : Int, to : Int, tags : TagSets \cup {{}}]
    BY <1>2, <1>5 DEF PeriodsOf, PeriodOf, StateRow
  <2>2. PeriodOf(c) \in [from : Int, to : Int, tags : TagSets \cup {{}}]
    BY <1>2, <1>3, <1>6 DEF PeriodOf, StateRow
  <2>3. o \in [login : Int, from : Int, tags : TagSets \cup {{}},
               periods : SUBSET [from : Int, to : Int, tags : TagSets \cup {{}}]]
    BY <1>1, <1>2, <1>6, <1>9, <2>1, <2>2 DEF SessionRow, StateRow
  <2> QED
    BY <2>3, PipelineAssumption
<1> HIDE DEF o, R
<1>13. OpenIs(S2, T2, k, o)
  BY <1>1, <1>2, <1>4, <1>11, <1>12 DEF OpenIs
<1>14. EndedAre(S2, T2, k, M.ended)
  <2>1. EndedOf(S2, k) = EndedOf(S, k)
    BY <1>1, <1>2 DEF EndedOf, SessionsOf
  <2>2. \A z \in EndedOf(S, k) : StoredSession(T2, z) = StoredSession(T, z)
    BY <1>1, <1>4 DEF StoredSession, EndedOf, SessionsOf
  <2> QED
    BY <2>1, <2>2 DEF EndedAre, Represents
<1> QED
  BY <1>5, <1>13, <1>14 DEF o, t

LEMMA LogoutRepresents ==
  ASSUME NEW S, NEW T, StoreOK(S, T), NEW k \in Keys, NEW M, NEW S2, NEW T2,
         Represents(S, T, k, M), NEW s, NEW s2, NEW r,
         Ends(S, T, S2, T2, s, s2, r), s.key = k
  PROVE  LET t == s2.logoutAt
             x == [login |-> M.open.login, logout |-> t, lastID |-> s2.lastEventID,
                   periods |-> M.open.periods \cup {Period(M.open, t)}]
         IN
         /\ M.open # NULL
         /\ OpenIs(S2, T2, k, NULL)
         /\ EndedAre(S2, T2, k, M.ended \cup {x})
<1> DEFINE t == s2.logoutAt
           x == [login |-> M.open.login, logout |-> t, lastID |-> s2.lastEventID,
                 periods |-> M.open.periods \cup {Period(M.open, t)}]
           c == Closed(r, t)
           R == StatesOf(T, s.id)
<1>1. /\ s \in S /\ r \in T /\ s2 \in SessionRow
      /\ S2 = (S \ {s}) \cup {s2} /\ s.logoutAt = NULL /\ s2.logoutAt # NULL
      /\ r.sessionID = s.id /\ r.validTo = NULL
  BY StoreAssumption DEF Ends
<1>2. /\ s2.id = s.id /\ s2.key = s.key /\ s2.loginAt = s.loginAt
      /\ s \in SessionRow /\ R \subseteq StateRow /\ r \in R
  BY <1>1 DEF Ends, StoreOK, SessionRow, StatesOf
<1>3. c.validFrom = r.validFrom /\ c.validTo = t /\ c.tags = r.tags
  BY <1>2 DEF Closed, StateRow
<1>4. /\ StatesOf(T2, s2.id) = (R \ {r}) \cup {c}
      /\ \A z \in S : z # s => StatesOf(T2, z.id) = StatesOf(T, z.id)
  BY <1>2, EndStates
<1>5. M.open # NULL /\ M.open = OpenRecord(T, s, r)
  BY <1>1, OpenRows DEF Represents
<1> HIDE DEF c, t
<1>6. /\ M.open.login = s.loginAt /\ M.open.periods = PeriodsOf(R \ {r})
      /\ Period(M.open, t) = PeriodOf(c)
  BY <1>3, <1>5 DEF OpenRecord, Period, PeriodOf
<1>7. PeriodsOf((R \ {r}) \cup {c}) = PeriodsOf(R \ {r}) \cup {PeriodOf(c)}
  BY DEF PeriodsOf
<1>8. StoredSession(T2, s2) = x
  BY <1>2, <1>4, <1>6, <1>7 DEF StoredSession, t
<1> HIDE DEF x, R
<1>9. \A z \in S : z.key = k /\ z.logoutAt = NULL => z = s
  BY <1>1 DEF StoreOK, RowsAreUnique
<1>10. OpenIs(S2, T2, k, NULL)
  BY <1>1, <1>2, <1>9 DEF OpenIs
<1>11. EndedOf(S2, k) = EndedOf(S, k) \cup {s2}
  BY <1>1, <1>2 DEF EndedOf, SessionsOf
<1>12. \A z \in EndedOf(S, k) : StoredSession(T2, z) = StoredSession(T, z)
  BY <1>1, <1>4 DEF StoredSession, EndedOf, SessionsOf
<1>13. EndedAre(S2, T2, k, M.ended \cup {x})
  BY <1>8, <1>11, <1>12 DEF EndedAre, Represents
<1> QED
  BY <1>5, <1>10, <1>13 DEF x, t

LEMMA AcceptedRepresents ==
  ASSUME NEW S, NEW T, StoreOK(S, T), SessionsDisjoint(S), SpansOK(S, T),
         NEW e, e.key \in Keys, NEW M, NEW S2, NEW T2,
         Represents(S, T, e.key, M), Accepts(S, T, S2, T2, e), Counts(M, e)
  PROVE  Represents(S2, T2, e.key, After(M, e))
<1> DEFINE k == e.key
           A == After(M, e)
<1>1. Grows(S, T, S2, T2, k, e.eventID, e.at)
  BY AcceptsGrows
<1>2. A.clock = e.at /\ A.lastID = e.eventID
  BY DEF After
<1>3. EndsWith(S2, T2, k, A)
  <2>1. /\ e.at \in TimesIn(S2, T2, k)
        /\ \A u \in TimesIn(S2, T2, k) : u = e.at \/ u \in TimesIn(S, T, k)
    BY <1>1, GrowthTime
  <2>2. \A u \in TimesIn(S2, T2, k) : u <= e.at
    BY <2>1 DEF Accepts
  <2>3. \E x \in S2 : /\ x.key = k /\ x.lastEventID = e.eventID
                      /\ \A s \in S2 : s.key = k => s.loginAt <= x.loginAt
    BY <1>1, GrowsOnLast
  <2>4. SessionsOf(S2, k) # {}
    BY <2>3 DEF SessionsOf
  <2> HIDE DEF A
  <2> QED
    BY <1>2, <2>1, <2>2, <2>3, <2>4 DEF EndsWith
<1>4. OpenIs(S2, T2, k, A.open) /\ EndedAre(S2, T2, k, A.ended)
  <2>1. CASE e.type = "LOGIN"
    <3>1. PICK n, w : /\ Starts(S, T, S2, T2, n, w)
                      /\ n.key = k /\ n.loginAt = e.at /\ w.tags = e.tags
      BY <2>1 DEF Accepts
    <3> DEFINE o == [login |-> e.at, from |-> e.at, tags |-> e.tags, periods |-> {}]
    <3>2. OpenIs(S2, T2, k, o) /\ EndedAre(S2, T2, k, M.ended)
      BY <3>1, LoginRepresents
    <3>3. A.open = o /\ A.ended = M.ended
      BY <2>1 DEF After
    <3> QED
      BY <3>2, <3>3
  <2>2. CASE e.type = "UPDATE"
    <3>1. PICK s, s2, r, w :
            /\ Replaces(S, T, S2, T2, s, s2, r, w)
            /\ s.key = k /\ w.validFrom = e.at /\ w.tags = e.tags
      BY <2>2 DEF Accepts
    <3> DEFINE o == [login |-> M.open.login, from |-> e.at, tags |-> e.tags,
                     periods |-> M.open.periods \cup {Period(M.open, e.at)}]
    <3>2. OpenIs(S2, T2, k, o) /\ EndedAre(S2, T2, k, M.ended)
      BY <3>1, UpdateRepresents
    <3>3. A.open = o /\ A.ended = M.ended
      BY <2>2 DEF After
    <3> QED
      BY <3>2, <3>3
  <2>3. CASE e.type = "LOGOUT"
    <3>1. PICK s, s2, r :
            /\ Ends(S, T, S2, T2, s, s2, r)
            /\ s.key = k /\ s2.logoutAt = e.at /\ s2.lastEventID = e.eventID
      BY <2>3 DEF Accepts
    <3> DEFINE x == [login |-> M.open.login, logout |-> e.at, lastID |-> e.eventID,
                     periods |-> M.open.periods \cup {Period(M.open, e.at)}]
    <3>2. OpenIs(S2, T2, k, NULL) /\ EndedAre(S2, T2, k, M.ended \cup {x})
      BY <3>1, LogoutRepresents
    <3>3. A.open = NULL /\ A.ended = M.ended \cup {x}
      BY <2>3 DEF After
    <3> QED
      BY <3>2, <3>3
  <2> QED
    BY <2>1, <2>2, <2>3 DEF Accepts
<1> QED
  BY <1>3, <1>4 DEF Represents

(* An event of one key leaves what the rows of another key mean.           *)
LEMMA OthersRepresent ==
  ASSUME NEW S, NEW T, NEW S2, NEW T2, NEW key, OnlyKey(S, T, S2, T2, key),
         NEW k, k # key, NEW M, Represents(S, T, k, M)
  PROVE  Represents(S2, T2, k, M)
<1>1. /\ SessionsOf(S2, k) = SessionsOf(S, k)
      /\ \A s \in S : s.key # key => StatesOf(T2, s.id) = StatesOf(T, s.id)
  BY DEF OnlyKey
<1>2. TimesIn(S2, T2, k) = TimesIn(S, T, k)
  BY TimesFrame
<1>3. \A s : s \in S2 /\ s.key = k <=> s \in S /\ s.key = k
  BY <1>1 DEF SessionsOf
<1>4. EndsWith(S2, T2, k, M)
  <2>1. EndsWith(S, T, k, M)
    BY DEF Represents
  <2>2. SessionsOf(S2, k) = {} => M = Blankness
    BY <1>1, <2>1 DEF EndsWith
  <2>3. ASSUME SessionsOf(S2, k) # {}
        PROVE  /\ M.clock \in TimesIn(S2, T2, k) /\ \A u \in TimesIn(S2, T2, k) : u <= M.clock
               /\ \E x \in S2 : /\ x.key = k /\ x.lastEventID = M.lastID
                                /\ \A s \in S2 : s.key = k => s.loginAt <= x.loginAt
    <3>1. /\ M.clock \in TimesIn(S, T, k) /\ \A u \in TimesIn(S, T, k) : u <= M.clock
          /\ \E x \in S : /\ x.key = k /\ x.lastEventID = M.lastID
                          /\ \A s \in S : s.key = k => s.loginAt <= x.loginAt
      BY <1>1, <2>1, <2>3 DEF EndsWith
    <3> QED
      BY <1>2, <1>3, <3>1
  <2> QED
    BY <2>2, <2>3 DEF EndsWith
<1>5. OpenIs(S2, T2, k, M.open)
  <2>1. OpenIs(S, T, k, M.open)
    BY DEF Represents
  <2>2. \A s \in S : s.key = k => StatesOf(T2, s.id) = StatesOf(T, s.id)
    BY <1>1
  <2>3. \A s \in S : \A r : s.key = k => OpenRecord(T2, s, r) = OpenRecord(T, s, r)
    BY <2>2 DEF OpenRecord
  <2> QED
    BY <1>3, <2>1, <2>2, <2>3 DEF OpenIs
<1>6. EndedAre(S2, T2, k, M.ended)
  <2>1. EndedAre(S, T, k, M.ended)
    BY DEF Represents
  <2>2. EndedOf(S2, k) = EndedOf(S, k)
    BY <1>1 DEF EndedOf
  <2>3. \A s \in EndedOf(S, k) : StoredSession(T2, s) = StoredSession(T, s)
    BY <1>1 DEF EndedOf, SessionsOf, StoredSession
  <2> QED
    BY <2>1, <2>2, <2>3 DEF EndedAre
<1> QED
  BY <1>4, <1>5, <1>6 DEF Represents

(* Two logins of a key tie when an accepted one comes at the instant of an *)
(* earlier one, and they tie for ever.                                     *)
LEMMA TiesAre ==
  ASSUME NEW S, NEW T, StoreOK(S, T), NEW S2, NEW T2, NEW e, Accepts(S, T, S2, T2, e)
  PROVE  LoginsTie(S2, e.key) <=>
           \/ LoginsTie(S, e.key)
           \/ e.type = "LOGIN" /\ \E s \in S : s.key = e.key /\ s.loginAt = e.at
<1> DEFINE k == e.key
<1>1. CASE e.type = "LOGIN"
  <2>1. PICK n, w : /\ Starts(S, T, S2, T2, n, w)
                    /\ n.key = k /\ n.loginAt = e.at
    BY <1>1 DEF Accepts
  <2>2. S2 = S \cup {n} /\ n \notin S
    BY <2>1 DEF Starts
  <2>3. LoginsTie(S2, k) <=> \E r, s \in S2 : r.key = k /\ s.key = k /\ r # s /\ r.loginAt = s.loginAt
    BY DEF LoginsTie, SessionsOf
  <2>4. LoginsTie(S, k) <=> \E r, s \in S : r.key = k /\ s.key = k /\ r # s /\ r.loginAt = s.loginAt
    BY DEF LoginsTie, SessionsOf
  <2> QED
    BY <1>1, <2>1, <2>2, <2>3, <2>4
<1>2. ASSUME NEW s, NEW s2, s \in S, S2 = (S \ {s}) \cup {s2}, s2.id = s.id,
             s2.key = s.key, s2.loginAt = s.loginAt, \A r \in S : r.id = s.id => r = s
      PROVE  LoginsTie(S2, k) <=> LoginsTie(S, k)
  <2>3. LoginsTie(S2, k) <=> \E r, q \in S2 : r.key = k /\ q.key = k /\ r # q /\ r.loginAt = q.loginAt
    BY DEF LoginsTie, SessionsOf
  <2>4. LoginsTie(S, k) <=> \E r, q \in S : r.key = k /\ q.key = k /\ r # q /\ r.loginAt = q.loginAt
    BY DEF LoginsTie, SessionsOf
  <2> QED
    BY <1>2, <2>3, <2>4
<1>3. \A r, s \in S : r.id = s.id => r = s
  BY DEF StoreOK, RowsAreUnique
<1>4. CASE e.type = "UPDATE"
  <2>1. PICK s, s2, r, w : Replaces(S, T, S2, T2, s, s2, r, w)
    BY <1>4 DEF Accepts
  <2>2. /\ s \in S /\ S2 = (S \ {s}) \cup {s2} /\ s2.id = s.id
        /\ s2.key = s.key /\ s2.loginAt = s.loginAt
    BY <2>1 DEF Replaces, StoreOK, SessionRow
  <2> QED
    BY <1>2, <1>3, <1>4, <2>2
<1>5. CASE e.type = "LOGOUT"
  <2>1. PICK s, s2, r : Ends(S, T, S2, T2, s, s2, r)
    BY <1>5 DEF Accepts
  <2>2. /\ s \in S /\ S2 = (S \ {s}) \cup {s2} /\ s2.id = s.id
        /\ s2.key = s.key /\ s2.loginAt = s.loginAt
    BY <2>1 DEF Ends, StoreOK, SessionRow
  <2> QED
    BY <1>2, <1>3, <1>5, <2>2
<1> QED
  BY <1>1, <1>4, <1>5 DEF Accepts

(* Where no logins tie, an event is accepted if it counts, and else leaves *)
(* the tables as they are; so they go on representing what the key's       *)
(* events mean.                                                            *)
LEMMA DeliveryRepresents ==
  ASSUME NEW S, NEW T, NEW e, NEW newID, Deliverable(S, T, e, newID),
         ~LoginsTie(S, e.key), NEW M, Represents(S, T, e.key, M)
  PROVE  LET o == ApplyEvent(S, T, e, newID) IN
         /\ Represents(o.sessions, o.states, e.key, After(M, e))
         /\ Counts(M, e) => Accepts(S, T, o.sessions, o.states, e)
         /\ ~Counts(M, e) => o.sessions = S /\ o.states = T
         /\ o.err = "none" <=> Counts(M, e) \/ e.eventID = M.lastID
<1> DEFINE o == ApplyEvent(S, T, e, newID)
           k == e.key
<1>1. StoreOK(S, T) /\ SpansOK(S, T) /\ SessionsDisjoint(S) /\ k \in Keys /\ e \in Events
  BY DEF Deliverable, TablesOK, Events
<1>2. PICK sn \in Snapshot : LoadCurrent(S, T, k) = Loaded(sn)
  BY <1>1, SnapshotLoaded
<1> DEFINE m == Decide(sn, e, newID)
<1>3. /\ m.kind \in Writes => Accepts(S, T, o.sessions, o.states, e)
      /\ m.kind \notin Writes => o.sessions = S /\ o.states = T
      /\ o.err = "none" <=> m.kind \in Writes \cup {"duplicate_event"}
  BY <1>2, DeliveryIs
<1>4. /\ sn.lastEventID = M.lastID /\ sn.lastEventAt = M.clock
      /\ sn.active = NULL <=> M.open = NULL
      /\ sn.active # NULL => sn.active.key = k /\ CurrentState(sn) = "ok"
  BY <1>1, <1>2, SnapshotAgrees
<1>5. M.clock \in Int \cup {NULL}
  BY <1>2, <1>4 DEF Snapshot
<1>6. /\ m.kind \in Writes <=> Counts(M, e)
      /\ m.kind = "duplicate_event" <=> e.eventID = M.lastID
  <2>1. e.type = "LOGIN" => newID # NULL
    BY StoreAssumption DEF Deliverable, NewSessionIDs
  <2> QED
    BY <1>1, <1>4, <1>5, <2>1, CountsIsWritten
<1> HIDE DEF m, o
<1>7. Represents(o.sessions, o.states, k, After(M, e))
  <2>1. CASE Counts(M, e)
    BY <1>1, <1>3, <1>6, <2>1, AcceptedRepresents
  <2>2. CASE ~Counts(M, e)
    <3>1. After(M, e) = M
      BY <2>2 DEF After
    <3> QED
      BY <1>3, <1>6, <2>2, <3>1
  <2> QED
    BY <2>1, <2>2
<1> QED
  BY <1>3, <1>6, <1>7 DEF o

-----------------------------------------------------------------------------
(************************ The inductive invariant **************************)

LogOK ==
  /\ log \in [Partitions -> Seq(Events)]
  /\ \A p \in Partitions :
       /\ Len(log[p]) <= MaxLog
       /\ \A i \in 1..Len(log[p]) : Owner[log[p][i].key] = p

OffsetsOK ==
  /\ committed \in [Partitions -> Nat] /\ base \in [Partitions -> Nat]
  /\ done \in [Partitions -> Nat]
  /\ \A p \in Partitions :
       base[p] <= committed[p] /\ committed[p] <= done[p] /\ done[p] <= Len(log[p])

(* What the next places of the history are made of.                        *)
HistoryOK ==
  accepted \subseteq Places /\ refused \subseteq Places /\ restarts \in 0..MaxRestarts

RowsMean ==
  \A k \in Keys : ~LoginsTie(sessions, k) => Represents(sessions, states, k, Meaning(k))

Inv == LogOK /\ OffsetsOK /\ HistoryOK /\ TablesOK(sessions, states) /\ RowsMean

(* A record e of partition p is handled, for the first time or again.      *)
Handles(p, e) ==
  /\ e \in Events /\ Owner[e.key] = p /\ Deliver(p, e)
  /\ LogOK'
  /\ done[p] < Len(log'[p]) /\ log'[p][done[p] + 1] = e
  /\ \A i \in 1..Len(log[p]) : i \in 1..Len(log'[p]) /\ log'[p][i] = log[p][i]
  /\ \A i \in 1..Len(log'[p]) : i \in 1..Len(log[p]) \/ i = done[p] + 1
  /\ \A q \in Partitions : q # p => log'[q] = log[q]

LEMMA HandlingIs ==
  ASSUME LogOK, OffsetsOK, NEW p \in Partitions, HandleNew(p) \/ HandleAgain(p)
  PROVE  \E e : Handles(p, e)
<1> USE PipelineAssumption
<1>0. /\ log \in [Partitions -> Seq(Events)] /\ log[p] \in Seq(Events)
      /\ done[p] \in Nat /\ done[p] <= Len(log[p])
      /\ \A q \in Partitions : /\ Len(log[q]) <= MaxLog
                               /\ \A i \in 1..Len(log[q]) : Owner[log[q][i].key] = q
  BY DEF LogOK, OffsetsOK
<1>1. CASE HandleNew(p)
  <2>1. PICK e \in Events : /\ Owner[e.key] = p /\ Deliver(p, e)
                            /\ log' = [log EXCEPT ![p] = Append(@, e)]
    BY <1>1 DEF HandleNew
  <2>2. done[p] = Len(log[p]) /\ Len(log[p]) < MaxLog
    BY <1>1 DEF HandleNew
  <2>3. /\ log'[p] = Append(log[p], e) /\ \A q \in Partitions : q # p => log'[q] = log[q]
        /\ log' \in [Partitions -> Seq(Events)]
    BY <1>0, <2>1
  <2>4. /\ Len(log'[p]) = Len(log[p]) + 1 /\ log'[p][Len(log[p]) + 1] = e
        /\ \A i \in 1..Len(log[p]) : log'[p][i] = log[p][i]
    BY <1>0, <2>3
  <2>5. LogOK'
    <3>1. ASSUME NEW q \in Partitions
          PROVE  /\ Len(log'[q]) <= MaxLog
                 /\ \A i \in 1..Len(log'[q]) : Owner[log'[q][i].key] = q
      <4>1. CASE q = p
        <5>1. Len(log'[p]) <= MaxLog
          BY <1>0, <2>2, <2>4
        <5>2. ASSUME NEW i \in 1..Len(log'[p]) PROVE Owner[log'[p][i].key] = p
          <6>1. i \in 1..Len(log[p]) \/ i = Len(log[p]) + 1
            BY <2>4, <1>0
          <6> QED
            BY <1>0, <2>1, <2>4, <6>1
        <5> QED
          BY <4>1, <5>1, <5>2
      <4>2. CASE q # p
        BY <1>0, <2>3, <4>2
      <4> QED
        BY <4>1, <4>2
    <3> QED
      BY <2>3, <3>1 DEF LogOK
  <2>6. done[p] < Len(log'[p])
    BY <1>0, <2>2, <2>4
  <2>7. /\ \A i \in 1..Len(log[p]) : i \in 1..Len(log'[p])
        /\ \A i \in 1..Len(log'[p]) : i \in 1..Len(log[p]) \/ i = done[p] + 1
    BY <1>0, <2>2, <2>4
  <2>8. Handles(p, e)
    BY <2>1, <2>2, <2>3, <2>4, <2>5, <2>6, <2>7 DEF Handles
  <2> QED
    BY <2>8
<1>2. CASE HandleAgain(p)
  <2> DEFINE e == log[p][done[p] + 1]
  <2>1. done[p] < Len(log[p]) /\ Deliver(p, e) /\ log' = log
    BY <1>2 DEF HandleAgain
  <2>2. done[p] + 1 \in 1..Len(log[p]) /\ e \in Events /\ Owner[e.key] = p
    BY <1>0, <2>1
  <2>3. LogOK'
    BY <2>1 DEF LogOK
  <2>4. Handles(p, e)
    BY <2>1, <2>2, <2>3 DEF Handles
  <2> QED
    BY <2>4
<1> QED
  BY <1>1, <1>2

(* It applies e to the tables.                                             *)
LEMMA HandlingApplies ==
  ASSUME Inv, NEW p \in Partitions, NEW e, Handles(p, e)
  PROVE  \E newID :
           LET o     == ApplyEvent(sessions, states, e, newID)
               place == {<<p, done[p] + 1>>}
           IN
           /\ Deliverable(sessions, states, e, newID)
           /\ sessions' = o.sessions /\ states' = o.states
           /\ accepted' = IF o.err = "none" THEN accepted \cup place ELSE accepted
           /\ refused' = IF o.err = "none" THEN refused ELSE refused \cup place
BY PipelineAssumption DEF Inv, Handles, Deliver, Deliverable

LEMMA HandlingKeepsRecords ==
  ASSUME Inv, NEW p \in Partitions, NEW e, Handles(p, e)
  PROVE  log'[p][done[p] + 1] = e /\ \A i \in 1..done[p] : log'[p][i] = log[p][i]
<1>1. done[p] \in Nat /\ done[p] <= Len(log[p]) /\ log[p] \in Seq(Events)
  BY DEF Inv, OffsetsOK, LogOK
<1>2. \A i \in 1..done[p] : i \in 1..Len(log[p])
  BY <1>1
<1> QED
  BY <1>2 DEF Handles

LEMMA HandlingKeepsOffsets ==
  ASSUME Inv, NEW p \in Partitions, NEW e, Handles(p, e)
  PROVE  /\ OffsetsOK' /\ HistoryOK'
         /\ done'[p] = done[p] + 1 /\ \A q \in Partitions : q # p => done'[q] = done[q]
         /\ base' = base /\ base[p] \in Nat /\ done[p] \in Nat /\ base[p] <= done[p]
<1>1. /\ committed \in [Partitions -> Nat] /\ base \in [Partitions -> Nat]
      /\ done \in [Partitions -> Nat]
      /\ \A q \in Partitions :
           base[q] <= committed[q] /\ committed[q] <= done[q] /\ done[q] <= Len(log[q])
  BY DEF Inv, OffsetsOK
<1>2. done' = [done EXCEPT ![p] = @ + 1] /\ UNCHANGED <<committed, base, restarts>>
  BY DEF Handles, Deliver
<1>3. /\ done'[p] = done[p] + 1 /\ \A q \in Partitions : q # p => done'[q] = done[q]
      /\ done' \in [Partitions -> Nat]
  BY <1>1, <1>2
<1>4. /\ done[p] < Len(log'[p]) /\ Len(log'[p]) <= MaxLog /\ Len(log'[p]) \in Nat
      /\ \A q \in Partitions : q # p => log'[q] = log[q]
  <2>1. log'[p] \in Seq(Events)
    BY DEF Handles, LogOK
  <2>2. Len(log'[p]) \in Nat
    BY <2>1
  <2> QED
    BY <2>2 DEF Handles, LogOK
<1>5. OffsetsOK'
  <2>1. ASSUME NEW q \in Partitions
        PROVE  base[q] <= committed[q] /\ committed[q] <= done'[q] /\ done'[q] <= Len(log'[q])
    <3>1. CASE q = p
      BY <1>1, <1>3, <1>4, <3>1
    <3>2. CASE q # p
      BY <1>1, <1>3, <1>4, <3>2
    <3> QED
      BY <3>1, <3>2
  <2> QED
    BY <1>1, <1>2, <1>3, <2>1 DEF OffsetsOK
<1>6. HistoryOK'
  <2>1. done[p] + 1 \in 1..MaxLog
    BY <1>1, <1>4, PipelineAssumption
  <2>2. {<<p, done[p] + 1>>} \subseteq Places
    BY <2>1 DEF Places
  <2>3. /\ accepted' \subseteq accepted \cup {<<p, done[p] + 1>>}
        /\ refused' \subseteq refused \cup {<<p, done[p] + 1>>}
    BY HandlingApplies
  <2> QED
    BY <1>2, <2>2, <2>3 DEF HistoryOK, Inv
<1> QED
  BY <1>1, <1>2, <1>3, <1>5, <1>6

(* The meaning of a key follows the records of its partition.              *)
LEMMA HandlingMeans ==
  ASSUME Inv, NEW p \in Partitions, NEW e, Handles(p, e), NEW k \in Keys
  PROVE  Meaning(k)' = IF k = e.key THEN After(Meaning(k), e) ELSE Meaning(k)
<1> DEFINE q == Owner[k]
<1>0. q \in Partitions /\ Owner[e.key] = p
  BY PipelineAssumption DEF Handles
<1>1. /\ done'[p] = done[p] + 1 /\ \A r \in Partitions : r # p => done'[r] = done[r]
      /\ base' = base /\ base[p] \in Nat /\ done[p] \in Nat /\ base[p] <= done[p]
  BY HandlingKeepsOffsets
<1>2. Meaning(k) = MeaningOf(log[q], k, base[q], done[q])
  BY MeaningIs
<1>3. Meaning(k)' = MeaningOf(log'[q], k, base'[q], done'[q])
  BY DEF Meaning, MeaningOf, IsMeaning
<1>4. /\ \A r \in Partitions : r # p => log'[r] = log[r]
      /\ log'[p][done[p] + 1] = e /\ \A i \in 1..done[p] : log'[p][i] = log[p][i]
  BY HandlingKeepsRecords DEF Handles
<1> HIDE DEF q
<1>5. CASE q # p
  <2>1. k # e.key
    BY <1>0, <1>5 DEF q
  <2> QED
    BY <1>0, <1>1, <1>2, <1>3, <1>4, <1>5, <2>1
<1>6. CASE q = p
  <2>1. Meaning(k)' = MeaningOf(log'[p], k, base[p], done[p] + 1)
    BY <1>1, <1>3, <1>6
  <2>2. MeaningOf(log'[p], k, base[p], done[p] + 1)
          = MeaningStep(MeaningOf(log'[p], k, base[p], (done[p] + 1) - 1), log'[p], k, done[p] + 1)
    BY <1>1, MeaningSteps
  <2>3. (done[p] + 1) - 1 = done[p]
    BY <1>1
  <2>4. \A n \in base[p]..done[p] : n # base[p] => log[p][n] = log'[p][n]
    BY <1>1, <1>4
  <2>5. MeaningOf(log'[p], k, base[p], done[p]) = MeaningOf(log[p], k, base[p], done[p])
    BY <1>1, <2>4, MeaningFrame
  <2>6. Meaning(k)' = MeaningStep(Meaning(k), log'[p], k, done[p] + 1)
    BY <1>2, <1>6, <2>1, <2>2, <2>3, <2>5
  <2> QED
    BY <1>4, <2>6 DEF MeaningStep
<1> QED
  BY <1>5, <1>6

LEMMA HandlingKeepsInv ==
  ASSUME Inv, NEW p \in Partitions, NEW e, Handles(p, e)
  PROVE  Inv'
<1>1. LogOK' /\ OffsetsOK' /\ HistoryOK' /\ e.key \in Keys
  BY HandlingKeepsOffsets DEF Handles, Events
<1>2. PICK newID :
        /\ Deliverable(sessions, states, e, newID)
        /\ sessions' = ApplyEvent(sessions, states, e, newID).sessions
        /\ states' = ApplyEvent(sessions, states, e, newID).states
  BY HandlingApplies
<1>3. /\ TablesOK(sessions', states')
      /\ OnlyKey(sessions, states, sessions', states', e.key)
      /\ \/ Accepts(sessions, states, sessions', states', e)
         \/ sessions' = sessions /\ states' = states
  BY <1>2, DeliveryKeepsTables
<1>4. ASSUME NEW k \in Keys, ~LoginsTie(sessions', k)
      PROVE  Represents(sessions', states', k, Meaning(k)')
  <2>1. Meaning(k)' = IF k = e.key THEN After(Meaning(k), e) ELSE Meaning(k)
    BY HandlingMeans
  <2>2. CASE k = e.key
    <3>1. ~LoginsTie(sessions, k)
      BY <1>3, <1>4, <2>2, TiesAre DEF Inv, TablesOK
    <3>2. Represents(sessions, states, k, Meaning(k))
      BY <3>1 DEF Inv, RowsMean
    <3>3. Represents(sessions', states', k, After(Meaning(k), e))
      BY <1>2, <2>2, <3>1, <3>2, DeliveryRepresents
    <3> QED
      BY <2>1, <2>2, <3>3
  <2>3. CASE k # e.key
    <3>1. ~LoginsTie(sessions, k)
      BY <1>3, <1>4, <2>3 DEF OnlyKey, LoginsTie
    <3>2. Represents(sessions, states, k, Meaning(k))
      BY <3>1 DEF Inv, RowsMean
    <3> QED
      BY <1>3, <2>1, <2>3, <3>2, OthersRepresent
  <2> QED
    BY <2>2, <2>3
<1> QED
  BY <1>1, <1>3, <1>4 DEF Inv, RowsMean

(* A run that has handled nothing means nothing, and its tables are empty. *)
LEMMA NothingMeans ==
  ASSUME NEW k
  PROVE  Represents({}, {}, k, Blankness)
<1>1. SessionsOf({}, k) = {} /\ EndedOf({}, k) = {}
  BY DEF SessionsOf, EndedOf
<1>2. EndsWith({}, {}, k, Blankness)
  BY <1>1 DEF EndsWith
<1>3. OpenIs({}, {}, k, Blankness.open)
  BY DEF OpenIs, Blankness
<1>4. EndedAre({}, {}, k, Blankness.ended)
  BY <1>1 DEF EndedAre, Blankness
<1> QED
  BY <1>2, <1>3, <1>4 DEF Represents

LEMMA EmptyTables ==
  TablesOK({}, {})
<1>1. StoreOK({}, {})
  BY DEF StoreOK, RowsAreUnique, OpenRowsAgree, OpenStateIsLast, MaximaExist
<1> QED
  BY <1>1 DEF TablesOK, SessionsDisjoint, SpansOK

LEMMA InitInv == Init => Inv
<1> SUFFICES ASSUME Init PROVE Inv
  OBVIOUS
<1>1. LogOK
  BY PipelineAssumption DEF Init, LogOK
<1>2. OffsetsOK /\ HistoryOK
  <2>1. OffsetsOK
    BY DEF Init, OffsetsOK
  <2>2. HistoryOK
    BY PipelineAssumption DEF Init, HistoryOK
  <2> QED
    BY <2>1, <2>2
<1>3. TablesOK(sessions, states)
  BY EmptyTables DEF Init
<1>4. ASSUME NEW k \in Keys PROVE Represents(sessions, states, k, Meaning(k))
  <2>1. Owner[k] \in Partitions
    BY PipelineAssumption
  <2>2. base[Owner[k]] = 0 /\ done[Owner[k]] = 0 /\ sessions = {} /\ states = {}
    BY <2>1 DEF Init
  <2>3. Meaning(k) = Blankness
    BY <2>2, MeaningIs, MeaningStarts
  <2> QED
    BY <2>2, <2>3, NothingMeans
<1> QED
  BY <1>1, <1>2, <1>3, <1>4 DEF Inv, RowsMean

LEMMA CommitKeepsInv ==
  ASSUME Inv, CommitBatch
  PROVE  Inv'
<1>1. /\ committed' = done
      /\ UNCHANGED <<log, base, done, sessions, states, accepted, refused, restarts>>
  BY DEF CommitBatch
<1>2. LogOK' /\ HistoryOK' /\ TablesOK(sessions', states')
  BY <1>1 DEF Inv, LogOK, HistoryOK
<1>3. OffsetsOK'
  BY <1>1 DEF Inv, OffsetsOK
<1>4. RowsMean'
  <2>1. \A k \in Keys : Meaning(k)' = Meaning(k)
    BY <1>1 DEF Meaning
  <2> QED
    BY <1>1, <2>1 DEF Inv, RowsMean
<1> QED
  BY <1>2, <1>3, <1>4 DEF Inv

LEMMA RestartKeepsInv ==
  ASSUME Inv, Restart
  PROVE  Inv'
<1>1. /\ restarts < MaxRestarts /\ restarts' = restarts + 1
      /\ sessions' = {} /\ states' = {} /\ base' = committed /\ done' = committed
      /\ UNCHANGED <<log, committed, accepted, refused>>
  BY DEF Restart
<1>2. LogOK' /\ HistoryOK'
  BY <1>1, PipelineAssumption DEF Inv, LogOK, HistoryOK
<1>3. OffsetsOK'
  <2>1. /\ committed \in [Partitions -> Nat]
        /\ \A q \in Partitions : committed[q] <= done[q] /\ done[q] <= Len(log[q])
        /\ done \in [Partitions -> Nat]
        /\ \A q \in Partitions : Len(log[q]) \in Nat
    BY DEF Inv, OffsetsOK, LogOK
  <2> QED
    BY <1>1, <2>1 DEF OffsetsOK
<1>4. TablesOK(sessions', states')
  BY <1>1, EmptyTables
<1>5. ASSUME NEW k \in Keys PROVE Represents(sessions', states', k, Meaning(k)')
  <2> DEFINE q == Owner[k]
  <2>1. q \in Partitions
    BY PipelineAssumption
  <2>2. base'[q] = committed[q] /\ done'[q] = committed[q] /\ committed[q] \in Int
    BY <1>1, <2>1 DEF Inv, OffsetsOK
  <2>3. Meaning(k)' = MeaningOf(log'[q], k, base'[q], done'[q])
    BY DEF Meaning, MeaningOf, IsMeaning
  <2>4. Meaning(k)' = Blankness
    BY <2>2, <2>3, MeaningStarts
  <2> QED
    BY <1>1, <2>4, NothingMeans
<1> QED
  BY <1>2, <1>3, <1>4, <1>5 DEF Inv, RowsMean

LEMMA StutterKeepsInv ==
  ASSUME Inv, UNCHANGED vars
  PROVE  Inv'
<1>1. UNCHANGED <<log, committed, base, done, sessions, states, accepted, refused, restarts>>
  BY DEF vars
<1>2. \A k \in Keys : Meaning(k)' = Meaning(k)
  BY <1>1 DEF Meaning
<1> QED
  BY <1>1, <1>2 DEF Inv, LogOK, OffsetsOK, HistoryOK, RowsMean

(* The invariant that the theorems below rest on.                          *)
THEOREM PipelineInvariant == Spec => []Inv
<1>1. Inv /\ [Next]_vars => Inv'
  <2> SUFFICES ASSUME Inv, [Next]_vars PROVE Inv'
    OBVIOUS
  <2>1. ASSUME NEW p \in Partitions, HandleNew(p) \/ HandleAgain(p) PROVE Inv'
    BY <2>1, HandlingIs, HandlingKeepsInv DEF Inv
  <2>2. CASE CommitBatch
    BY <2>2, CommitKeepsInv
  <2>3. CASE Restart
    BY <2>3, RestartKeepsInv
  <2>4. CASE UNCHANGED vars
    BY <2>4, StutterKeepsInv
  <2> QED
    BY <2>1, <2>2, <2>3, <2>4 DEF Next
<1> QED
  BY <1>1, InitInv, PTL DEF Spec

(* The log, the offsets and the tables have the types the code gives them, *)
(* and the offsets of a run are between those it began at and the log's.   *)
THEOREM TypeCorrect == Spec => []TypeOK
<1>1. Inv => TypeOK
  <2> SUFFICES ASSUME Inv PROVE TypeOK
    OBVIOUS
  <2>1. log \in [Partitions -> Seq(Events)]
    BY DEF Inv, LogOK
  <2>2. ASSUME NEW p \in Partitions
        PROVE  /\ committed[p] \in 0..Len(log[p]) /\ done[p] \in 0..Len(log[p])
               /\ base[p] \in 0..done[p] /\ Len(log[p]) <= MaxLog
    <3>1. Len(log[p]) \in Nat
      BY <2>1
    <3>2. committed[p] \in Nat /\ base[p] \in Nat /\ done[p] \in Nat
      BY DEF Inv, OffsetsOK
    <3>3. base[p] <= committed[p] /\ committed[p] <= done[p] /\ done[p] <= Len(log[p])
      BY DEF Inv, OffsetsOK
    <3>4. Len(log[p]) <= MaxLog
      BY DEF Inv, LogOK
    <3> QED
      BY <3>1, <3>2, <3>3, <3>4
  <2>3. sessions \subseteq SessionRow /\ states \subseteq StateRow
    BY DEF Inv, TablesOK, StoreOK
  <2>4. accepted \subseteq Places /\ refused \subseteq Places /\ restarts \in 0..MaxRestarts
    BY DEF Inv, HistoryOK
  <2> QED
    BY <2>1, <2>2, <2>3, <2>4 DEF TypeOK
<1> QED
  BY <1>1, PipelineInvariant, PTL

(* Where no logins tie, the open session is the last one to have changed.  *)
LEMMA OpenIsLatest ==
  ASSUME NEW S, NEW T, TablesOK(S, T), NEW k, ~LoginsTie(S, k),
         NEW s \in S, s.key = k, s.logoutAt = NULL,
         NEW x \in S, x.key = k, \A q \in S : q.key = k => q.loginAt <= x.loginAt
  PROVE  x = s
<1> SUFFICES ASSUME x # s PROVE FALSE
  OBVIOUS
<1>1. x.logoutAt # NULL /\ x.logoutAt <= s.loginAt
  BY DEF TablesOK, SessionsDisjoint, Precedes
<1>2. x.loginAt <= x.logoutAt /\ s.loginAt <= x.loginAt
  BY <1>1 DEF TablesOK, SpansOK
<1>3. x.loginAt \in Int /\ s.loginAt \in Int /\ x.logoutAt \in Int
  BY <1>1 DEF TablesOK, StoreOK, SessionRow
<1>4. x.loginAt = s.loginAt
  BY <1>1, <1>2, <1>3
<1> QED
  BY <1>4 DEF LoginsTie, SessionsOf

LEMMA StoredAreMeant ==
  ASSUME TablesOK(sessions, states), NEW k, ~LoginsTie(sessions, k),
         Represents(sessions, states, k, Meaning(k))
  PROVE  Stored(k) = Meant(k)
<1> DEFINE M == Meaning(k)
           open == [login |-> M.open.login, logout |-> NULL, lastID |-> M.lastID,
                    periods |-> M.open.periods \cup {Period(M.open, NULL)}]
<1>1. \A r : Period([from |-> r.validFrom, tags |-> r.tags], r.validTo) = PeriodOf(r)
  BY DEF Period, PeriodOf
<1>2. Stored(k) = {StoredSession(states, s) : s \in SessionsOf(sessions, k)}
  BY <1>1 DEF Stored, StoredSession, PeriodsOf
<1>3. Meant(k) = M.ended \cup (IF M.open = NULL THEN {} ELSE {open})
  BY DEF Meant
<1> HIDE DEF M
<1>4. /\ EndsWith(sessions, states, k, M) /\ OpenIs(sessions, states, k, M.open)
      /\ M.ended = {StoredSession(states, s) : s \in EndedOf(sessions, k)}
  BY DEF Represents, EndedAre, M
<1>5. CASE M.open = NULL
  <2>1. EndedOf(sessions, k) = SessionsOf(sessions, k)
    BY <1>4, <1>5 DEF OpenIs, EndedOf, SessionsOf
  <2> QED
    BY <1>2, <1>3, <1>4, <1>5, <2>1
<1>6. CASE M.open # NULL
  <2>1. PICK s \in sessions :
          /\ s.key = k /\ s.logoutAt = NULL
          /\ \E r \in StatesOf(states, s.id) :
               r.validTo = NULL /\ M.open = OpenRecord(states, s, r)
    BY <1>4, <1>6 DEF OpenIs
  <2>2. PICK r \in StatesOf(states, s.id) :
          r.validTo = NULL /\ M.open = OpenRecord(states, s, r)
    BY <2>1
  <2>3. SessionsOf(sessions, k) = EndedOf(sessions, k) \cup {s}
    BY <2>1 DEF EndedOf, SessionsOf, TablesOK, StoreOK, RowsAreUnique
  <2>4. s.lastEventID = M.lastID
    <3>1. SessionsOf(sessions, k) # {}
      BY <2>3
    <3>2. PICK x \in sessions : /\ x.key = k /\ x.lastEventID = M.lastID
                                /\ \A q \in sessions : q.key = k => q.loginAt <= x.loginAt
      BY <1>4, <3>1 DEF EndsWith
    <3>3. x = s
      BY <2>1, <3>2, OpenIsLatest
    <3> QED
      BY <3>2, <3>3
  <2>5. StoredSession(states, s) = open
    <3>1. /\ M.open.login = s.loginAt /\ Period(M.open, NULL) = PeriodOf(r)
          /\ M.open.periods = PeriodsOf(StatesOf(states, s.id) \ {r})
      BY <2>2 DEF OpenRecord, Period, PeriodOf
    <3>2. PeriodsOf(StatesOf(states, s.id))
            = PeriodsOf(StatesOf(states, s.id) \ {r}) \cup {PeriodOf(r)}
      BY <2>2 DEF PeriodsOf
    <3> QED
      BY <2>1, <2>4, <3>1, <3>2 DEF StoredSession
  <2> HIDE DEF open
  <2> QED
    BY <1>2, <1>3, <1>4, <1>6, <2>3, <2>5
<1> QED
  BY <1>5, <1>6

(* In every state of every run the sessions stored for a key are those its *)
(* events of this run mean, taken one after another.                       *)
THEOREM TablesAreWhatTheLogMeans == Spec => []TablesMeanTheLog
<1>1. Inv => TablesMeanTheLog
  BY StoredAreMeant DEF Inv, RowsMean, TablesMeanTheLog
<1> QED
  BY <1>1, PipelineInvariant, PTL

-----------------------------------------------------------------------------
(************************ Repeats change nothing ***************************)

(* An event that does not count leaves the tables as they are, whichever   *)
(* session id it draws.                                                    *)
LEMMA IdleChangesNothing ==
  ASSUME NEW S, NEW T, TablesOK(S, T), NEW e \in Events, ~LoginsTie(S, e.key),
         NEW M, Represents(S, T, e.key, M), ~Counts(M, e), NEW newID \in SessionIDs
  PROVE  LET o == ApplyEvent(S, T, e, newID) IN o.sessions = S /\ o.states = T
<1> DEFINE o == ApplyEvent(S, T, e, newID)
           k == e.key
<1>1. StoreOK(S, T) /\ SpansOK(S, T) /\ k \in Keys
  BY DEF TablesOK, Events
<1>2. PICK sn \in Snapshot : LoadCurrent(S, T, k) = Loaded(sn)
  BY <1>1, SnapshotLoaded
<1> DEFINE m == Decide(sn, e, newID)
<1>3. /\ sn.lastEventID = M.lastID /\ sn.lastEventAt = M.clock
      /\ sn.active = NULL <=> M.open = NULL
      /\ sn.active # NULL => sn.active.key = k /\ CurrentState(sn) = "ok"
  BY <1>1, <1>2, SnapshotAgrees
<1>4. M.clock \in Int \cup {NULL}
  BY <1>2, <1>3 DEF Snapshot
<1>5. m.kind \notin Writes
  <2>1. newID # NULL
    BY StoreAssumption
  <2> QED
    BY <1>3, <1>4, <2>1, CountsIsWritten
<1>6. m.kind \in DomainErrors \cup Writes \cup {"duplicate_event"}
  BY DecideType
<1>7. o = Applied(S, T, sn, e, newID)
  BY <1>2, ApplyEventIs
<1> HIDE DEF o
<1>8. CASE m.kind \in DomainErrors
  <2>1. o = [err |-> m.kind, sessions |-> S, states |-> T]
    BY <1>7, <1>8 DEF Applied
  <2> QED
    BY <2>1 DEF o
<1>9. CASE m.kind \notin DomainErrors
  <2>1. o = ApplyMutation(S, T, k, m)
    BY <1>7, <1>9 DEF Applied
  <2> HIDE DEF m
  <2>2. m.kind = "duplicate_event"
    BY <1>5, <1>6, <1>9
  <2>3. o = [err |-> "none", sessions |-> S, states |-> T]
    BY <2>1, <2>2 DEF ApplyMutation, PersistMutation
  <2> QED
    BY <2>3 DEF o
<1> QED
  BY <1>8, <1>9

(* An event that has been taken into account does not count again, nor     *)
(* does one that happened before it.                                       *)
LEMMA CountsOnce ==
  ASSUME NEW M, NEW e, e.at \in Int
  PROVE  /\ ~Counts(After(M, e), e)
         /\ \A f : f.at \in Int /\ f.at < e.at /\ ~Counts(M, f) => ~Counts(After(M, e), f)
<1>1. CASE Counts(M, e)
  <2>1. After(M, e).clock = e.at /\ After(M, e).lastID = e.eventID
    BY <1>1 DEF After
  <2>2. e.at # NULL
    BY StoreAssumption
  <2> QED
    BY <2>1, <2>2 DEF Counts
<1>2. CASE ~Counts(M, e)
  <2>1. After(M, e) = M
    BY <1>2 DEF After
  <2> QED
    BY <1>2, <2>1
<1> QED
  BY <1>1, <1>2

(* In a run that gets the events of each key in the order they happened,   *)
(* no logins tie, every stored time is an event's, and no event that has   *)
(* been handled counts any more.                                           *)
KeyIsSettled(p, k) ==
  LET handled == {i \in (base[p] + 1)..done[p] : log[p][i].key = k} IN
  /\ ~LoginsTie(sessions, k)
  /\ \A u \in TimesIn(sessions, states, k) : \E i \in handled : log[p][i].at = u
  /\ \A i \in handled : ~Counts(Meaning(k), log[p][i])

RunsSettle ==
  \A p \in Partitions : TimesIncrease(p) =>
    \A k \in Keys : Owner[k] = p => KeyIsSettled(p, k)

(* The places of a partition's run after one more record is handled.       *)
LEMMA HandledPlaces ==
  ASSUME Inv, NEW p \in Partitions, NEW e, Handles(p, e)
  PROVE  LET n == done[p] + 1 IN
         /\ (base'[p] + 1)..done'[p] = ((base[p] + 1)..done[p]) \cup {n}
         /\ \A i \in (base[p] + 1)..done[p] : i < n /\ log'[p][i] = log[p][i]
         /\ log'[p][n] = e
         /\ \A i \in (base[p] + 1)..done[p] : log[p][i] \in Events
<1>1. /\ done'[p] = done[p] + 1 /\ base' = base
      /\ base[p] \in Nat /\ done[p] \in Nat /\ base[p] <= done[p]
  BY HandlingKeepsOffsets
<1>2. /\ log'[p][done[p] + 1] = e
      /\ \A i \in 1..done[p] : log'[p][i] = log[p][i]
  BY HandlingKeepsRecords
<1>3. (base'[p] + 1)..done'[p] = ((base[p] + 1)..done[p]) \cup {done[p] + 1}
  BY <1>1
<1>4. \A i \in (base[p] + 1)..done[p] : i \in 1..done[p] /\ i < done[p] + 1
  BY <1>1
<1>5. log[p] \in Seq(Events) /\ done[p] <= Len(log[p])
  BY DEF Inv, LogOK, OffsetsOK
<1>6. \A i \in 1..done[p] : log[p][i] \in Events
  BY <1>1, <1>5
<1> QED
  BY <1>2, <1>3, <1>4, <1>6

LEMMA HandlingSettles ==
  ASSUME Inv, RunsSettle, NEW p \in Partitions, NEW e, Handles(p, e)
  PROVE  RunsSettle'
<1> DEFINE n == done[p] + 1
           I == (base[p] + 1)..done[p]
<1>1. /\ (base'[p] + 1)..done'[p] = I \cup {n}
      /\ \A i \in I : i < n /\ log'[p][i] = log[p][i] /\ log[p][i] \in Events
      /\ log'[p][n] = e
  BY HandledPlaces
<1>2. /\ base' = base /\ \A q \in Partitions : q # p => done'[q] = done[q]
      /\ \A q \in Partitions : q # p => log'[q] = log[q]
      /\ e \in Events /\ Owner[e.key] = p /\ e.at \in Int /\ e.key \in Keys
  BY HandlingKeepsOffsets, ServiceAssumption DEF Handles, Events
<1>3. PICK newID :
        /\ Deliverable(sessions, states, e, newID)
        /\ sessions' = ApplyEvent(sessions, states, e, newID).sessions
        /\ states' = ApplyEvent(sessions, states, e, newID).states
  BY HandlingApplies
<1>4. /\ OnlyKey(sessions, states, sessions', states', e.key)
      /\ \/ Accepts(sessions, states, sessions', states', e)
         \/ sessions' = sessions /\ states' = states
  BY <1>3, DeliveryKeepsTables
<1> HIDE DEF n, I
<1>5. ASSUME NEW k \in Keys, k # e.key
      PROVE  /\ LoginsTie(sessions', k) <=> LoginsTie(sessions, k)
             /\ TimesIn(sessions', states', k) = TimesIn(sessions, states, k)
             /\ Meaning(k)' = Meaning(k)
  <2>1. TimesIn(sessions', states', k) = TimesIn(sessions, states, k)
    BY <1>4, <1>5, TimesFrame
  <2>2. Meaning(k)' = Meaning(k)
    BY <1>5, HandlingMeans
  <2>3. LoginsTie(sessions', k) <=> LoginsTie(sessions, k)
    BY <1>4, <1>5 DEF OnlyKey, LoginsTie
  <2> QED
    BY <2>1, <2>2, <2>3
<1>6. ASSUME NEW q \in Partitions, q # p, TimesIncrease(q)', NEW k \in Keys, Owner[k] = q
      PROVE  KeyIsSettled(q, k)'
  <2>1. TimesIncrease(q)
    BY <1>2, <1>6 DEF TimesIncrease
  <2>2. KeyIsSettled(q, k)
    BY <1>6, <2>1 DEF RunsSettle
  <2>3. k # e.key
    BY <1>2, <1>6
  <2> QED
    BY <1>2, <1>5, <1>6, <2>2, <2>3 DEF KeyIsSettled
<1>7. ASSUME TimesIncrease(p)', NEW k \in Keys, Owner[k] = p
      PROVE  KeyIsSettled(p, k)'
  <2>1. TimesIncrease(p)
    BY <1>1, <1>7 DEF TimesIncrease, I
  <2>2. KeyIsSettled(p, k)
    BY <1>7, <2>1 DEF RunsSettle
  <2>3. /\ ~LoginsTie(sessions, k)
        /\ \A u \in TimesIn(sessions, states, k) :
             \E i \in I : log[p][i].key = k /\ log[p][i].at = u
        /\ \A i \in I : log[p][i].key = k => ~Counts(Meaning(k), log[p][i])
    BY <2>2 DEF KeyIsSettled, I
  <2>4. SUFFICES /\ ~LoginsTie(sessions', k)
                 /\ \A u \in TimesIn(sessions', states', k) :
                      \E i \in I \cup {n} : log'[p][i].key = k /\ log'[p][i].at = u
                 /\ \A i \in I \cup {n} :
                      log'[p][i].key = k => ~Counts(Meaning(k)', log'[p][i])
    BY <1>1 DEF KeyIsSettled
  <2>5. CASE k # e.key
    BY <1>1, <1>5, <2>3, <2>5
  <2>6. CASE k = e.key
    <3>1. \A i \in I : log[p][i].key = k => log[p][i].at < e.at /\ log[p][i].at \in Int
      <4>1. ASSUME NEW i \in I, log[p][i].key = k PROVE log[p][i].at < e.at
        <5>1. i \in I \cup {n} /\ n \in I \cup {n} /\ i < n
          BY <1>1
        <5>2. log'[p][i].key = log'[p][n].key
          BY <1>1, <2>6, <4>1
        <5>3. log'[p][i].at < log'[p][n].at
          BY <1>1, <1>7, <5>1, <5>2 DEF TimesIncrease
        <5> QED
          BY <1>1, <5>3
      <4> QED
        BY <1>1, <4>1, ServiceAssumption DEF Events
    <3>2. ~LoginsTie(sessions', k)
      <4>1. CASE sessions' = sessions
        BY <2>3, <4>1
      <4>2. CASE Accepts(sessions, states, sessions', states', e)
        <5>1. ASSUME NEW s \in sessions, s.key = k, s.loginAt = e.at PROVE FALSE
          <6>1. s.loginAt \in TimesIn(sessions, states, k)
            BY <5>1, TimesInAre
          <6>2. PICK i \in I : log[p][i].key = k /\ log[p][i].at = e.at
            BY <2>3, <5>1, <6>1
          <6> QED
            BY <3>1, <6>2
        <5> QED
          BY <2>3, <2>6, <4>2, <5>1, TiesAre DEF Inv, TablesOK
      <4> QED
        BY <1>4, <4>1, <4>2
    <3>3. ASSUME NEW u \in TimesIn(sessions', states', k)
          PROVE  \E i \in I \cup {n} : log'[p][i].key = k /\ log'[p][i].at = u
      <4>1. u = e.at \/ u \in TimesIn(sessions, states, k)
        <5>1. CASE sessions' = sessions /\ states' = states
          BY <3>3, <5>1
        <5>2. CASE Accepts(sessions, states, sessions', states', e)
          <6>1. Grows(sessions, states, sessions', states', k, e.eventID, e.at)
            BY <2>6, <5>2, AcceptsGrows
          <6> QED
            BY <3>3, <6>1, GrowthTime DEF Inv, TablesOK
        <5> QED
          BY <1>4, <5>1, <5>2
      <4>2. CASE u = e.at
        BY <1>1, <2>6, <4>2
      <4>3. CASE u \in TimesIn(sessions, states, k)
        BY <1>1, <2>3, <4>3
      <4> QED
        BY <4>1, <4>2, <4>3
    <3>4. Meaning(k)' = After(Meaning(k), e)
      BY <2>6, HandlingMeans
    <3>5. /\ ~Counts(After(Meaning(k), e), e)
          /\ \A i \in I : log[p][i].key = k => ~Counts(After(Meaning(k), e), log[p][i])
      BY <1>2, <2>3, <3>1, CountsOnce
    <3> QED
      BY <1>1, <3>2, <3>3, <3>4, <3>5
  <2> QED
    BY <2>5, <2>6
<1>8. ASSUME NEW q \in Partitions, TimesIncrease(q)', NEW k \in Keys, Owner[k] = q
      PROVE  KeyIsSettled(q, k)'
  BY <1>6, <1>7, <1>8
<1> QED
  BY <1>8 DEF RunsSettle

LEMMA EmptyRunSettles ==
  ASSUME NEW p, NEW k, done[p] = base[p], base[p] \in Int, sessions = {}, states = {}
  PROVE  KeyIsSettled(p, k)
<1>1. (base[p] + 1)..done[p] = {}
  OBVIOUS
<1>2. ~LoginsTie(sessions, k)
  BY DEF LoginsTie, SessionsOf
<1>3. TimesIn(sessions, states, k) = {}
  BY TimesInAre
<1> QED
  BY <1>1, <1>2, <1>3 DEF KeyIsSettled

LEMMA RunsSettleAlways == Spec => []RunsSettle
<1>1. Init => RunsSettle
  <2> SUFFICES ASSUME Init PROVE RunsSettle
    OBVIOUS
  <2>1. ASSUME NEW p \in Partitions, NEW k \in Keys PROVE KeyIsSettled(p, k)
    <3>1. done[p] = 0 /\ base[p] = 0 /\ sessions = {} /\ states = {}
      BY DEF Init
    <3> QED
      BY <3>1, EmptyRunSettles
  <2> QED
    BY <2>1 DEF RunsSettle
<1>2. Inv /\ RunsSettle /\ [Next]_vars => RunsSettle'
  <2> SUFFICES ASSUME Inv, RunsSettle, [Next]_vars PROVE RunsSettle'
    OBVIOUS
  <2>1. ASSUME NEW p \in Partitions, HandleNew(p) \/ HandleAgain(p) PROVE RunsSettle'
    BY <2>1, HandlingIs, HandlingSettles DEF Inv
  <2>2. ASSUME UNCHANGED <<log, base, done, sessions, states>> PROVE RunsSettle'
    <3>1. \A k : Meaning(k)' = Meaning(k)
      BY <2>2 DEF Meaning
    <3>2. \A q \in Partitions : TimesIncrease(q)' <=> TimesIncrease(q)
      BY <2>2 DEF TimesIncrease
    <3>3. \A q \in Partitions, k \in Keys : KeyIsSettled(q, k)' <=> KeyIsSettled(q, k)
      BY <2>2, <3>1 DEF KeyIsSettled
    <3> QED
      BY <3>2, <3>3 DEF RunsSettle
  <2>3. CASE CommitBatch
    BY <2>2, <2>3 DEF CommitBatch
  <2>4. CASE Restart
    <3>1. ASSUME NEW p \in Partitions, NEW k \in Keys PROVE KeyIsSettled(p, k)'
      <4>1. /\ done'[p] = committed[p] /\ base'[p] = committed[p] /\ committed[p] \in Int
            /\ sessions' = {} /\ states' = {}
        BY <2>4 DEF Restart, Inv, OffsetsOK
      <4>2. (base'[p] + 1)..done'[p] = {}
        BY <4>1
      <4>3. ~LoginsTie(sessions', k)
        BY <4>1 DEF LoginsTie, SessionsOf
      <4>4. TimesIn(sessions', states', k) = {}
        BY <4>1, TimesInAre
      <4> QED
        BY <4>2, <4>3, <4>4 DEF KeyIsSettled
    <3> QED
      BY <3>1 DEF RunsSettle
  <2>5. CASE UNCHANGED vars
    BY <2>2, <2>5 DEF vars
  <2> QED
    BY <2>1, <2>3, <2>4, <2>5 DEF Next
<1> QED
  BY <1>1, <1>2, PipelineInvariant, PTL DEF Spec

(* The tables after the places from m to n of a log have been repeated.    *)
IsReplay(h, S, T, events, m, n, newID) ==
  h = [i \in (m - 1)..n |->
         IF i < m THEN [sessions |-> S, states |-> T]
         ELSE ApplyEvent(h[i - 1].sessions, h[i - 1].states, events[i], newID)]

Replay(S, T, events, m, n, newID) == CHOOSE h : IsReplay(h, S, T, events, m, n, newID)

LEMMA HandledAgainIs ==
  ASSUME NEW p, NEW m, NEW n, NEW newID
  PROVE  HandledAgain(p, m, n, newID)
           = LET h == Replay(sessions, states, log[p], m, n, newID)
             IN  <<h[n].sessions, h[n].states>>
BY DEF HandledAgain, Replay, IsReplay

HasReplay(S, T, events, m, n, newID) == \E h : IsReplay(h, S, T, events, m, n, newID)

LEMMA ReplayChangesNothing ==
  ASSUME NEW S, NEW T, NEW events, NEW m \in Int, NEW n \in Int, m <= n, NEW newID,
         \A i \in m..n : LET o == ApplyEvent(S, T, events[i], newID)
                         IN  o.sessions = S /\ o.states = T
  PROVE  LET h == Replay(S, T, events, m, n, newID) IN h[n].sessions = S /\ h[n].states = T
<1> DEFINE g == [i \in (m - 1)..n |-> IF i < m THEN [sessions |-> S, states |-> T]
                                     ELSE ApplyEvent(S, T, events[i], newID)]
<1>1. \A i \in (m - 1)..n : g[i].sessions = S /\ g[i].states = T
  <2> TAKE i \in (m - 1)..n
  <2>1. CASE i < m
    BY <2>1
  <2>2. CASE ~(i < m)
    <3>1. i \in m..n /\ g[i] = ApplyEvent(S, T, events[i], newID)
      BY <2>2
    <3> QED
      BY <3>1
  <2> QED
    BY <2>1, <2>2
<1>2. IsReplay(g, S, T, events, m, n, newID)
  <2>1. ASSUME NEW i \in (m - 1)..n, ~(i < m)
        PROVE  ApplyEvent(S, T, events[i], newID)
                 = ApplyEvent(g[i - 1].sessions, g[i - 1].states, events[i], newID)
    <3>1. i - 1 \in (m - 1)..n
      BY <2>1
    <3>2. g[i - 1].sessions = S /\ g[i - 1].states = T
      BY <1>1, <3>1
    <3> HIDE DEF g
    <3> QED
      BY <3>2
  <2> DEFINE f == [i \in (m - 1)..n |->
                     IF i < m THEN [sessions |-> S, states |-> T]
                     ELSE ApplyEvent(g[i - 1].sessions, g[i - 1].states, events[i], newID)]
  <2>2. g = f
    BY <2>1
  <2> HIDE DEF g
  <2> QED
    BY <2>2 DEF IsReplay
<1> HIDE DEF g
<1>3. HasReplay(S, T, events, m, n, newID)
  BY <1>2 DEF HasReplay
<1> DEFINE h == Replay(S, T, events, m, n, newID)
<1>4. IsReplay(h, S, T, events, m, n, newID)
  BY <1>3 DEF HasReplay, Replay
<1> HIDE DEF h
<1>5. \A i \in (m - 1)..n :
        h[i] = IF i < m THEN [sessions |-> S, states |-> T]
               ELSE ApplyEvent(h[i - 1].sessions, h[i - 1].states, events[i], newID)
  BY <1>4 DEF IsReplay
<1> DEFINE X == {i \in (m - 1)..n : h[i].sessions = S /\ h[i].states = T}
<1>6. m - 1 \in X
  <2>1. m - 1 \in (m - 1)..n /\ m - 1 < m
    OBVIOUS
  <2>2. h[m - 1] = [sessions |-> S, states |-> T]
    BY <1>5, <2>1
  <2> QED
    BY <2>1, <2>2
<1>7. ASSUME NEW i \in (m - 1)..n, i \in X, i < n PROVE i + 1 \in X
  <2>1. i + 1 \in (m - 1)..n /\ ~(i + 1 < m) /\ (i + 1) - 1 = i /\ i + 1 \in m..n
    BY <1>7
  <2>2. h[i + 1] = ApplyEvent(h[(i + 1) - 1].sessions, h[(i + 1) - 1].states, events[i + 1], newID)
    BY <1>5, <2>1
  <2>3. h[i].sessions = S /\ h[i].states = T
    BY <1>7
  <2>4. h[i + 1] = ApplyEvent(S, T, events[i + 1], newID)
    BY <2>1, <2>2, <2>3
  <2>5. h[i + 1].sessions = S /\ h[i + 1].states = T
    BY <2>1, <2>4
  <2> QED
    BY <2>1, <2>5
<1> HIDE DEF X
<1>8. (m - 1)..n \subseteq X
  BY <1>6, <1>7, CountUp
<1>9. n \in (m - 1)..n
  OBVIOUS
<1> QED
  BY <1>8, <1>9 DEF X, h

(* Whatever stretch of the run's records a source hands over again, the    *)
(* tables stay as they are, if each key's events came in the order they    *)
(* happened.                                                               *)
THEOREM RepeatsAreHarmless == Spec => []RepeatsChangeNothing
<1>1. Inv /\ RunsSettle => RepeatsChangeNothing
  <2> SUFFICES ASSUME Inv, RunsSettle, NEW p \in Partitions, TimesIncrease(p),
                      NEW m \in (base[p] + 1)..done[p], NEW n \in (base[p] + 1)..done[p],
                      m <= n, NEW newID \in SessionIDs
               PROVE  HandledAgain(p, m, n, newID) = <<sessions, states>>
    BY DEF RepeatsChangeNothing
  <2>1. /\ base[p] \in Nat /\ done[p] \in Nat /\ done[p] <= Len(log[p])
        /\ log[p] \in Seq(Events)
        /\ \A i \in 1..Len(log[p]) : Owner[log[p][i].key] = p
    BY DEF Inv, OffsetsOK, LogOK
  <2>2. ASSUME NEW i \in m..n
        PROVE  LET o == ApplyEvent(sessions, states, log[p][i], newID)
               IN  o.sessions = sessions /\ o.states = states
    <3> DEFINE e == log[p][i]
               k == e.key
    <3>1. i \in (base[p] + 1)..done[p] /\ i \in 1..Len(log[p])
      BY <2>1
    <3>2. e \in Events /\ Owner[k] = p
      BY <2>1, <3>1
    <3>3. k \in Keys
      BY <3>2 DEF Events
    <3>4. KeyIsSettled(p, k)
      BY <3>2, <3>3 DEF RunsSettle
    <3>5. ~LoginsTie(sessions, k) /\ ~Counts(Meaning(k), e)
      BY <3>1, <3>4 DEF KeyIsSettled
    <3>6. Represents(sessions, states, k, Meaning(k)) /\ TablesOK(sessions, states)
      BY <3>3, <3>5 DEF Inv, RowsMean
    <3> QED
      BY <3>2, <3>5, <3>6, IdleChangesNothing
  <2>3. m \in Int /\ n \in Int
    BY <2>1
  <2>4. LET h == Replay(sessions, states, log[p], m, n, newID)
        IN  h[n].sessions = sessions /\ h[n].states = states
    BY <2>2, <2>3, ReplayChangesNothing
  <2> QED
    BY <2>4, HandledAgainIs
<1> QED
  BY <1>1, PipelineInvariant, RunsSettleAlways, PTL

-----------------------------------------------------------------------------
(********************* Replay from the start is safe ***********************)

(* An event e ties on a history M if it begins a session at the instant at *)
(* which an earlier one began.                                             *)
Ties(M, e) == e.type = "LOGIN" /\ Counts(M, e) /\ \E x \in M.ended : x.login = e.at

(* A process that knows the history accepts e.                             *)
Answered(M, e) == Counts(M, e) \/ e.eventID = M.lastID

(* The record at place i ties, in a run from place a on; none before it.   *)
TieIn(events, k, a, i) ==
  events[i].key = k /\ Ties(MeaningOf(events, k, a, i - 1), events[i])

Untied(events, k, a, i) == \A j \in (a + 1)..(i - 1) : ~TieIn(events, k, a, j)

TiesKnown ==
  \A k \in Keys : LET p == Owner[k] IN
    LoginsTie(sessions, k) <=>
      \E j \in (base[p] + 1)..done[p] : TieIn(log[p], k, base[p], j)

(* What A and R, the places ever accepted and refused, say of a place i    *)
(* whose key had no ties before.                                           *)
AnsweredAlike(events, p, i, A, R) ==
  LET e == events[i]
      M == MeaningOf(events, e.key, 0, i - 1)
  IN
  Untied(events, e.key, 0, i) =>
    /\ <<p, i>> \in A => Answered(M, e)
    /\ <<p, i>> \in R => ~Answered(M, e)

(* The offset of a run's first record never goes back, so where it is 0    *)
(* every earlier run began there too.                                      *)
AnswersKnown ==
  \A p \in Partitions :
    /\ \A i : <<p, i>> \in accepted \cup refused => i \in 1..Len(log[p])
    /\ base[p] = 0 => \A i \in 1..Len(log[p]) : AnsweredAlike(log[p], p, i, accepted, refused)

LEMMA TieFrame ==
  ASSUME NEW events, NEW others, NEW k, NEW a \in Int, NEW i \in Int, a < i,
         \A n \in (a + 1)..i : events[n] = others[n]
  PROVE  TieIn(others, k, a, i) <=> TieIn(events, k, a, i)
<1>1. \A n \in a..(i - 1) : n # a => events[n] = others[n]
  OBVIOUS
<1>2. MeaningOf(others, k, a, i - 1) = MeaningOf(events, k, a, i - 1)
  BY <1>1, MeaningFrame
<1>3. events[i] = others[i]
  OBVIOUS
<1> QED
  BY <1>2, <1>3 DEF TieIn

LEMMA AnsweredFrame ==
  ASSUME NEW events, NEW others, NEW i \in Nat, i # 0,
         \A n \in 1..i : events[n] = others[n]
  PROVE  LET k == events[i].key IN
         /\ events[i] = others[i]
         /\ Untied(others, k, 0, i) <=> Untied(events, k, 0, i)
         /\ MeaningOf(others, k, 0, i - 1) = MeaningOf(events, k, 0, i - 1)
<1> DEFINE k == events[i].key
<1>1. events[i] = others[i]
  OBVIOUS
<1> HIDE DEF k
<1>2. ASSUME NEW j \in (0 + 1)..(i - 1)
      PROVE  TieIn(others, k, 0, j) <=> TieIn(events, k, 0, j)
  <2>1. j \in Int /\ 0 < j /\ \A n \in (0 + 1)..j : events[n] = others[n]
    BY <1>2
  <2> QED
    BY <2>1, TieFrame
<1>3. \A n \in 0..(i - 1) : n # 0 => events[n] = others[n]
  OBVIOUS
<1>4. MeaningOf(others, k, 0, i - 1) = MeaningOf(events, k, 0, i - 1)
  BY <1>3, MeaningFrame
<1> QED
  BY <1>1, <1>2, <1>4 DEF Untied, k

(* Once a key has no open session, its logins are those of its history.    *)
LEMMA EndedLogins ==
  ASSUME NEW S, NEW T, NEW k, NEW M, Represents(S, T, k, M), M.open = NULL, NEW t
  PROVE  (\E s \in S : s.key = k /\ s.loginAt = t) <=> (\E x \in M.ended : x.login = t)
<1>1. \A s \in S : s.key = k => s.logoutAt # NULL
  BY DEF Represents, OpenIs
<1>2. M.ended = {StoredSession(T, s) : s \in EndedOf(S, k)}
  BY DEF Represents, EndedAre
<1>3. \A s : StoredSession(T, s).login = s.loginAt
  BY DEF StoredSession
<1>4. \A s : s \in EndedOf(S, k) <=> s \in S /\ s.key = k
  BY <1>1 DEF EndedOf, SessionsOf
<1> QED
  BY <1>2, <1>3, <1>4

LEMMA TiesWhenCounted ==
  ASSUME Inv, NEW p \in Partitions, NEW e, Handles(p, e)
  PROVE  LoginsTie(sessions', e.key) <=>
           LoginsTie(sessions, e.key) \/ Ties(Meaning(e.key), e)
<1> DEFINE k == e.key
           M == Meaning(k)
<1>1. k \in Keys /\ StoreOK(sessions, states)
  BY DEF Handles, Events, Inv, TablesOK
<1>2. PICK newID :
        /\ Deliverable(sessions, states, e, newID)
        /\ sessions' = ApplyEvent(sessions, states, e, newID).sessions
        /\ states' = ApplyEvent(sessions, states, e, newID).states
  BY HandlingApplies
<1>3. Accepts(sessions, states, sessions', states', e) \/ sessions' = sessions
  BY <1>2, DeliveryKeepsTables
<1>4. CASE LoginsTie(sessions, k)
  BY <1>1, <1>3, <1>4, TiesAre
<1>5. CASE ~LoginsTie(sessions, k)
  <2>1. Represents(sessions, states, k, M)
    BY <1>1, <1>5 DEF Inv, RowsMean
  <2> HIDE DEF M
  <2>2. /\ Counts(M, e) => Accepts(sessions, states, sessions', states', e)
        /\ ~Counts(M, e) => sessions' = sessions
    BY <1>2, <1>5, <2>1, DeliveryRepresents
  <2>3. CASE ~Counts(M, e)
    BY <1>5, <2>2, <2>3 DEF Ties, M
  <2>4. CASE Counts(M, e) /\ e.type # "LOGIN"
    BY <1>1, <1>5, <2>2, <2>4, TiesAre DEF Ties, M
  <2>5. CASE Counts(M, e) /\ e.type = "LOGIN"
    <3>1. M.open = NULL
      BY <2>5 DEF Counts
    <3>2. (\E s \in sessions : s.key = k /\ s.loginAt = e.at) <=> (\E x \in M.ended : x.login = e.at)
      BY <2>1, <3>1, EndedLogins
    <3>3. LoginsTie(sessions', k) <=> \E s \in sessions : s.key = k /\ s.loginAt = e.at
      BY <1>1, <1>5, <2>2, <2>5, TiesAre
    <3> QED
      BY <1>5, <2>5, <3>2, <3>3 DEF Ties, M
  <2> QED
    BY <2>3, <2>4, <2>5
<1> QED
  BY <1>4, <1>5

LEMMA HandlingKeepsTies ==
  ASSUME Inv, TiesKnown, NEW p \in Partitions, NEW e, Handles(p, e)
  PROVE  TiesKnown'
<1> DEFINE n == done[p] + 1
           b == base[p]
           I == (b + 1)..done[p]
<1>1. /\ (base'[p] + 1)..done'[p] = I \cup {n}
      /\ log'[p][n] = e
  BY HandledPlaces
<1>2. /\ base' = base /\ b \in Nat /\ done[p] \in Nat /\ b <= done[p]
      /\ \A q \in Partitions : q # p => done'[q] = done[q] /\ log'[q] = log[q]
      /\ Owner[e.key] = p
  BY HandlingKeepsOffsets DEF Handles
<1>3. \A i \in 1..done[p] : log'[p][i] = log[p][i]
  BY HandlingKeepsRecords
<1>4. \A k : k # e.key => (LoginsTie(sessions', k) <=> LoginsTie(sessions, k))
  <2>1. OnlyKey(sessions, states, sessions', states', e.key)
    BY HandlingApplies, DeliveryKeepsTables
  <2> QED
    BY <2>1 DEF OnlyKey, LoginsTie
<1>5. ASSUME NEW k \in Keys, Owner[k] # p
      PROVE  LET q == Owner[k] IN
             LoginsTie(sessions', k) <=>
               \E j \in (base'[q] + 1)..done'[q] : TieIn(log'[q], k, base'[q], j)
  <2>1. Owner[k] \in Partitions /\ k # e.key
    BY <1>2, <1>5, PipelineAssumption
  <2> QED
    BY <1>2, <1>4, <1>5, <2>1 DEF TiesKnown
<1>6. ASSUME NEW k \in Keys, Owner[k] = p
      PROVE  LoginsTie(sessions', k) <=>
               \E j \in (base'[p] + 1)..done'[p] : TieIn(log'[p], k, base'[p], j)
  <2>1. ASSUME NEW j \in I PROVE TieIn(log'[p], k, b, j) <=> TieIn(log[p], k, b, j)
    <3>1. j \in Int /\ b < j /\ \A i \in (b + 1)..j : log[p][i] = log'[p][i]
      BY <1>2, <1>3
    <3> QED
      BY <1>2, <3>1, TieFrame
  <2>2. LoginsTie(sessions, k) <=> \E j \in I : TieIn(log[p], k, b, j)
    BY <1>6 DEF TiesKnown
  <2>3. TieIn(log'[p], k, b, n) <=> k = e.key /\ Ties(Meaning(k), e)
    <3>1. \A i \in b..done[p] : i # b => log[p][i] = log'[p][i]
      BY <1>2, <1>3
    <3>2. MeaningOf(log'[p], k, b, done[p]) = MeaningOf(log[p], k, b, done[p])
      BY <1>2, <3>1, MeaningFrame
    <3>3. n - 1 = done[p]
      BY <1>2
    <3>4. Meaning(k) = MeaningOf(log[p], k, b, done[p])
      BY <1>6, MeaningIs
    <3> QED
      BY <1>1, <3>2, <3>3, <3>4 DEF TieIn
  <2> HIDE DEF n, I, b
  <2>4. LoginsTie(sessions', k) <=>
          LoginsTie(sessions, k) \/ (k = e.key /\ Ties(Meaning(k), e))
    BY <1>4, TiesWhenCounted
  <2> QED
    BY <1>1, <1>2, <2>1, <2>2, <2>3, <2>4 DEF b
<1> QED
  BY <1>5, <1>6 DEF TiesKnown

LEMMA HandlingKeepsAnswers ==
  ASSUME Inv, TiesKnown, AnswersKnown, NEW p \in Partitions, NEW e, Handles(p, e)
  PROVE  AnswersKnown'
<1> DEFINE n == done[p] + 1
           events == log'[p]
           k == e.key
<1>1. PICK newID :
        LET o     == ApplyEvent(sessions, states, e, newID)
            place == {<<p, n>>}
        IN
        /\ Deliverable(sessions, states, e, newID)
        /\ accepted' = IF o.err = "none" THEN accepted \cup place ELSE accepted
        /\ refused' = IF o.err = "none" THEN refused ELSE refused \cup place
  BY HandlingApplies
<1> DEFINE o == ApplyEvent(sessions, states, e, newID)
<1>2. /\ base' = base /\ done[p] \in Nat /\ n \in Nat /\ n # 0
      /\ \A q \in Partitions : q # p => log'[q] = log[q]
      /\ Owner[k] = p /\ k \in Keys
  BY HandlingKeepsOffsets DEF Handles, Events
<1>3. /\ events[n] = e /\ n \in 1..Len(events)
      /\ \A i \in 1..Len(log[p]) : i \in 1..Len(events) /\ events[i] = log[p][i]
      /\ \A i \in 1..Len(events) : i \in 1..Len(log[p]) \/ i = n
      /\ \A i \in 1..done[p] : events[i] = log[p][i]
  <2>1. Len(events) \in Nat /\ done[p] < Len(events)
    BY DEF Handles, LogOK
  <2>2. n \in 1..Len(events)
    BY <1>2, <2>1
  <2> QED
    BY <2>2, HandlingKeepsRecords DEF Handles
<1>4. /\ \A i, q : q # p \/ i # n => (<<q, i>> \in accepted' <=> <<q, i>> \in accepted)
      /\ \A i, q : q # p \/ i # n => (<<q, i>> \in refused' <=> <<q, i>> \in refused)
      /\ <<p, n>> \in accepted' => <<p, n>> \in accepted \/ o.err = "none"
      /\ <<p, n>> \in refused' => <<p, n>> \in refused \/ o.err # "none"
  BY <1>1
<1> HIDE DEF n, events, o, k
<1>5. ASSUME NEW q \in Partitions, NEW i, <<q, i>> \in accepted' \cup refused'
      PROVE  i \in 1..Len(log'[q])
  <2>1. q # p \/ i # n => i \in 1..Len(log[q])
    BY <1>4, <1>5 DEF AnswersKnown
  <2> QED
    BY <1>2, <1>3, <2>1 DEF events
<1>6. ASSUME NEW q \in Partitions, q # p, base'[q] = 0, NEW i \in 1..Len(log'[q])
      PROVE  AnsweredAlike(log'[q], q, i, accepted', refused')
  <2>1. AnsweredAlike(log[q], q, i, accepted, refused)
    BY <1>2, <1>6 DEF AnswersKnown
  <2> QED
    BY <1>2, <1>4, <1>6, <2>1 DEF AnsweredAlike
<1>7. ASSUME base[p] = 0, NEW i \in 1..Len(log[p])
      PROVE  AnsweredAlike(events, p, i, accepted, refused)
  <2>1. AnsweredAlike(log[p], p, i, accepted, refused)
    BY <1>7 DEF AnswersKnown
  <2>2. i \in Nat /\ i # 0 /\ \A j \in 1..i : log[p][j] = events[j]
    <3>1. Len(log[p]) \in Nat
      BY DEF Inv, LogOK
    <3>2. \A j \in 1..i : j \in 1..Len(log[p])
      BY <1>7, <3>1
    <3> QED
      BY <1>3, <1>7, <3>1, <3>2
  <2>3. LET kk == log[p][i].key IN
        /\ log[p][i] = events[i]
        /\ Untied(events, kk, 0, i) <=> Untied(log[p], kk, 0, i)
        /\ MeaningOf(events, kk, 0, i - 1) = MeaningOf(log[p], kk, 0, i - 1)
    BY <2>2, AnsweredFrame
  <2> QED
    BY <2>1, <2>3 DEF AnsweredAlike
<1>8. ASSUME base[p] = 0, Untied(events, k, 0, n)
      PROVE  LET M == MeaningOf(events, k, 0, n - 1) IN
             /\ <<p, n>> \in accepted' => Answered(M, e)
             /\ <<p, n>> \in refused' => ~Answered(M, e)
  <2> DEFINE M == MeaningOf(events, k, 0, n - 1)
  <2>1. n - 1 = done[p]
    BY <1>2 DEF n
  <2>2. \A i \in 0..done[p] : i # 0 => log[p][i] = events[i]
    BY <1>2, <1>3
  <2>3. M = MeaningOf(log[p], k, 0, done[p])
    BY <1>2, <2>1, <2>2, MeaningFrame
  <2>4. M = Meaning(k)
    BY <1>2, <1>8, <2>3, MeaningIs
  <2>5. ~LoginsTie(sessions, k)
    <3>1. ASSUME NEW j \in (0 + 1)..done[p] PROVE ~TieIn(log[p], k, 0, j)
      <4>1. j \in Int /\ 0 < j /\ \A i \in (0 + 1)..j : log[p][i] = events[i]
        BY <1>2, <1>3
      <4>2. TieIn(events, k, 0, j) <=> TieIn(log[p], k, 0, j)
        BY <4>1, TieFrame
      <4> QED
        BY <1>8, <2>1, <4>2 DEF Untied
    <3> QED
      BY <1>2, <1>8, <3>1 DEF TiesKnown
  <2>6. Represents(sessions, states, k, M)
    BY <1>2, <2>4, <2>5 DEF Inv, RowsMean
  <2> HIDE DEF M
  <2>7. o.err = "none" <=> Answered(M, e)
    BY <1>1, <2>5, <2>6, DeliveryRepresents DEF Answered, o, k
  <2>8. /\ <<p, n>> \in accepted => Answered(M, e)
        /\ <<p, n>> \in refused => ~Answered(M, e)
    <3>1. <<p, n>> \in accepted \cup refused => n \in 1..Len(log[p])
      BY DEF AnswersKnown
    <3>2. n \in 1..Len(log[p]) => AnsweredAlike(events, p, n, accepted, refused)
      BY <1>7, <1>8
    <3> QED
      BY <1>3, <1>8, <3>1, <3>2 DEF AnsweredAlike, k, M
  <2> QED
    BY <1>4, <2>7, <2>8 DEF M
<1>9. ASSUME base'[p] = 0, NEW i \in 1..Len(events)
      PROVE  AnsweredAlike(events, p, i, accepted', refused')
  <2>1. CASE i = n
    BY <1>2, <1>3, <1>8, <1>9, <2>1 DEF AnsweredAlike, k
  <2>2. CASE i # n
    <3>1. i \in 1..Len(log[p])
      BY <1>3, <1>9, <2>2
    <3>2. AnsweredAlike(events, p, i, accepted, refused)
      BY <1>2, <1>7, <1>9, <3>1
    <3> QED
      BY <1>4, <2>2, <3>2 DEF AnsweredAlike
  <2> QED
    BY <2>1, <2>2
<1> QED
  BY <1>5, <1>6, <1>9 DEF AnswersKnown, events

LEMMA AnswersAlways == Spec => [](TiesKnown /\ AnswersKnown)
<1>1. Init => TiesKnown /\ AnswersKnown
  <2> SUFFICES ASSUME Init PROVE TiesKnown /\ AnswersKnown
    OBVIOUS
  <2>1. ASSUME NEW k \in Keys
        PROVE  LET p == Owner[k] IN
               LoginsTie(sessions, k) <=>
                 \E j \in (base[p] + 1)..done[p] : TieIn(log[p], k, base[p], j)
    <3>1. Owner[k] \in Partitions
      BY PipelineAssumption
    <3>2. base[Owner[k]] = 0 /\ done[Owner[k]] = 0 /\ sessions = {}
      BY <3>1 DEF Init
    <3>3. ~LoginsTie(sessions, k)
      BY <3>2 DEF LoginsTie, SessionsOf
    <3> QED
      BY <3>2, <3>3
  <2>2. AnswersKnown
    <3>1. accepted \cup refused = {} /\ \A p \in Partitions : 1..Len(log[p]) = {}
      BY DEF Init
    <3> QED
      BY <3>1 DEF AnswersKnown
  <2> QED
    BY <2>1, <2>2 DEF TiesKnown
<1>2. Inv /\ TiesKnown /\ AnswersKnown /\ [Next]_vars => (TiesKnown /\ AnswersKnown)'
  <2> SUFFICES ASSUME Inv, TiesKnown, AnswersKnown, [Next]_vars
               PROVE  TiesKnown' /\ AnswersKnown'
    OBVIOUS
  <2>1. ASSUME NEW p \in Partitions, HandleNew(p) \/ HandleAgain(p)
        PROVE  TiesKnown' /\ AnswersKnown'
    <3>1. PICK e : Handles(p, e)
      BY <2>1, HandlingIs DEF Inv
    <3> QED
      BY <3>1, HandlingKeepsTies, HandlingKeepsAnswers
  <2>2. ASSUME UNCHANGED <<log, base, done, sessions, accepted, refused>>
        PROVE  TiesKnown' /\ AnswersKnown'
    BY <2>2 DEF TiesKnown, AnswersKnown
  <2>3. CASE CommitBatch
    BY <2>2, <2>3 DEF CommitBatch
  <2>4. CASE Restart
    <3>1. /\ sessions' = {} /\ base' = committed /\ done' = committed
          /\ UNCHANGED <<log, committed, accepted, refused>>
      BY <2>4 DEF Restart
    <3>2. \A p \in Partitions :
            committed[p] \in Nat /\ base[p] \in Nat /\ base[p] <= committed[p]
      BY DEF Inv, OffsetsOK
    <3>3. TiesKnown'
      <4>1. ASSUME NEW k \in Keys
            PROVE  LET p == Owner[k] IN
                   LoginsTie(sessions', k) <=>
                     \E j \in (base'[p] + 1)..done'[p] : TieIn(log'[p], k, base'[p], j)
        <5>1. Owner[k] \in Partitions
          BY PipelineAssumption
        <5>2. (base'[Owner[k]] + 1)..done'[Owner[k]] = {}
          BY <3>1, <3>2, <5>1
        <5>3. ~LoginsTie(sessions', k)
          BY <3>1 DEF LoginsTie, SessionsOf
        <5> QED
          BY <5>2, <5>3
      <4> QED
        BY <4>1 DEF TiesKnown
    <3>4. \A p \in Partitions : base'[p] = 0 => base[p] = 0
      BY <3>1, <3>2
    <3>5. AnswersKnown'
      BY <3>1, <3>4 DEF AnswersKnown
    <3> QED
      BY <3>3, <3>5
  <2>5. CASE UNCHANGED vars
    BY <2>2, <2>5 DEF vars
  <2> QED
    BY <2>1, <2>3, <2>4, <2>5 DEF Next
<1> QED
  BY <1>1, <1>2, PipelineInvariant, PTL DEF Spec

(* Redelivery from the first record on rebuilds what was lost: no record   *)
(* handled by now is accepted by one process and dead-lettered by another. *)
THEOREM ReplayIsSafe == Spec => []ReplayFromTheStartIsSafe
<1>1. Inv /\ TiesKnown /\ AnswersKnown => ReplayFromTheStartIsSafe
  <2> SUFFICES ASSUME Inv, TiesKnown, AnswersKnown, NEW p \in Partitions, base[p] = 0,
                      \A k \in Keys : Owner[k] = p => ~LoginsTie(sessions, k),
                      NEW i \in 1..done[p], <<p, i>> \in accepted, <<p, i>> \in refused
               PROVE  FALSE
    BY DEF ReplayFromTheStartIsSafe
  <2> DEFINE k == log[p][i].key
  <2>1. /\ done[p] \in Nat /\ done[p] <= Len(log[p]) /\ log[p] \in Seq(Events)
        /\ \A j \in 1..Len(log[p]) : Owner[log[p][j].key] = p
    BY DEF Inv, OffsetsOK, LogOK
  <2>2. i \in 1..Len(log[p])
    BY <2>1
  <2>3. k \in Keys /\ Owner[k] = p
    BY <2>1, <2>2 DEF Events
  <2>4. \A j \in 1..done[p] : ~TieIn(log[p], k, 0, j)
    BY <2>3 DEF TiesKnown
  <2>5. Untied(log[p], k, 0, i)
    <3>1. \A j \in (0 + 1)..(i - 1) : j \in 1..done[p]
      BY <2>1
    <3> QED
      BY <2>4, <3>1 DEF Untied
  <2>6. AnsweredAlike(log[p], p, i, accepted, refused)
    BY <2>2 DEF AnswersKnown
  <2> QED
    BY <2>5, <2>6 DEF AnsweredAlike
<1> QED
  BY <1>1, AnswersAlways, PipelineInvariant, PTL
=============================================================================
