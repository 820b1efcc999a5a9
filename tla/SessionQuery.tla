---------------------------- MODULE SessionQuery ----------------------------
(***************************************************************************)
(* Queries: a client reads the sessions that match its filters page by     *)
(* page, each page in a read transaction of its own, while events go on    *)
(* being applied.  What connects the pages is the cursor.                  *)
(*                                                                         *)
(* A request that QueryPreparation refuses is answered with an error and   *)
(* changes nothing, so only the others are steps.  Texts are integers      *)
(* that are ordered like them, in keys and tags as in filters.             *)
(***************************************************************************)
EXTENDS SessionService, QueryPreparation

CONSTANTS
  Storage,    \* the storage identifier, "sqlite"
  Queries,    \* the lists of filters a client may send
  Limits,     \* the page limits a client asks for
  MaxClock,   \* bound: the server's clock
  MaxRows     \* bound: rows of session_states

Optional(S) == S \cup {NULL}

SortKey == [tenant : Int, username : Int, ip : Int, loginAt : Int, id : SessionIDs]

PreparedQuery ==
  [filters : Seq(ResolvedFilter), limit : 1..MaxLimit, evaluatedAt : Int,
   after : SortKey \cup {Absent}]

Fingerprints ==
  {Fingerprint(Resolve(filters)) : filters \in {q \in Queries : Resolve(q) # Invalid}}

CursorPayload ==
  [storage : {Storage}, fingerprint : Fingerprints, evaluatedAt : 0..MaxClock, after : SortKey]

Cursors == [version : {CursorVersion}, payload : CursorPayload]

(* The zero time is that of the year 1.  A tag is what a filter that asks  *)
(* for it is normalised to: NormalizeTags and normalizeString keep texts.  *)
ASSUME QueryAssumption ==
  /\ RepresentableTimes /\ ~Representable(ZeroTime)
  /\ MaxClock \in Nat /\ \A at \in 0..MaxClock : Representable(at)
  /\ Keys \subseteq [tenant : Int, username : Int, ip : Int]
  /\ \A tags \in TagSets : \A tag \in tags \ {Blank} :
       tag \in DOMAIN Canonical.string /\ Canonical.string[tag] = tag
  /\ \A filters \in Queries :
       /\ filters \in Seq(Seqs!ToSet(filters))
       /\ \A i \in DOMAIN filters : IsJSON(filters[i].value)
  /\ Limits \subseteq Int
  /\ Storage # Absent /\ Absent \notin Fingerprints \cup Cursors \cup SortKey
  /\ Invalid \notin Seq(ResolvedFilter) \cup PreparedQuery \cup CursorPayload \cup Cursors

VARIABLES
  sessions, states,
  clock,     \* the server's clock, which stamps queries; events have their own
  query,     \* the client's filters, or NULL between scans
  cursor,    \* the cursor its last page came with, or Absent
  started,   \* history: when the scan's first page was evaluated
  returned,  \* history: sort keys of the sessions returned by this scan
  steady,    \* history: sessions that have matched ever since the first page
  matched,   \* history: sessions that matched when the scan began
  lateEvent  \* history: an event not after the evaluation time has come since

vars == <<sessions, states, clock, query, cursor, started, returned, steady, matched, lateEvent>>
scan == <<query, cursor, started, returned, steady, matched, lateEvent>>

NoScan ==
  /\ query = NULL /\ cursor = Absent
  /\ started = 0 /\ returned = <<>> /\ steady = {} /\ matched = {}
  /\ lateEvent = FALSE

Init == sessions = {} /\ states = {} /\ clock = 0 /\ NoScan
-----------------------------------------------------------------------------
(******************************* predicates ********************************)

Interval(r) == [from |-> r.validFrom, to |-> r.validTo]

(* session.Interval, the domain's half-open interval. *)
Contains(i, at) == i.from <= at /\ (i.to = NULL \/ at < i.to)

Overlaps(i, range) ==
  /\ i.to # NULL => i.from < i.to
  /\ range.from # Absent /\ range.to # Absent => range.from < range.to
  /\ i.to # NULL /\ range.from # Absent => range.from < i.to
  /\ range.to # Absent => i.from < range.to

(* Slip: the upper bound is included. *)
ActivityUpTo(r, at) ==
  r.validFrom <= ToNanos(at) /\ (r.validTo = NULL \/ ToNanos(at) <= r.validTo)

(* The SQL conditions on one row of session_states. *)
ActivityAt(r, at) ==
  r.validFrom <= ToNanos(at) /\ (r.validTo = NULL \/ ToNanos(at) < r.validTo)

ActivityOverlaps(r, range) ==
  /\ range.from # Absent => r.validTo = NULL \/ ToNanos(range.from) < r.validTo
  /\ range.to # Absent => r.validFrom < ToNanos(range.to)

LoginTimeMatches(at, operator, value) ==
  CASE operator = "eq"  -> at = ToNanos(value[1])
    [] operator = "gt"  -> at > ToNanos(value[1])
    [] operator = "gte" -> at >= ToNanos(value[1])
    [] operator = "lt"  -> at < ToNanos(value[1])
    [] operator = "lte" -> at <= ToNanos(value[1])
    [] operator = "between" ->
         /\ value[1] # Absent => at >= ToNanos(value[1])
         /\ value[2] # Absent => at < ToNanos(value[2])

Column(s, field) ==
  CASE field = "sessionId" -> s.id
    [] field = "tenantId"  -> s.key.tenant
    [] field = "username"  -> s.key.username
    [] field = "ip"        -> s.key.ip

(* The value of an "eq" has one part. *)
SessionPredicate(s, f) ==
  IF f.field = "loginTime" THEN LoginTimeMatches(s.loginAt, f.operator, f.value)
  ELSE Column(s, f.field) \in Seqs!ToSet(f.value)

(* containsAll counts the distinct tags found, and the tags asked for. *)
StatePredicate(r, f) ==
  LET found == r.tags \cap Seqs!ToSet(f.value) IN
  CASE f.operator = "containsAny" -> found # {}
    [] f.operator = "containsAll" -> Cardinality(found) = Len(f.value)
    [] f.operator = "at"          -> ActivityAt(r, f.value[1])
    [] f.operator = "overlaps"    ->
         ActivityOverlaps(r, [from |-> f.value[1], to |-> f.value[2]])

OfScope(filters, scope) == {f \in Seqs!ToSet(filters) : f.scope = scope}

(* One state of the session has to meet all conditions on states: without  *)
(* one on activity, it has to be current when the query is evaluated.      *)
Matches(s, T, filters, evaluatedAt) ==
  /\ \A f \in OfScope(filters, "session") : SessionPredicate(s, f)
  /\ \E r \in StatesOf(T, s.id) :
       /\ \A f \in OfScope(filters, "state") : StatePredicate(r, f)
       /\ \/ \E f \in OfScope(filters, "state") : f.field = "activity"
          \/ ActivityAt(r, evaluatedAt)
-----------------------------------------------------------------------------
(********************************* paging **********************************)

SortKeyFor(s) ==
  [tenant |-> s.key.tenant, username |-> s.key.username, ip |-> s.key.ip,
   loginAt |-> s.loginAt, id |-> s.id]

(* a comes before b by the first of the columns in which they differ. *)
Lexicographic(columns, a, b) ==
  \E i \in DOMAIN columns :
    /\ a[columns[i]] < b[columns[i]]
    /\ \A j \in 1..(i - 1) : a[columns[j]] = b[columns[j]]

(* The source states the order of a scan three times: in CompareSortKeys,  *)
(* which says what the order of the pages is, in the ORDER BY of the       *)
(* statement, and in the condition that continues after a key.             *)
ComparedColumns == <<"tenant", "username", "ip", "loginAt", "id">>

SortsBefore(a, b) == Lexicographic(ComparedColumns, a, b)

(* Slip: ORDER BY begins with another column. *)
UsernameFirst == <<"username", "tenant", "ip", "loginAt", "id">>

OrderColumns == <<"tenant", "username", "ip", "loginAt", "id">>

RowsBefore(s, r) == Lexicographic(OrderColumns, SortKeyFor(s), SortKeyFor(r))

(* Slips: the last row comes again; every column has to be greater. *)
KeysetFromRow(s, after) == ~SortsBefore(SortKeyFor(s), after)
KeysetByColumn(s, after) ==
  \A column \in {"tenant", "username"} : SortKeyFor(s)[column] > after[column]

KeysetColumns == <<"tenant", "username", "ip", "loginAt", "id">>

KeysetPredicate(s, after) ==
  Lexicographic(KeysetColumns, [after EXCEPT !.loginAt = ToNanos(@)], SortKeyFor(s))

(* One more than the limit is asked for, to learn whether there are more. *)
QueryIDs(prepared) ==
  LET found == {s \in sessions :
                  /\ Matches(s, states, prepared.filters, prepared.evaluatedAt)
                  /\ prepared.after # Absent => KeysetPredicate(s, prepared.after)}
      sorted == InOrder(found, RowsBefore)
      more   == Len(sorted) > prepared.limit
  IN  [rows |-> IF more THEN SubSeq(sorted, 1, prepared.limit) ELSE sorted, more |-> more]

(* Slip: the later row comes first. *)
LaterRowBefore(r, u) ==
  r.validFrom < u.validFrom \/ (r.validFrom = u.validFrom /\ r.id > u.id)

(* ORDER BY ss.valid_from_ns, ss.id *)
StateBefore(r, u) ==
  r.validFrom < u.validFrom \/ (r.validFrom = u.validFrom /\ r.id < u.id)

(* A found session with its history and the tags of each of its states. *)
LoadSession(s) ==
  [id |-> s.id, key |-> s.key, loginAt |-> s.loginAt, logoutAt |-> s.logoutAt,
   states |-> InOrder(StatesOf(states, s.id), StateBefore)]

NextCursor(prepared, values) ==
  EncodeCursor([storage |-> Storage, fingerprint |-> Fingerprint(prepared.filters),
                evaluatedAt |-> prepared.evaluatedAt,
                after |-> SortKeyFor(Seqs!Last(values))])

(* The result of Repository.query: a page of sessions and a cursor. *)
RunQuery(prepared) ==
  LET page   == QueryIDs(prepared)
      values == [i \in DOMAIN page.rows |-> LoadSession(page.rows[i])]
  IN  [sessions |-> values,
       cursor |-> IF page.more THEN NextCursor(prepared, values) ELSE Absent]

SortKeys(values) == [i \in DOMAIN values |-> SortKeyFor(values[i])]

MatchingIn(S, T, filters, at) == {s.id : s \in {r \in S : Matches(r, T, filters, at)}}
Matching(filters, at) == MatchingIn(sessions, states, filters, at)

(* Slip: every page is evaluated at its own time. *)
PreparedNow(filters, limit, from) ==
  LET prepared == Prepare(filters, limit, from, clock, Storage) IN
  IF prepared = Invalid THEN Invalid ELSE [prepared EXCEPT !.evaluatedAt = clock]

(* SessionService.Query stamps the request with its clock. *)
Prepared(filters, limit, from) == Prepare(filters, limit, from, clock, Storage)

(* A first page fixes the time at which the query is evaluated. *)
FirstPage(filters, limit) ==
  /\ query = NULL
  /\ \E prepared \in {Prepared(filters, limit, Absent)} \ {Invalid} :
       \E result \in {RunQuery(prepared)} :
         /\ returned' = SortKeys(result.sessions)
         /\ cursor' = result.cursor
         /\ matched' = Matching(prepared.filters, clock)
         /\ steady' = matched'
  /\ query' = filters
  /\ started' = clock
  /\ lateEvent' = FALSE
  /\ UNCHANGED <<sessions, states, clock>>

(* A later page may be of another size, and its filters in other words. *)
NextPage(filters, limit) ==
  /\ cursor # Absent
  /\ \E prepared \in {Prepared(filters, limit, cursor)} \ {Invalid} :
       \E result \in {RunQuery(prepared)} :
         /\ returned' = returned \o SortKeys(result.sessions)
         /\ cursor' = result.cursor
  /\ UNCHANGED <<sessions, states, clock, query, started, steady, matched, lateEvent>>

EndScan ==
  /\ query # NULL
  /\ query' = NULL /\ cursor' = Absent
  /\ started' = 0 /\ returned' = <<>> /\ steady' = {} /\ matched' = {}
  /\ lateEvent' = FALSE
  /\ UNCHANGED <<sessions, states, clock>>

(* An event is applied while the client holds a cursor or none. *)
Apply(e) ==
  /\ e.type = "LOGOUT" \/ Cardinality(states) < MaxRows
  /\ \E newID \in NewSessionIDs(sessions, e) :
       \E result \in {ApplyEvent(sessions, states, e, newID)} :
       /\ result.err = "none"
       /\ sessions' = result.sessions
       /\ states' = result.states
  /\ IF cursor = Absent THEN UNCHANGED <<steady, lateEvent>>
     ELSE /\ steady' = steady \cap MatchingIn(sessions', states', Resolve(query), started)
          /\ lateEvent' = (lateEvent \/ e.at <= started)
  /\ UNCHANGED <<clock, query, cursor, started, returned, matched>>

Tick ==
  /\ clock < MaxClock
  /\ clock' = clock + 1
  /\ UNCHANGED <<sessions, states, scan>>

Next ==
  \/ \E e \in Events : Apply(e)
  \/ \E filters \in Queries, limit \in Limits :
       FirstPage(filters, limit) \/ NextPage(filters, limit)
  \/ EndScan \/ Tick

Spec == Init /\ [][Next]_vars
-----------------------------------------------------------------------------
(*************************** What must be true *****************************)

ReturnedIDs == {returned[i].id : i \in DOMAIN returned}

(* The pages of a scan follow each other in the order of the sort key: no  *)
(* session is returned twice, whatever is written between the pages.       *)
PagesAscend ==
  \A i, j \in DOMAIN returned : i < j => SortsBefore(returned[i], returned[j])

(* A scan that has come to its end has returned every session that matched *)
(* from its first page to its last.                                        *)
NothingIsSkipped ==
  query # NULL /\ cursor = Absent => steady \subseteq ReturnedIDs

(* Of a query about the past, evaluated before any of the events that come *)
(* during the scan happened, the pages are those of one instant: the first *)
(* page's evaluation time travels in the cursor.                           *)
AboutThePast(filters, at) ==
  \A f \in Seqs!ToSet(filters) :
    /\ f.operator = "at" => f.value[1] <= at
    /\ f.operator = "overlaps" => f.value[2] # Absent /\ f.value[2] <= at

PagesAreASnapshot ==
  query # NULL /\ ~lateEvent /\ AboutThePast(Resolve(query), started) =>
    /\ ReturnedIDs \subseteq matched
    /\ cursor = Absent => matched \subseteq ReturnedIDs

(* A cursor continues its own query and no other: whatever filters it is   *)
(* accepted with match the same sessions at any time, and its own filters  *)
(* are accepted in any order.                                              *)
CursorsBindTheirQuery ==
  cursor # Absent =>
    /\ \A filters \in Queries :
         Prepared(filters, 0, cursor) # Invalid =>
           \A at \in 0..MaxClock :
             Matching(Resolve(filters), at) = Matching(Resolve(query), at)
    /\ Prepared(Seqs!Reverse(query), 0, cursor) # Invalid

TextFilter(field, operator, t) ==
  ResolveFilter([field |-> field, operator |-> operator,
                 value |-> [form |-> "text", text |-> t]])

ListFilter(field, operator, texts) ==
  ResolveFilter([field |-> field, operator |-> operator,
                 value |-> [form |-> "list",
                            items |-> [i \in DOMAIN texts |-> [form |-> "text", text |-> texts[i]]]]])

(* A session is found by each of its identifiers however it is spelled,    *)
(* and a repeated entry of a list asks for nothing more.  The keys and ids *)
(* of the rows come from the events, those of filters from the registry:   *)
(* both have to arrive at the same canonical form.                         *)
SpellingsDoNotMatter ==
  query = NULL =>   \* whatever the tables hold, EndScan leaves them to be looked at
    /\ \A s \in sessions, field \in {"sessionId", "tenantId", "username", "ip"} :
         LET spellings == Canonical[Registry[field].eq] IN
         \A t \in {u \in DOMAIN spellings : spellings[u] = Column(s, field)} :
           /\ SessionPredicate(s, TextFilter(field, "eq", t))
           /\ SessionPredicate(s, ListFilter(field, "in", <<t, t>>))
    /\ \A r \in states : \A tag \in r.tags :
         StatePredicate(r, ListFilter("tags", "containsAll", <<tag, tag>>))

(* A session is returned with its history in order: the first state begins *)
(* at the login, each ends where the next begins, the last with the        *)
(* session.  States of no duration share their beginning with the next,    *)
(* and only the row id keeps them apart.                                   *)
HistoriesReadInOrder ==
  \A s \in sessions :
    LET history == LoadSession(s).states IN
    /\ history # <<>> /\ history[1].validFrom = s.loginAt
    /\ \A i \in 1..(Len(history) - 1) : history[i].validTo = history[i + 1].validFrom
    /\ Seqs!Last(history).validTo = s.logoutAt

(* The SQL conditions agree with the domain's intervals on states that     *)
(* lasted for a time.                                                      *)
Lasting(r) == r.validTo # NULL => r.validFrom < r.validTo

Ranges ==
  {i \in [from : Times \cup {Absent}, to : Times \cup {Absent}] : ValidInterval(i.from, i.to)}

ActivityAgrees ==
  \A r \in states :
    /\ \A at \in Times : ActivityAt(r, at) = Contains(Interval(r), at)
    /\ Lasting(r) =>
         \A range \in Ranges : ActivityOverlaps(r, range) = Overlaps(Interval(r), range)

(* And on all others.                                                      *)
OverlapsAgree ==
  \A r \in states, range \in Ranges :
    ActivityOverlaps(r, range) = Overlaps(Interval(r), range)
=============================================================================
