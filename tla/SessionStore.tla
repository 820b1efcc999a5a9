---------------------------- MODULE SessionStore ----------------------------
(***************************************************************************)
(* The SQLite repository of internal/repository/sqlite: the two tables, the *)
(* two queries LoadCurrent makes, and the transaction ApplyMutation runs.   *)
(*                                                                         *)
(* A table is a set of row records; the tags table is the field `tags' of  *)
(* a state row.  SQLite and the database/sql driver are external: of them  *)
(* this module keeps the constraints of schema.sql, the row counts the     *)
(* code reads, and the rollback of a transaction that fails.               *)
(***************************************************************************)
EXTENDS SessionDomain

CONSTANTS
  Keys,                \* canonical session keys
  EventIDs,
  TagSets,             \* sets of tags
  SessionIDs,          \* integers standing for random UUIDs, ordered like them
  MinNanos, MaxNanos   \* the timestamps an int64 can hold

SessionRow ==
  [id : SessionIDs, key : Keys, loginAt : Int, logoutAt : Int \cup {NULL},
   lastEventID : EventIDs]

StateRow ==
  [id : Nat, sessionID : SessionIDs, validFrom : Int, validTo : Int \cup {NULL},
   tags : TagSets \cup {{}}]

(* LoadCurrent makes an active session of a row without a logout only. *)
ActiveSession ==
  [id : SessionIDs, key : Keys, logoutAt : {NULL}, states : SUBSET StateRow]

Snapshot ==
  [lastEventAt : Int \cup {NULL}, lastEventID : EventIDs \cup {NULL},
   active : ActiveSession \cup {NULL}]

ASSUME StoreAssumption ==
  /\ SessionIDs \subseteq Int
  /\ NULL \notin Int /\ NULL \notin EventIDs /\ NULL \notin ActiveSession
  /\ MinNanos \in Int /\ MaxNanos \in Int /\ MinNanos <= MaxNanos

Representable(t) == MinNanos <= t /\ t <= MaxNanos

(* time.Time.UnixNano wraps around outside the years 1678 to 2262. *)
ToNanos(t) ==
  IF Representable(t) THEN t
  ELSE MinNanos + ((t - MinNanos) % (MaxNanos - MinNanos + 1))

Latest(T) == CHOOSE t \in T : \A u \in T : u <= t

SessionsOf(sessions, key) == {s \in sessions : s.key = key}
StatesOf(states, sid)     == {s \in states : s.sessionID = sid}
NonNull(T)                == T \ {NULL}

(*************************** LoadCurrent's queries *************************)

(* ORDER BY login_at_ns, id: session ids are random, so among sessions     *)
(* that logged in at one instant the last row is an arbitrary one.         *)
IsLastSession(s, S) ==
  /\ s \in S
  /\ \A r \in S : \/ r.loginAt < s.loginAt
                  \/ r.loginAt = s.loginAt /\ r.id <= s.id

LastSession(S) == CHOOSE s \in S : IsLastSession(s, S)

(* Slip: the history query leaves out the logout times. *)
LoginTimes(S) == {s.loginAt : s \in S}

SessionTimes(S) == {s.loginAt : s \in S} \cup NonNull({s.logoutAt : s \in S})
StateTimes(S)   == {s.validFrom : s \in S} \cup NonNull({s.validTo : s \in S})

EmptySnapshot == [lastEventAt |-> NULL, lastEventID |-> NULL, active |-> NULL]

Active(row) == [id |-> row.id, key |-> row.key, logoutAt |-> NULL, states |-> {}]

(* The first query reads the key's whole history.  A result is a snapshot  *)
(* and the error that makes LoadCurrent return without one.                *)
LoadHistory(sessions, key) ==
  LET rows   == SessionsOf(sessions, key)
      active == {s \in rows : s.logoutAt = NULL}
  IN  IF rows = {}
        THEN [err |-> "none", snapshot |-> EmptySnapshot]
      ELSE IF \E r, s \in active : r # s
        THEN [err |-> "ErrInvalidInput", snapshot |-> EmptySnapshot]
      ELSE [err |-> "none",
            snapshot |->
              [lastEventAt |-> Latest(SessionTimes(rows)),
               lastEventID |-> LastSession(rows).lastEventID,
               active      |-> IF active = {} THEN NULL
                               ELSE Active(CHOOSE s \in active : TRUE)]]

(* Slip: the boundaries of the states are not taken into account. *)
LoadActiveStatesOnly(states, snapshot) ==
  LET rows == StatesOf(states, snapshot.active.id) IN
  [err |-> "none", snapshot |-> [snapshot EXCEPT !.active.states = rows]]

(* The second query, made only when there is an active session, reads its  *)
(* states; the latest of their boundaries may move LastEventAt forward.    *)
LoadActiveStates(states, snapshot) ==
  LET rows == StatesOf(states, snapshot.active.id)
  IN  IF rows = {} \/ LastState(rows).validTo # NULL
        THEN [err |-> "ErrInvalidInput", snapshot |-> EmptySnapshot]
      ELSE [err |-> "none",
            snapshot |->
              [lastEventAt |-> Latest({snapshot.lastEventAt} \cup StateTimes(rows)),
               lastEventID |-> snapshot.lastEventID,
               active      |-> [snapshot.active EXCEPT !.states = rows]]]

(* A load that has succeeded. *)
Loaded(snapshot) == [err |-> "none", snapshot |-> snapshot]

(* LoadCurrent with nothing happening between its two queries. *)
LoadCurrent(sessions, states, key) ==
  LET loaded == LoadHistory(sessions, key) IN
  IF loaded.err = "none" /\ loaded.snapshot.active # NULL
    THEN LoadActiveStates(states, loaded.snapshot)
    ELSE loaded

(************************** ApplyMutation's writes *************************)
(* db is the transaction: the tables it sees and the first error.  A       *)
(* violated constraint fails the statement with a driver error, which is   *)
(* not a domain error; a wrong row count is an ErrInvalidInput.            *)

Fail(db, err) == [db EXCEPT !.err = err]

ExactlyOne(rows) == \E r \in rows : rows = {r}

(* INTEGER PRIMARY KEY: one more than the largest row id. *)
NextRowID(states) ==
  IF states = {} THEN 1 ELSE 1 + Latest({s.id : s \in states})

(* Slip: two parameters of the INSERT are swapped. *)
NewSessionSwapped(key, m) ==
  [id |-> m.sessionID, key |-> key, loginAt |-> ToNanos(m.at),
   logoutAt |-> NULL, lastEventID |-> m.sessionID]

NewSession(key, m) ==
  [id |-> m.sessionID, key |-> key, loginAt |-> ToNanos(m.at),
   logoutAt |-> NULL, lastEventID |-> m.eventID]

NewState(states, m) ==
  [id |-> NextRowID(states), sessionID |-> m.sessionID,
   validFrom |-> ToNanos(m.at), validTo |-> NULL, tags |-> m.tags]

InsertSession(db, key, m) ==
  IF \E s \in db.sessions : \/ s.id = m.sessionID
                            \/ s.key = key /\ s.logoutAt = NULL
    THEN Fail(db, "constraint")
  ELSE [db EXCEPT !.sessions = @ \cup {NewSession(key, m)}]

InsertState(db, m) ==
  IF db.err # "none" THEN db
  ELSE IF \/ \A s \in db.sessions : s.id # m.sessionID
          \/ \E s \in StatesOf(db.states, m.sessionID) : s.validTo = NULL
    THEN Fail(db, "constraint")
  ELSE [db EXCEPT !.states = @ \cup {NewState(db.states, m)}]

(* Slip: the open state is deleted, not closed. *)
DeleteCurrentState(db, m) ==
  LET open == {s \in StatesOf(db.states, m.sessionID) : s.validTo = NULL} IN
  IF ~ExactlyOne(open) THEN Fail(db, "ErrInvalidInput")
  ELSE [db EXCEPT !.states = @ \ open]

(* Slip: the UPDATE is not restricted to the session. *)
CloseEveryState(db, m) ==
  LET open == {s \in db.states : s.validTo = NULL} IN
  IF ~ExactlyOne(open) THEN Fail(db, "ErrInvalidInput")
  ELSE [db EXCEPT !.states = (@ \ open) \cup
          {[s EXCEPT !.validTo = ToNanos(m.at)] : s \in open}]

CloseCurrentState(db, m) ==
  LET open == {s \in StatesOf(db.states, m.sessionID) : s.validTo = NULL}
  IN  IF \E s \in open : ToNanos(m.at) < s.validFrom
        THEN Fail(db, "constraint")
      ELSE IF ~ExactlyOne(open) THEN Fail(db, "ErrInvalidInput")
      ELSE [db EXCEPT !.states = (@ \ open) \cup
              {[s EXCEPT !.validTo = ToNanos(m.at)] : s \in open}]

UpdateSessionEventID(db, m) ==
  LET rows == {s \in db.sessions : s.id = m.sessionID}
  IN  IF db.err # "none" THEN db
      ELSE IF ~ExactlyOne(rows) THEN Fail(db, "ErrInvalidInput")
      ELSE [db EXCEPT !.sessions = (@ \ rows) \cup
              {[s EXCEPT !.lastEventID = m.eventID] : s \in rows}]

CloseSession(db, m) ==
  LET rows == {s \in db.sessions : s.id = m.sessionID /\ s.logoutAt = NULL}
  IN  IF db.err # "none" THEN db
      ELSE IF \E s \in rows : ToNanos(m.at) < s.loginAt
        THEN Fail(db, "constraint")
      ELSE IF ~ExactlyOne(rows) THEN Fail(db, "ErrInvalidInput")
      ELSE [db EXCEPT !.sessions = (@ \ rows) \cup
              {[s EXCEPT !.logoutAt = ToNanos(m.at),
                         !.lastEventID = m.eventID] : s \in rows}]

PersistStart(db, key, m) == InsertState(InsertSession(db, key, m), m)

(* Slip: an update does not touch the session. *)
PersistReplaceOnly(db, m) == InsertState(CloseCurrentState(db, m), m)

PersistReplace(db, m) ==
  UpdateSessionEventID(InsertState(CloseCurrentState(db, m), m), m)

(* Slips: a logout leaves the last state open, or the session. *)
PersistEndOfSession(db, m) == CloseSession(db, m)
PersistEndOfState(db, m)   == CloseCurrentState(db, m)

PersistEnd(db, m) == CloseSession(CloseCurrentState(db, m), m)

PersistMutation(db, key, m) ==
  CASE m.kind = "start_session"   -> PersistStart(db, key, m)
    [] m.kind = "replace_state"   -> PersistReplace(db, m)
    [] m.kind = "end_session"     -> PersistEnd(db, m)
    [] m.kind = "duplicate_event" -> db

(* A transaction that fails leaves the tables as it found them. *)
ApplyMutation(sessions, states, key, m) ==
  LET before == [err |-> "none", sessions |-> sessions, states |-> states]
      after  == PersistMutation(before, key, m)
  IN  IF after.err = "none" THEN after ELSE Fail(before, after.err)
-----------------------------------------------------------------------------
(********************* What the tables always satisfy **********************)

HasLatest(T) == \E t \in T : \A u \in T : u <= t

(* The unique indexes, and at most one open session of a key.              *)
RowsAreUnique(S, T) ==
  /\ \A r, s \in S : r.id = s.id => r = s
  /\ \A r, s \in S :
       r.key = s.key /\ r.logoutAt = NULL /\ s.logoutAt = NULL => r = s
  /\ \A r, q \in T : r.id = q.id => r = q

(* A state belongs to a session, and is open only if the session is; an    *)
(* open session has an open state.                                         *)
OpenRowsAgree(S, T) ==
  /\ \A r \in T : \E s \in S : /\ s.id = r.sessionID
                               /\ r.validTo = NULL => s.logoutAt = NULL
  /\ \A s \in S : s.logoutAt = NULL => \E r \in StatesOf(T, s.id) : r.validTo = NULL

(* The open state of a session comes after all its other states.           *)
OpenStateIsLast(T) ==
  \A r, q \in T :
    r.sessionID = q.sessionID /\ r.validTo = NULL /\ q # r =>
      /\ q.id < r.id
      /\ q.validTo # NULL
      /\ q.validFrom <= q.validTo /\ q.validTo <= r.validFrom

(* Every maximum the queries and the row ids are defined by exists.        *)
MaximaExist(S, T) ==
  /\ T # {} => HasLatest({r.id : r \in T})
  /\ \A s \in S : HasLatest(SessionTimes(SessionsOf(S, s.key)))
  /\ \A s \in S : \E l \in S : IsLastSession(l, SessionsOf(S, s.key))
  /\ \A s \in S : HasLatest(StateTimes(StatesOf(T, s.id)))

StoreOK(S, T) ==
  /\ S \subseteq SessionRow
  /\ T \subseteq StateRow
  /\ RowsAreUnique(S, T)
  /\ OpenRowsAgree(S, T)
  /\ OpenStateIsLast(T)
  /\ MaximaExist(S, T)

(* r ended before s began: lifecycles are half-open, so s may begin at the *)
(* instant r ended.                                                        *)
Precedes(r, s) == r.logoutAt # NULL /\ r.logoutAt <= s.loginAt

LoginsTie(S, key) ==
  \E r, s \in SessionsOf(S, key) : r # s /\ r.loginAt = s.loginAt

(* Nothing in the schema says this; it is up to who writes the rows.       *)
SessionsDisjoint(S) ==
  \A r, s \in S : r # s /\ r.key = s.key => Precedes(r, s) \/ Precedes(s, r)
=============================================================================
