--------------------------- MODULE SessionDomain ---------------------------
(***************************************************************************)
(* The pure decision functions of internal/session: given the snapshot of  *)
(* one session key and an event, the mutation to persist or the domain     *)
(* error that rejects the event.                                           *)
(*                                                                         *)
(* A timestamp is an integer.  A tag slice is the set of its tags, because *)
(* NormalizeTags drops order and repetition; a tag that is empty after     *)
(* trimming is the value Blank.  A stored state is the row of the table,   *)
(* and the slice Active.States, which the repository sorts by ValidFrom    *)
(* and row id, is the set of those rows.                                   *)
(***************************************************************************)
EXTENDS Integers

CONSTANTS NULL,   \* a nil pointer or a NULL column
          Blank   \* a tag that is empty after trimming

DomainErrors == {"ErrInvalidInput", "ErrInvalidTransition", "ErrStaleEvent"}

EventTypes == {"LOGIN", "UPDATE", "LOGOUT"}

(* Every outcome of a decision has a kind: a mutation's, or an error's. *)
Rejected(err) == [kind |-> err]

Mutation(kind, e, sessionID, tags) ==
  [kind |-> kind, eventID |-> e.eventID, sessionID |-> sessionID,
   at |-> e.at, tags |-> tags]

DuplicateEvent(e) == Mutation("duplicate_event", e, NULL, {})

(* The last element of Active.States: the latest ValidFrom, then row id. *)
IsLastState(s, S) ==
  /\ s \in S
  /\ \A r \in S : \/ r.validFrom < s.validFrom
                  \/ r.validFrom = s.validFrom /\ r.id <= s.id

LastState(S) == CHOOSE s \in S : IsLastState(s, S)

(* Slip: no event is ever stale. *)
PrepareIgnoringTime(snapshot, e) ==
  IF snapshot.lastEventID = e.eventID THEN "duplicate" ELSE "ok"

(* "duplicate", "ok", or the domain error that rejects the event: a replay *)
(* of the last event is recognised before its timestamp is looked at.      *)
PrepareTransition(snapshot, e) ==
  IF snapshot.lastEventID = e.eventID
    THEN "duplicate"
  ELSE IF snapshot.lastEventAt # NULL /\ e.at < snapshot.lastEventAt
    THEN "ErrStaleEvent"
  ELSE IF snapshot.active # NULL /\ snapshot.active.key # e.key
    THEN "ErrInvalidInput"
  ELSE "ok"

(* "ok", or why the snapshot has no open state to replace or close. *)
CurrentState(snapshot) ==
  IF snapshot.active = NULL
    THEN "ErrInvalidTransition"
  ELSE IF \/ snapshot.active.id = NULL \/ snapshot.active.logoutAt # NULL
          \/ snapshot.active.states = {}
          \/ LastState(snapshot.active.states).validTo # NULL
    THEN "ErrInvalidInput"
  ELSE "ok"

TagsAreBlank(tags) == Blank \in tags

DecideLogin(snapshot, e, newID) ==
  IF snapshot.active # NULL THEN Rejected("ErrInvalidTransition")
  ELSE IF newID = NULL \/ TagsAreBlank(e.tags) THEN Rejected("ErrInvalidInput")
  ELSE Mutation("start_session", e, newID, e.tags)

DecideUpdate(snapshot, e) ==
  LET current == CurrentState(snapshot) IN
  IF current # "ok" THEN Rejected(current)
  ELSE IF TagsAreBlank(e.tags) THEN Rejected("ErrInvalidInput")
  ELSE Mutation("replace_state", e, snapshot.active.id, e.tags)

DecideLogout(snapshot, e) ==
  LET current == CurrentState(snapshot) IN
  IF current # "ok" THEN Rejected(current)
  ELSE Mutation("end_session", e, snapshot.active.id, {})

(* The three exported functions share their prologue and differ in the     *)
(* decision; the service picks one by the event's type.                    *)
Decide(snapshot, e, newID) ==
  LET prepared == PrepareTransition(snapshot, e) IN
  IF prepared = "duplicate" THEN DuplicateEvent(e)
  ELSE IF prepared # "ok" THEN Rejected(prepared)
  ELSE CASE e.type = "LOGIN"  -> DecideLogin(snapshot, e, newID)
         [] e.type = "UPDATE" -> DecideUpdate(snapshot, e)
         [] e.type = "LOGOUT" -> DecideLogout(snapshot, e)
=============================================================================
