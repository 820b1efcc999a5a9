--------------------------- MODULE SessionService ---------------------------
(***************************************************************************)
(* internal/service: the trusted events NewEvent makes, and ApplyEvent as  *)
(* one step, for modules in which nothing comes between its load and its   *)
(* transaction.  EventWorkers takes it apart.                              *)
(***************************************************************************)
EXTENDS SessionStore

CONSTANT Times   \* event timestamps

ASSUME ServiceAssumption == Times \subseteq Int

(* Within the years an int64 of nanoseconds reaches. *)
RepresentableTimes == \A t \in Times : Representable(t)

(* A logout's tags are never read. *)
Events ==
  {e \in [eventID : EventIDs, type : EventTypes, key : Keys,
          tags : TagSets \cup {{}}, at : Times] : e.type = "LOGOUT" => e.tags = {}}

(* A login draws a random session id.  It is drawn when an attempt begins  *)
(* and not looked at before the insert, so it may as well be drawn there;  *)
(* that two random UUIDs never collide is assumed.                         *)
NewSessionIDs(sessions, e) ==
  IF e.type = "LOGIN" THEN SessionIDs \ {s.id : s \in sessions} ELSE {NULL}

ApplyEvent(sessions, states, e, newID) ==
  LET loaded == LoadCurrent(sessions, states, e.key)
      m      == Decide(loaded.snapshot, e, newID)
      same   == [err |-> "none", sessions |-> sessions, states |-> states]
  IN  IF loaded.err # "none" THEN Fail(same, loaded.err)
      ELSE IF m.kind \in DomainErrors THEN Fail(same, m.kind)
      ELSE ApplyMutation(sessions, states, e.key, m)
=============================================================================
