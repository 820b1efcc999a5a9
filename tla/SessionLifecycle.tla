-------------------------- MODULE SessionLifecycle --------------------------
(***************************************************************************)
(* What session history promises, with no tables, snapshots or retries:    *)
(* each key has a timeline of sessions, at most the last of them open; an  *)
(* open session has one current tag state and every earlier state is a     *)
(* period that ended where the next one began; and time never goes back.   *)
(*                                                                         *)
(* This is the contract internal/session and the repository implement      *)
(* together (interface SessionRepository, the mutation kinds, schema.sql). *)
(***************************************************************************)
EXTENDS Integers

CONSTANTS Keys, NULL

VARIABLES current,  \* key -> the open session's state [login, from, tags], or NULL
          past,     \* key -> ended periods [login, from, to, tags]
          ended,    \* key -> ended sessions [login, logout]
          clock     \* key -> time of the last accepted event, or NULL

vars == <<current, past, ended, clock>>

Init ==
  /\ current = [k \in Keys |-> NULL]
  /\ past    = [k \in Keys |-> {}]
  /\ ended   = [k \in Keys |-> {}]
  /\ clock   = [k \in Keys |-> NULL]

NotBefore(k, at) == clock[k] = NULL \/ clock[k] <= at

EndedPeriod(k, at) ==
  [login |-> current[k].login, from |-> current[k].from, to |-> at,
   tags |-> current[k].tags]

(* A session and its first state start together. *)
Start(k, at, tags) ==
  /\ current[k] = NULL
  /\ NotBefore(k, at)
  /\ current' = [current EXCEPT ![k] = [login |-> at, from |-> at, tags |-> tags]]
  /\ clock' = [clock EXCEPT ![k] = at]
  /\ UNCHANGED <<past, ended>>

(* The new state starts at the instant the current one ends. *)
Replace(k, at, tags) ==
  /\ current[k] # NULL
  /\ NotBefore(k, at)
  /\ past' = [past EXCEPT ![k] = @ \cup {EndedPeriod(k, at)}]
  /\ current' = [current EXCEPT ![k] =
                   [login |-> current[k].login, from |-> at, tags |-> tags]]
  /\ clock' = [clock EXCEPT ![k] = at]
  /\ UNCHANGED ended

(* A session and its last state end together. *)
End(k, at) ==
  /\ current[k] # NULL
  /\ NotBefore(k, at)
  /\ past' = [past EXCEPT ![k] = @ \cup {EndedPeriod(k, at)}]
  /\ ended' = [ended EXCEPT ![k] =
                 @ \cup {[login |-> current[k].login, logout |-> at]}]
  /\ current' = [current EXCEPT ![k] = NULL]
  /\ clock' = [clock EXCEPT ![k] = at]

(* The time and the tags of a step are those it leaves behind, so the      *)
(* specification needs no set of times or of tags.                         *)
Next ==
  \E k \in Keys :
    \/ current'[k] # NULL /\ Start(k, clock'[k], current'[k].tags)
    \/ current'[k] # NULL /\ Replace(k, clock'[k], current'[k].tags)
    \/ End(k, clock'[k])

Spec == Init /\ [][Next]_vars
=============================================================================
