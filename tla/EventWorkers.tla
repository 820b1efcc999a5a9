---------------------------- MODULE EventWorkers ----------------------------
(***************************************************************************)
(* Ingestion: the goroutines of the event source, one per partition, that  *)
(* run Processor.Handle on their events, one at a time.  Handle retries    *)
(* SessionService.ApplyEvent, which loads the snapshot of the event's key  *)
(* (two queries, in no transaction), decides, and applies the mutation in  *)
(* a transaction.  Nothing in the repository orders the workers: that two  *)
(* of them never work on one key is the source's promise (ExclusiveOwners).*)
(*                                                                         *)
(* An envelope that does not decode is dead-lettered before any of this    *)
(* and changes no state, so the events here are decoded ones.              *)
(***************************************************************************)
EXTENDS SessionService, FiniteSets

CONSTANTS
  Partitions,      \* one worker each
  Owners,          \* key -> the partitions its events may arrive on
  RetryAttempts,   \* ProcessorOptions.RetryAttempts
  StorageFaults,   \* TRUE when a database call may fail transiently
  MaxRows          \* bound: rows of session_states

ASSUME EventWorkersAssumption ==
  /\ Owners \in [Keys -> SUBSET Partitions]
  /\ RetryAttempts \in Nat \ {0}
  /\ StorageFaults \in BOOLEAN
  /\ MaxRows \in Nat
  /\ NULL \notin Events
  /\ NULL \notin [login : Int, from : Int, tags : TagSets \cup {{}}]

(* One partition per key: the producers' ordering key is the session key,  *)
(* the partition count is fixed and one worker owns each partition.        *)
ExclusiveOwners == \A k \in Keys : \A p, q \in Owners[k] : p = q

VARIABLES
  sessions,      \* table sessions
  states,        \* tables session_states and session_state_tags
  pc,            \* where each worker is
  event,         \* the event it handles, or NULL
  attempt,       \* the attempt it is at
  snap,          \* the snapshot it has loaded
  ctxDone,       \* the processing context is cancelled
  lastAccepted   \* history: key -> the last event that changed it, or NULL

vars == <<sessions, states, pc, event, attempt, snap, ctxDone, lastAccepted>>
tables == <<sessions, states>>

Working == {"attempt", "states", "apply", "backoff"}

Init ==
  /\ sessions = {}
  /\ states = {}
  /\ pc = [p \in Partitions |-> "idle"]
  /\ event = [p \in Partitions |-> NULL]
  /\ attempt = [p \in Partitions |-> 0]
  /\ snap = [p \in Partitions |-> EmptySnapshot]
  /\ ctxDone = FALSE
  /\ lastAccepted = [k \in Keys |-> NULL]

(* Slip: a transient error is taken for a permanent one. *)
PermanentOrTransient(err) == err \in DomainErrors \cup {"transient"}

Permanent(err) == err \in DomainErrors

(* The bound: a logout adds no row, any other event at most one.  There is *)
(* always an id for a new session if there are as many ids as rows.        *)
WithinBounds(e) ==
  \/ e.type = "LOGOUT"
  \/ Cardinality(states) + Cardinality({p \in Partitions : pc[p] \in Working}) < MaxRows

(* The worker takes the next event of its partition. *)
Receive(p) ==
  /\ pc[p] = "idle"
  /\ \E e \in Events :
       /\ p \in Owners[e.key]
       /\ WithinBounds(e)
       /\ event' = [event EXCEPT ![p] = e]
  /\ pc' = [pc EXCEPT ![p] = "attempt"]
  /\ attempt' = [attempt EXCEPT ![p] = 1]
  /\ UNCHANGED <<sessions, states, snap, ctxDone, lastAccepted>>

(* Handle returns nil, the worker is free for its next event. *)
Settle(p) ==
  /\ pc' = [pc EXCEPT ![p] = "idle"]
  /\ event' = [event EXCEPT ![p] = NULL]
  /\ attempt' = [attempt EXCEPT ![p] = 0]
  /\ snap' = [snap EXCEPT ![p] = EmptySnapshot]

(* Slip: one attempt too many. *)
ReturnTooOften(p, err) ==
  IF err = "none" \/ Permanent(err) THEN Settle(p)
  ELSE /\ pc' = [pc EXCEPT ![p] = IF attempt[p] <= RetryAttempts
                                  THEN "backoff" ELSE "failed"]
       /\ snap' = [snap EXCEPT ![p] = EmptySnapshot]
       /\ UNCHANGED <<event, attempt>>

(* ApplyEvent has returned: a nil error and a domain error, which is       *)
(* dead-lettered, both settle the event; any other error is retried until  *)
(* the attempts run out, and then Handle fails and the worker stops.       *)
Return(p, err) ==
  IF err = "none" \/ Permanent(err) THEN Settle(p)
  ELSE /\ pc' = [pc EXCEPT ![p] = IF attempt[p] < RetryAttempts
                                  THEN "backoff" ELSE "failed"]
       /\ snap' = [snap EXCEPT ![p] = EmptySnapshot]
       /\ UNCHANGED <<event, attempt>>

(* LoadCurrent's first query; without an active session there is no second. *)
LoadSessionHistory(p) ==
  LET loaded == LoadHistory(sessions, event[p].key) IN
  /\ pc[p] = "attempt"
  /\ ~ctxDone
  /\ IF loaded.err # "none" THEN Return(p, loaded.err)
     ELSE /\ snap' = [snap EXCEPT ![p] = loaded.snapshot]
          /\ pc' = [pc EXCEPT ![p] = IF loaded.snapshot.active = NULL
                                     THEN "apply" ELSE "states"]
          /\ UNCHANGED <<event, attempt>>
  /\ UNCHANGED <<sessions, states, ctxDone, lastAccepted>>

(* LoadCurrent's second query, on whatever the table holds by now. *)
LoadStates(p) ==
  LET loaded == LoadActiveStates(states, snap[p]) IN
  /\ pc[p] = "states"
  /\ ~ctxDone
  /\ IF loaded.err # "none" THEN Return(p, loaded.err)
     ELSE /\ snap' = [snap EXCEPT ![p] = loaded.snapshot]
          /\ pc' = [pc EXCEPT ![p] = "apply"]
          /\ UNCHANGED <<event, attempt>>
  /\ UNCHANGED <<sessions, states, ctxDone, lastAccepted>>

Decision(p, newID) == Decide(snap[p], event[p], newID)

(* The outcome of deciding and, unless the decision is an error, of the    *)
(* transaction that persists it.                                           *)
Outcome(p, newID) ==
  LET m == Decision(p, newID) IN
  IF Permanent(m.kind)
    THEN [err |-> m.kind, sessions |-> sessions, states |-> states]
  ELSE ApplyMutation(sessions, states, event[p].key, m)

(* The decision and its transaction, whose one outcome is looked at once.  *)
DecideAndApply(p) ==
  /\ pc[p] = "apply"
  /\ ~ctxDone
  /\ \E newID \in NewSessionIDs(sessions, event[p]) :
       \E outcome \in {Outcome(p, newID)} :
       /\ sessions' = outcome.sessions
       /\ states' = outcome.states
       /\ Return(p, outcome.err)
       /\ lastAccepted' =
            IF outcome.err = "none" /\ Decision(p, newID).kind # "duplicate_event"
            THEN [lastAccepted EXCEPT ![event[p].key] = event[p]]
            ELSE lastAccepted
  /\ UNCHANGED ctxDone

(* A query or the transaction fails for a reason outside the domain: a     *)
(* locked table, a driver error, a closed repository.  Nothing is written. *)
StorageFault(p) ==
  /\ StorageFaults
  /\ pc[p] \in {"attempt", "states", "apply"}
  /\ Return(p, "transient")
  /\ UNCHANGED <<sessions, states, ctxDone, lastAccepted>>

(* Slip: the next attempt does not load again. *)
BackoffAndApply(p) ==
  /\ pc[p] = "backoff"
  /\ ~ctxDone
  /\ attempt' = [attempt EXCEPT ![p] = @ + 1]
  /\ pc' = [pc EXCEPT ![p] = "apply"]
  /\ UNCHANGED <<sessions, states, event, snap, ctxDone, lastAccepted>>

(* Slip: attempts are not counted. *)
BackoffUncounted(p) ==
  /\ pc[p] = "backoff"
  /\ ~ctxDone
  /\ pc' = [pc EXCEPT ![p] = "attempt"]
  /\ UNCHANGED <<sessions, states, event, attempt, snap, ctxDone, lastAccepted>>

(* The retry delay elapses and the next attempt starts from the load. *)
Backoff(p) ==
  /\ pc[p] = "backoff"
  /\ ~ctxDone
  /\ attempt' = [attempt EXCEPT ![p] = @ + 1]
  /\ pc' = [pc EXCEPT ![p] = "attempt"]
  /\ UNCHANGED <<sessions, states, event, snap, ctxDone, lastAccepted>>

(* An attempt, a query and a back-off find the context cancelled, and      *)
(* Handle returns its error.                                               *)
Fails(p) ==
  /\ pc' = [pc EXCEPT ![p] = "failed"]
  /\ snap' = [snap EXCEPT ![p] = EmptySnapshot]
  /\ UNCHANGED <<event, attempt>>

Abort(p) ==
  /\ pc[p] \in {"attempt", "states", "backoff"}
  /\ ctxDone
  /\ Fails(p)
  /\ UNCHANGED <<sessions, states, ctxDone, lastAccepted>>

(* The decision does not look at the context, ApplyMutation does: once it  *)
(* is cancelled an event is still rejected, but none is applied.           *)
DecideCancelled(p) ==
  /\ pc[p] = "apply"
  /\ ctxDone
  /\ \E newID \in NewSessionIDs(sessions, event[p]) :
       IF Permanent(Decision(p, newID).kind) THEN Settle(p) ELSE Fails(p)
  /\ UNCHANGED <<sessions, states, ctxDone, lastAccepted>>

(* Shutdown cancels the context the workers run with. *)
Cancel ==
  /\ ~ctxDone
  /\ ctxDone' = TRUE
  /\ UNCHANGED <<sessions, states, pc, event, attempt, snap, lastAccepted>>

(* The process has nothing left to do once every worker has failed. *)
Stopped ==
  /\ \A p \in Partitions : pc[p] = "failed"
  /\ UNCHANGED vars

Work(p) == LoadSessionHistory(p) \/ LoadStates(p) \/ DecideAndApply(p)
             \/ DecideCancelled(p) \/ Backoff(p) \/ Abort(p)

Next ==
  \/ \E p \in Partitions : Receive(p) \/ Work(p) \/ StorageFault(p)
  \/ Cancel
  \/ Stopped

(* A goroutine that can run does run, and a timer that is set fires.       *)
(* Nothing obliges an event to arrive, a fault to happen, or a shutdown.   *)
Fairness == \A p \in Partitions : WF_vars(Work(p))

Spec == Init /\ [][Next]_vars /\ Fairness
-----------------------------------------------------------------------------
(*************************** What must be true *****************************)

(* The shape of the tables and of the workers.  An attempt never goes past *)
(* the configured number (the loop bound of Processor.Handle).             *)
TypeOK ==
  /\ sessions \subseteq SessionRow
  /\ states \subseteq StateRow
  /\ pc \in [Partitions -> Working \cup {"idle", "failed"}]
  /\ event \in [Partitions -> Events \cup {NULL}]
  /\ attempt \in [Partitions -> 0..RetryAttempts]
  /\ snap \in [Partitions -> Snapshot]
  /\ ctxDone \in BOOLEAN
  /\ lastAccepted \in [Keys -> Events \cup {NULL}]

(* The sessions of one key never overlap: of any two, one ended before the *)
(* other began.  No constraint of the schema says so (it only forbids two  *)
(* open sessions); it rests on the stale-event rule and on the snapshot    *)
(* still being current when the mutation is applied.                       *)
LifecyclesDisjoint == SessionsDisjoint(sessions)

(* r is followed by the state with the next row id among S.                *)
NextState(r, q, S) ==
  q \in S /\ r.id < q.id /\ \A u \in S : r.id < u.id => q.id <= u.id

(* The states of a session tile it: the first begins at the login, each    *)
(* ends where the next begins, and the last ends with the session, or is   *)
(* open while it is.  An update closes, inserts and touches the session in *)
(* three statements, which have to stay together.                          *)
StatesTileSession ==
  \A s \in sessions :
    LET S == StatesOf(states, s.id) IN
    /\ \E r \in S : r.validFrom = s.loginAt /\ \A u \in S : r.id <= u.id
    /\ \A r \in S :
         \/ \E q \in S : NextState(r, q, S) /\ r.validTo = q.validFrom
         \/ (\A q \in S : q.id <= r.id) /\ r.validTo = s.logoutAt

(* What a load of the key would return if both queries ran now.            *)
FreshLoad(key) == LoadCurrent(sessions, states, key)

(* The snapshot a worker decides on is still what the database holds when  *)
(* it applies the mutation, although load, decision and transaction are    *)
(* three separate steps and no lock spans them: the contract of            *)
(* SessionRepository, and what one owner per key is there to give.         *)
SnapshotIsCurrent ==
  \A p \in Partitions :
    /\ pc[p] = "states" => LoadHistory(sessions, event[p].key) = Loaded(snap[p])
    /\ pc[p] = "apply" => FreshLoad(event[p].key) = Loaded(snap[p])

(* The stored history of a key always loads: never two open sessions,      *)
(* never an open session without an open last state.  Otherwise every      *)
(* later event of the key would be dead-lettered.                          *)
HistoryLoads == \A k \in Keys : FreshLoad(k).err = "none"

(* Whatever the domain decides at a time an int64 of nanoseconds can hold, *)
(* the database accepts: no constraint of the schema and no row count can  *)
(* refuse a mutation about to be applied, also when times that do not fit  *)
(* have left wrapped ones in the tables.  persistMutation trusts this.  A  *)
(* refusal by a constraint is no domain error, so it would be retried, in  *)
(* vain, and stop the consumer.                                            *)
MutationsMeetConstraints ==
  \A p \in Partitions :
    pc[p] = "apply" /\ Representable(event[p].at) =>
      \A newID \in NewSessionIDs(sessions, event[p]) :
        ~Permanent(Decision(p, newID).kind) => Outcome(p, newID).err = "none"

(* A worker that neither a storage fault nor a shutdown has stopped was    *)
(* stopped by an event whose own time does not fit in an int64 of          *)
(* nanoseconds: every other event is applied or dead-lettered, also when   *)
(* earlier ones of its key have left wrapped times behind.                 *)
OnlyFarTimesStopWorkers ==
  \A p \in Partitions :
    pc[p] = "failed" => StorageFaults \/ ctxDone \/ ~Representable(event[p].at)

(* Only a storage fault or a shutdown stops a worker: persistence accepts  *)
(* what the domain decides of any event, as persistMutation has it.        *)
OnlyFaultsStopWorkers ==
  \A p \in Partitions : pc[p] = "failed" => StorageFaults \/ ctxDone

(* History is only appended to: an ended session or state keeps every      *)
(* field, an open state can only be closed, an open session can only end   *)
(* or take a new event id.  Queries about the past depend on it.           *)
HistoryIsImmutable ==
  [][/\ \A s \in sessions :
          \E q \in sessions' :
            /\ q.id = s.id /\ q.key = s.key /\ q.loginAt = s.loginAt
            /\ s.logoutAt # NULL => q = s
     /\ \A s \in states :
          \E q \in states' :
            /\ q = [s EXCEPT !.validTo = q.validTo]
            /\ s.validTo # NULL => q = s]_vars

(* Worker p has just settled an event of key k.                            *)
SettlesFor(p, k) == pc[p] = "apply" /\ event[p].key = k /\ event'[p] = NULL

(* The event of a key that was accepted last, delivered again after a      *)
(* failed commit or by a rebalance, changes nothing.                       *)
ReplayIsNoop ==
  [][\A p \in Partitions, k \in Keys :
       SettlesFor(p, k) /\ event[p] = lastAccepted[k] => UNCHANGED tables]_vars

(* For keys whose sessions all logged in at different instants the id is   *)
(* enough: nothing that carries the id of the event accepted last changes  *)
(* anything, whatever else it says.                                        *)
RepeatsTheID(e, accepted) == accepted # NULL /\ e.eventID = accepted.eventID

ReplayIsNoopUnlessLoginsTie ==
  [][\A p \in Partitions, k \in Keys :
       /\ SettlesFor(p, k)
       /\ RepeatsTheID(event[p], lastAccepted[k]) /\ ~LoginsTie(sessions, k)
       => UNCHANGED tables]_vars

(* ApplyEvent as a whole, with a new session id, on the tables of now.     *)
WholeEvent(p, newID) == ApplyEvent(sessions, states, event[p], newID)

(* The event worker p holds takes effect: all of ApplyEvent at once.       *)
TakesEffect(p) ==
  /\ event'[p] = NULL
  /\ \E newID \in NewSessionIDs(sessions, event[p]) :
       /\ WholeEvent(p, newID).err \in DomainErrors \cup {"none"}
       /\ sessions' = WholeEvent(p, newID).sessions
       /\ states' = WholeEvent(p, newID).states

(* Two queries, a decision and a transaction, with other workers, faults   *)
(* and a shutdown in between, come to the same as ApplyEvent at one        *)
(* instant, that of the settling: an event is settled with the effect, or  *)
(* the rejection, it has on the tables as they are then, and nothing but   *)
(* the settling of an event changes a table.  So a failed attempt leaves   *)
(* nothing behind, and a failure of the storage rejects no event.          *)
EventsTakeEffectAtomically ==
  [][/\ \A p \in Partitions : event[p] # NULL /\ event'[p] # event[p] => TakesEffect(p)
     /\ tables' # tables => \E p \in Partitions : event[p] # NULL /\ TakesEffect(p)]_vars

(* Every event taken is settled, or its worker fails: no retry goes on for *)
(* ever, whatever the storage does and whenever the shutdown comes.        *)
EventsSettle ==
  \A p \in Partitions : pc[p] = "attempt" ~> pc[p] \in {"idle", "failed"}

(************************* Inductive invariants ****************************)

(* The tables satisfy the repository's constraints and more: see StoreOK.  *)
(* True even when two workers share a key.                                 *)
StorageOK == StoreOK(sessions, states)

(* An idle worker has no event, a busy one has one of a key it may own; it *)
(* makes the second query only for an active session, and backs off only   *)
(* before the last attempt.                                                *)
WorkersOK ==
  \A p \in Partitions :
    /\ pc[p] = "idle" => event[p] = NULL
    /\ pc[p] \in Working => event[p] \in Events /\ p \in Owners[event[p].key]
    /\ pc[p] = "states" => snap[p].active # NULL /\ snap[p].lastEventAt # NULL
    /\ pc[p] = "backoff" => attempt[p] < RetryAttempts

TypeInv == TypeOK /\ StorageOK /\ WorkersOK

(* Given exclusive owners, inductive as well.                              *)
CurrencyInv == TypeInv /\ SnapshotIsCurrent

(* The same, if times are representable.                                   *)
SafetyInv == CurrencyInv /\ LifecyclesDisjoint

(*************************** What it implements ****************************)
(* The tables as timelines: see SessionLifecycle.                          *)

OpenPeriods(k) ==
  UNION {{[login |-> s.loginAt, from |-> r.validFrom, tags |-> r.tags] :
            r \in {q \in StatesOf(states, s.id) : q.validTo = NULL}} :
          s \in SessionsOf(sessions, k)}

PastPeriods(k) ==
  UNION {{[login |-> s.loginAt, from |-> r.validFrom, to |-> r.validTo,
           tags |-> r.tags] :
            r \in {q \in StatesOf(states, s.id) : q.validTo # NULL}} :
          s \in SessionsOf(sessions, k)}

EndedSessions(k) ==
  {[login |-> s.loginAt, logout |-> s.logoutAt] :
     s \in {r \in SessionsOf(sessions, k) : r.logoutAt # NULL}}

KeyTimes(k) ==
  SessionTimes(SessionsOf(sessions, k)) \cup
  UNION {StateTimes(StatesOf(states, s.id)) : s \in SessionsOf(sessions, k)}

Lifecycle == INSTANCE SessionLifecycle WITH
  current <- [k \in Keys |-> IF OpenPeriods(k) = {} THEN NULL
                             ELSE CHOOSE o \in OpenPeriods(k) : TRUE],
  past    <- [k \in Keys |-> PastPeriods(k)],
  ended   <- [k \in Keys |-> EndedSessions(k)],
  clock   <- [k \in Keys |-> IF KeyTimes(k) = {} THEN NULL ELSE Latest(KeyTimes(k))]

(* Tables, snapshots, retries and concurrent workers together behave like  *)
(* one timeline per key that only accepted events move.                    *)
ImplementsLifecycle == Lifecycle!Spec
=============================================================================
