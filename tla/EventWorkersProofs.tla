------------------------- MODULE EventWorkersProofs -------------------------
(***************************************************************************)
(* Theorems of EventWorkers, for any keys, partitions, events, times and   *)
(* number of retries.  TypeInv needs no assumption on who owns a key or    *)
(* which times occur, CurrencyInv none on the times.                       *)
(***************************************************************************)
EXTENDS EventWorkers, SessionServiceProofs

(**************************** Type correctness *****************************)

(* The control state of the workers, apart from the tables.                *)
ControlOK ==
  /\ pc \in [Partitions -> Working \cup {"idle", "failed"}]
  /\ event \in [Partitions -> Events \cup {NULL}]
  /\ attempt \in [Partitions -> 0..RetryAttempts]
  /\ snap \in [Partitions -> Snapshot]
  /\ WorkersOK

LEMMA EmptySnapshotType == EmptySnapshot \in Snapshot
BY DEF EmptySnapshot, Snapshot

(* However ApplyEvent returns, the worker is left in a proper state.       *)
LEMMA ReturnType ==
  ASSUME ControlOK, NEW p \in Partitions, NEW err, Return(p, err), pc[p] \in Working
  PROVE  ControlOK'
<1> USE EmptySnapshotType, EventWorkersAssumption, ServiceAssumption
<1>1. CASE err = "none" \/ Permanent(err)
  BY <1>1 DEF Return, Settle, ControlOK, WorkersOK, Working
<1>2. CASE ~(err = "none" \/ Permanent(err))
  <2>1. /\ pc' = [pc EXCEPT ![p] = IF attempt[p] < RetryAttempts THEN "backoff" ELSE "failed"]
        /\ snap' = [snap EXCEPT ![p] = EmptySnapshot]
        /\ event' = event /\ attempt' = attempt
    BY <1>2 DEF Return
  <2>2. CASE attempt[p] < RetryAttempts
    BY <2>1, <2>2 DEF ControlOK, WorkersOK, Working
  <2>3. CASE ~(attempt[p] < RetryAttempts)
    BY <2>1, <2>3 DEF ControlOK, WorkersOK, Working
  <2> QED
    BY <2>2, <2>3
<1> QED
  BY <1>1, <1>2

(* Settled or failed, a worker is left in a proper state.                  *)
LEMMA SettleType ==
  ASSUME ControlOK, NEW p \in Partitions, Settle(p) \/ Fails(p)
  PROVE  ControlOK'
<1> USE EmptySnapshotType, EventWorkersAssumption, ServiceAssumption
<1>1. CASE Settle(p)
  BY <1>1 DEF Settle, ControlOK, WorkersOK, Working
<1>2. CASE Fails(p)
  BY <1>2 DEF Fails, ControlOK, WorkersOK, Working
<1> QED
  BY <1>1, <1>2

LEMMA TypeInit == Init => TypeInv
<1> SUFFICES ASSUME Init PROVE TypeInv
  OBVIOUS
<1>1. TypeOK
  <2>1. attempt \in [Partitions -> 0..RetryAttempts]
    BY EventWorkersAssumption, ServiceAssumption DEF Init
  <2>2. pc \in [Partitions -> Working \cup {"idle", "failed"}]
    BY DEF Init
  <2>3. event \in [Partitions -> Events \cup {NULL}]
    BY DEF Init
  <2>4. snap \in [Partitions -> Snapshot]
    BY EmptySnapshotType DEF Init
  <2>5. lastAccepted \in [Keys -> Events \cup {NULL}]
    BY DEF Init
  <2>6. sessions \subseteq SessionRow /\ states \subseteq StateRow /\ ctxDone \in BOOLEAN
    BY DEF Init
  <2> QED
    BY <2>1, <2>2, <2>3, <2>4, <2>5, <2>6 DEF TypeOK
<1>2. StorageOK
  BY DEF Init, StorageOK, StoreOK, RowsAreUnique, OpenRowsAgree, OpenStateIsLast, MaximaExist
<1>3. WorkersOK
  BY DEF Init, WorkersOK, Working
<1> QED
  BY <1>1, <1>2, <1>3 DEF TypeInv

(* What a worker about to decide may do to the tables.                     *)
LEMMA OutcomeIs ==
  ASSUME NEW p, NEW newID
  PROVE  Outcome(p, newID) = Applied(sessions, states, snap[p], event[p], newID)
BY DEF Outcome, Applied, Decision, Permanent

LEMMA OutcomeType ==
  ASSUME TypeInv, NEW p \in Partitions, pc[p] = "apply",
         NEW newID \in NewSessionIDs(sessions, event[p])
  PROVE  StoreOK(Outcome(p, newID).sessions, Outcome(p, newID).states)
<1>1. event[p] \in Events /\ snap[p] \in Snapshot /\ StoreOK(sessions, states)
  BY DEF TypeInv, TypeOK, WorkersOK, Working, StorageOK
<1> QED
  BY <1>1, OutcomeIs, AppliedType

(* Every step preserves types, the repository's constraints and the        *)
(* workers' control state.                                                 *)
LEMMA TypeNext == TypeInv /\ [Next]_vars => TypeInv'
<1> SUFFICES ASSUME TypeInv, [Next]_vars PROVE TypeInv'
  OBVIOUS
<1> USE EventWorkersAssumption, ServiceAssumption
<1>0. ControlOK
  BY DEF TypeInv, TypeOK, ControlOK
<1>a. ControlOK' /\ StorageOK' /\ ctxDone' \in BOOLEAN
      /\ lastAccepted' \in [Keys -> Events \cup {NULL}] => TypeInv'
  BY DEF TypeInv, TypeOK, ControlOK, StorageOK, StoreOK
<1>b. UNCHANGED tables => StorageOK'
  BY DEF TypeInv, StorageOK, tables
<1>c. ctxDone \in BOOLEAN /\ lastAccepted \in [Keys -> Events \cup {NULL}]
  BY DEF TypeInv, TypeOK
<1>1. ASSUME NEW p \in Partitions, Receive(p) PROVE TypeInv'
  <2>1. PICK e \in Events : p \in Owners[e.key] /\ event' = [event EXCEPT ![p] = e]
    BY <1>1 DEF Receive
  <2>2. ControlOK'
    BY <1>0, <1>1, <2>1 DEF Receive, ControlOK, WorkersOK, Working
  <2> QED
    BY <1>a, <1>b, <1>c, <1>1, <2>2 DEF Receive, tables
<1>2. ASSUME NEW p \in Partitions, LoadSessionHistory(p) PROVE TypeInv'
  <2> DEFINE loaded == LoadHistory(sessions, event[p].key)
  <2>1. event[p].key \in Keys
    BY <1>0, <1>2 DEF LoadSessionHistory, ControlOK, WorkersOK, Working, Events
  <2>2. /\ loaded.snapshot \in Snapshot
        /\ loaded.snapshot.active # NULL => loaded.snapshot.lastEventAt # NULL
    BY <2>1, LoadHistoryType DEF TypeInv, StorageOK
  <2>3. CASE loaded.err # "none"
    BY <1>0, <1>a, <1>b, <1>c, <1>2, <2>3, ReturnType DEF LoadSessionHistory, Working, tables
  <2>4. CASE loaded.err = "none"
    <3>1. ControlOK'
      BY <1>0, <1>2, <2>2, <2>4 DEF LoadSessionHistory, ControlOK, WorkersOK, Working
    <3> QED
      BY <1>a, <1>b, <1>c, <1>2, <3>1 DEF LoadSessionHistory, tables
  <2> QED
    BY <2>3, <2>4
<1>3. ASSUME NEW p \in Partitions, LoadStates(p) PROVE TypeInv'
  <2> DEFINE loaded == LoadActiveStates(states, snap[p])
  <2>1. loaded.snapshot \in Snapshot
    BY <1>0, <1>3, LoadActiveStatesType
    DEF LoadStates, ControlOK, WorkersOK, TypeInv, StorageOK
  <2>2. CASE loaded.err # "none"
    BY <1>0, <1>a, <1>b, <1>c, <1>3, <2>2, ReturnType DEF LoadStates, Working, tables
  <2>3. CASE loaded.err = "none"
    <3>1. ControlOK'
      BY <1>0, <1>3, <2>1, <2>3 DEF LoadStates, ControlOK, WorkersOK, Working
    <3> QED
      BY <1>a, <1>b, <1>c, <1>3, <3>1 DEF LoadStates, tables
  <2> QED
    BY <2>2, <2>3
<1>4. ASSUME NEW p \in Partitions, DecideAndApply(p) PROVE TypeInv'
  <2>1. PICK newID \in NewSessionIDs(sessions, event[p]) :
          /\ sessions' = Outcome(p, newID).sessions
          /\ states' = Outcome(p, newID).states
          /\ Return(p, Outcome(p, newID).err)
          /\ \/ lastAccepted' = [lastAccepted EXCEPT ![event[p].key] = event[p]]
             \/ lastAccepted' = lastAccepted
    BY <1>4 DEF DecideAndApply
  <2>2. StorageOK'
    BY <1>4, <2>1, OutcomeType DEF DecideAndApply, StorageOK
  <2>3. ControlOK'
    BY <1>0, <1>4, <2>1, ReturnType DEF DecideAndApply, Working
  <2>4. event[p] \in Events
    BY <1>0, <1>4 DEF DecideAndApply, ControlOK, WorkersOK, Working
  <2>5. lastAccepted' \in [Keys -> Events \cup {NULL}]
    BY <1>c, <2>1, <2>4 DEF Events
  <2> QED
    BY <1>a, <1>c, <1>4, <2>2, <2>3, <2>5 DEF DecideAndApply
<1>5. ASSUME NEW p \in Partitions, StorageFault(p) PROVE TypeInv'
  BY <1>0, <1>a, <1>b, <1>c, <1>5, ReturnType DEF StorageFault, Working, tables
<1>6. ASSUME NEW p \in Partitions, Backoff(p) PROVE TypeInv'
  <2>1. ControlOK'
    BY <1>0, <1>6 DEF Backoff, ControlOK, WorkersOK, Working
  <2> QED
    BY <1>a, <1>b, <1>c, <1>6, <2>1 DEF Backoff, tables
<1>7. ASSUME NEW p \in Partitions, Abort(p) PROVE TypeInv'
  BY <1>0, <1>a, <1>b, <1>c, <1>7, SettleType DEF Abort, tables
<1>10. ASSUME NEW p \in Partitions, DecideCancelled(p) PROVE TypeInv'
  <2>1. Settle(p) \/ Fails(p)
    BY <1>10 DEF DecideCancelled
  <2>2. ControlOK'
    BY <1>0, <2>1, SettleType
  <2> QED
    BY <1>a, <1>b, <1>c, <1>10, <2>2 DEF DecideCancelled, tables
<1>8. CASE Cancel
  <2>1. ControlOK'
    BY <1>0, <1>8 DEF Cancel, ControlOK, WorkersOK
  <2> QED
    BY <1>a, <1>b, <1>c, <1>8, <2>1 DEF Cancel, tables
<1>9. CASE UNCHANGED vars
  <2>1. ControlOK'
    BY <1>0, <1>9 DEF vars, ControlOK, WorkersOK
  <2> QED
    BY <1>a, <1>b, <1>c, <1>9, <2>1 DEF vars, tables
<1> QED
  BY <1>1, <1>2, <1>3, <1>4, <1>5, <1>6, <1>7, <1>8, <1>9, <1>10
  DEF Next, Work, Stopped

(* Tables and workers keep their shape, and the repository's constraints   *)
(* hold, however keys are routed and whatever times events carry.          *)
THEOREM TypesAndStorage == Spec => []TypeInv
BY TypeInit, TypeNext, PTL DEF Spec

THEOREM TypeCorrect == Spec => []TypeOK
<1>1. TypeInv => TypeOK
  BY DEF TypeInv
<1> QED
  BY <1>1, TypesAndStorage, PTL

(* A worker about to apply holds a snapshot that is current.               *)
LEMMA WorkerHasCurrent ==
  ASSUME CurrencyInv, NEW p \in Partitions, pc[p] = "apply",
         NEW newID \in NewSessionIDs(sessions, event[p])
  PROVE  HasCurrent(sessions, states, snap[p], event[p], newID)
BY DEF HasCurrent, CurrencyInv, TypeInv, TypeOK, WorkersOK, Working, StorageOK,
       SnapshotIsCurrent, FreshLoad

LEMMA WorkerReady ==
  ASSUME RepresentableTimes, CurrencyInv, NEW p \in Partitions, pc[p] = "apply",
         NEW newID \in NewSessionIDs(sessions, event[p])
  PROVE  Ready(sessions, states, snap[p], event[p], newID)
BY WorkerHasCurrent DEF Ready

(* What a worker about to apply does: the database accepts it if its time  *)
(* fits, and it touches only the rows of its event's key.                  *)
LEMMA OutcomeFacts ==
  ASSUME CurrencyInv, NEW p \in Partitions, pc[p] = "apply",
         NEW newID \in NewSessionIDs(sessions, event[p])
  PROVE  LET o == Outcome(p, newID) IN
         /\ ~Permanent(Decision(p, newID).kind) /\ Representable(event[p].at) => o.err = "none"
         /\ Permanent(Decision(p, newID).kind) => o.err = Decision(p, newID).kind
         /\ OnlyKey(sessions, states, o.sessions, o.states, event[p].key)
<1>1. HasCurrent(sessions, states, snap[p], event[p], newID)
  BY WorkerHasCurrent
<1> QED
  BY <1>1, OutcomeIs, AppliedOnKey DEF Decision, Permanent

(* It is all of ApplyEvent, on the tables of this instant.                 *)
LEMMA OutcomeIsWhole ==
  ASSUME CurrencyInv, NEW p \in Partitions, pc[p] = "apply", NEW newID
  PROVE  Outcome(p, newID) = WholeEvent(p, newID)
<1>1. LoadCurrent(sessions, states, event[p].key) = Loaded(snap[p])
  BY DEF CurrencyInv, SnapshotIsCurrent, FreshLoad
<1> QED
  BY <1>1, OutcomeIs, ApplyEventIs DEF WholeEvent
-----------------------------------------------------------------------------
(************************* Snapshots stay current **************************)

Current(p) ==
  /\ pc[p] = "states" => LoadHistory(sessions, event[p].key) = Loaded(snap[p])
  /\ pc[p] = "apply" => FreshLoad(event[p].key) = Loaded(snap[p])

(* A worker's snapshot survives a step that leaves the worker and, of the  *)
(* tables, the rows of its key alone.                                      *)
LEMMA StaysCurrent ==
  ASSUME TypeInv, NEW q \in Partitions, Current(q), NEW key,
         pc[q] \in Working => event[q].key # key,
         OnlyKey(sessions, states, sessions', states', key),
         pc'[q] = pc[q], event'[q] = event[q], snap'[q] = snap[q]
  PROVE  Current(q)'
<1>1. CASE pc[q] \in Working
  <2>1. event[q].key \in Keys
    BY <1>1 DEF TypeInv, WorkersOK, Events
  <2>2. /\ LoadHistory(sessions', event[q].key) = LoadHistory(sessions, event[q].key)
        /\ FreshLoad(event[q].key)' = FreshLoad(event[q].key)
    <3>1. \A k \in Keys : k # key =>
             /\ LoadHistory(sessions', k) = LoadHistory(sessions, k)
             /\ FreshLoad(k)' = FreshLoad(k)
      BY LoadFrame DEF TypeInv, StorageOK, FreshLoad
    <3>2. FreshLoad(event[q].key)'
            = (LET loaded == LoadHistory(sessions', event[q].key) IN
               IF loaded.err = "none" /\ loaded.snapshot.active # NULL
                 THEN LoadActiveStates(states', loaded.snapshot) ELSE loaded)
      BY DEF FreshLoad, LoadCurrent
    <3> QED
      BY <1>1, <2>1, <3>1
  <2> QED
    BY <2>2 DEF Current
<1>2. CASE pc[q] \notin Working
  BY <1>2 DEF Current, Working
<1> QED
  BY <1>1, <1>2

LEMMA CurrencyInit == Init => CurrencyInv
<1>1. Init => SnapshotIsCurrent
  BY DEF Init, SnapshotIsCurrent
<1> QED
  BY <1>1, TypeInit DEF CurrencyInv

(* A worker that has returned from ApplyEvent holds no snapshot to decide  *)
(* on.                                                                     *)
LEMMA ReturnFacts ==
  ASSUME ControlOK, NEW p \in Partitions, NEW err, Return(p, err)
  PROVE  /\ pc'[p] \in {"idle", "backoff", "failed"}
         /\ pc'[p] = "failed" => event'[p] = event[p] /\ ~(err = "none" \/ Permanent(err))
         /\ event'[p] # event[p] => event'[p] = NULL /\ (err = "none" \/ Permanent(err))
         /\ err = "none" => event'[p] = NULL
         /\ \A q \in Partitions : q # p =>
              pc'[q] = pc[q] /\ event'[q] = event[q] /\ snap'[q] = snap[q]
<1>1. CASE err = "none" \/ Permanent(err)
  BY <1>1 DEF ControlOK, Return, Settle
<1>2. CASE ~(err = "none" \/ Permanent(err))
  BY <1>2 DEF ControlOK, Return
<1> QED
  BY <1>1, <1>2

LEMMA SettleFacts ==
  ASSUME ControlOK, NEW p \in Partitions, Settle(p) \/ Fails(p)
  PROVE  /\ pc'[p] \in {"idle", "failed"}
         /\ \A q \in Partitions : q # p =>
              pc'[q] = pc[q] /\ event'[q] = event[q] /\ snap'[q] = snap[q]
<1>1. CASE Settle(p)
  BY <1>1 DEF ControlOK, Settle
<1>2. CASE Fails(p)
  BY <1>2 DEF ControlOK, Fails
<1> QED
  BY <1>1, <1>2

(* With exclusive owners, only the worker itself can change what a load of *)
(* its event's key returns; and it decides only right after loading.       *)
LEMMA CurrencyNext ==
  ASSUME ExclusiveOwners, CurrencyInv, [Next]_vars
  PROVE  CurrencyInv'
<1>1. TypeInv'
  BY TypeNext DEF CurrencyInv
<1>2. ControlOK
  BY DEF CurrencyInv, TypeInv, TypeOK, ControlOK
<1>3. \A q \in Partitions : Current(q)
  BY DEF CurrencyInv, SnapshotIsCurrent, Current
<1>4. (\A q \in Partitions : Current(q)') => SnapshotIsCurrent'
  BY DEF SnapshotIsCurrent, Current
<1>6. ASSUME NEW key, OnlyKey(sessions, states, sessions', states', key),
             NEW q \in Partitions, pc'[q] = pc[q], event'[q] = event[q], snap'[q] = snap[q],
             pc[q] \in Working => event[q].key # key
      PROVE  Current(q)'
  BY <1>3, <1>6, StaysCurrent DEF CurrencyInv
<1>7. ASSUME UNCHANGED tables,
             NEW q \in Partitions, pc'[q] = pc[q], event'[q] = event[q], snap'[q] = snap[q]
      PROVE  Current(q)'
  BY <1>3, <1>7 DEF Current, FreshLoad, LoadCurrent, tables
<1>8. ASSUME UNCHANGED tables, NEW p \in Partitions, pc'[p] \notin {"states", "apply"},
             \A q \in Partitions : q # p =>
               pc'[q] = pc[q] /\ event'[q] = event[q] /\ snap'[q] = snap[q]
      PROVE  SnapshotIsCurrent'
  <2>1. Current(p)'
    BY <1>8 DEF Current
  <2>2. \A q \in Partitions : Current(q)'
    BY <1>7, <1>8, <2>1
  <2> QED
    BY <1>4, <2>2
<1>9. ASSUME UNCHANGED tables, NEW p \in Partitions, Current(p)',
             \A q \in Partitions : q # p =>
               pc'[q] = pc[q] /\ event'[q] = event[q] /\ snap'[q] = snap[q]
      PROVE  SnapshotIsCurrent'
  <2>1. \A q \in Partitions : Current(q)'
    BY <1>7, <1>9
  <2> QED
    BY <1>4, <2>1
<1>10. ASSUME NEW p \in Partitions, Receive(p)
       PROVE  SnapshotIsCurrent'
  <2>1. /\ UNCHANGED tables
        /\ pc'[p] \notin {"states", "apply"}
        /\ \A q \in Partitions : q # p =>
             pc'[q] = pc[q] /\ event'[q] = event[q] /\ snap'[q] = snap[q]
    BY <1>2, <1>10 DEF Receive, ControlOK, tables
  <2> QED
    BY <1>8, <2>1
<1>11. ASSUME NEW p \in Partitions, LoadSessionHistory(p)
       PROVE  SnapshotIsCurrent'
  <2> DEFINE loaded == LoadHistory(sessions, event[p].key)
  <2>1. event[p].key \in Keys
    BY <1>2, <1>11 DEF LoadSessionHistory, ControlOK, WorkersOK, Working, Events
  <2>2. loaded.err = "none" /\ loaded = Loaded(loaded.snapshot)
    BY <2>1, LoadSucceeds DEF CurrencyInv, TypeInv, StorageOK, LoadHistory, Loaded
  <2>3. /\ snap' = [snap EXCEPT ![p] = loaded.snapshot]
        /\ pc' = [pc EXCEPT ![p] = IF loaded.snapshot.active = NULL
                                   THEN "apply" ELSE "states"]
        /\ event' = event /\ UNCHANGED tables
    BY <1>11, <2>2 DEF LoadSessionHistory, tables
  <2>4. \A q \in Partitions : q # p =>
          pc'[q] = pc[q] /\ event'[q] = event[q] /\ snap'[q] = snap[q]
    BY <1>2, <2>3 DEF ControlOK
  <2>5. snap'[p] = loaded.snapshot /\ event'[p] = event[p] /\ UNCHANGED tables
    BY <1>2, <2>3 DEF ControlOK
  <2>6. pc'[p] = IF loaded.snapshot.active = NULL THEN "apply" ELSE "states"
    BY <1>2, <2>3 DEF ControlOK
  <2>7. Current(p)'
    <3> HIDE DEF loaded
    <3>1. LoadHistory(sessions', event'[p].key) = loaded
      BY <2>5 DEF loaded, tables
    <3> QED
      BY <2>2, <2>5, <2>6, <3>1 DEF Current, FreshLoad, LoadCurrent
  <2> QED
    BY <1>9, <2>3, <2>4, <2>7
<1>12. ASSUME NEW p \in Partitions, LoadStates(p)
       PROVE  SnapshotIsCurrent'
  <2> DEFINE loaded == LoadActiveStates(states, snap[p])
  <2>1. event[p].key \in Keys
    BY <1>2, <1>12 DEF LoadStates, ControlOK, WorkersOK, Working, Events
  <2>2. LoadHistory(sessions, event[p].key) = Loaded(snap[p]) /\ snap[p].active # NULL
    BY <1>2, <1>3, <1>12 DEF LoadStates, Current, ControlOK, WorkersOK
  <2>3. FreshLoad(event[p].key) = loaded
    BY <2>2 DEF FreshLoad, LoadCurrent, Loaded
  <2>4. loaded.err = "none" /\ loaded = Loaded(loaded.snapshot)
    <3>1. loaded.err = "none"
      BY <2>1, <2>3, LoadSucceeds DEF CurrencyInv, TypeInv, StorageOK, FreshLoad
    <3> QED
      BY <3>1 DEF LoadActiveStates, Loaded
  <2>5. /\ snap' = [snap EXCEPT ![p] = loaded.snapshot]
        /\ pc' = [pc EXCEPT ![p] = "apply"]
        /\ event' = event /\ UNCHANGED tables
    BY <1>12, <2>4 DEF LoadStates, tables
  <2>6. \A q \in Partitions : q # p =>
          pc'[q] = pc[q] /\ event'[q] = event[q] /\ snap'[q] = snap[q]
    BY <1>2, <2>5 DEF ControlOK
  <2>7. snap'[p] = loaded.snapshot /\ event'[p] = event[p] /\ pc'[p] = "apply"
    BY <1>2, <2>5 DEF ControlOK
  <2>8. Current(p)'
    <3> HIDE DEF loaded
    <3>1. FreshLoad(event[p].key)' = FreshLoad(event[p].key)
      BY <2>5, <2>7 DEF FreshLoad, LoadCurrent, tables
    <3> QED
      BY <2>3, <2>4, <2>7, <3>1 DEF Current
  <2> QED
    BY <1>9, <2>5, <2>6, <2>8
<1>13. ASSUME NEW p \in Partitions, DecideAndApply(p)
       PROVE  SnapshotIsCurrent'
  <2>1. PICK newID \in NewSessionIDs(sessions, event[p]) :
          /\ sessions' = Outcome(p, newID).sessions
          /\ states' = Outcome(p, newID).states
          /\ Return(p, Outcome(p, newID).err)
    BY <1>13 DEF DecideAndApply
  <2>2. pc[p] = "apply"
    BY <1>13 DEF DecideAndApply
  <2>3. OnlyKey(sessions, states, sessions', states', event[p].key)
    BY <2>1, <2>2, OutcomeFacts
  <2>4. /\ pc'[p] \in {"idle", "backoff", "failed"}
        /\ \A q \in Partitions : q # p =>
             pc'[q] = pc[q] /\ event'[q] = event[q] /\ snap'[q] = snap[q]
    BY <1>2, <2>1, ReturnFacts
  <2>5. Current(p)'
    BY <2>4 DEF Current
  <2>6. ASSUME NEW q \in Partitions, q # p PROVE Current(q)'
    <3>1. pc[q] \in Working => event[q].key # event[p].key
      BY <1>2, <2>2, <2>6 DEF ControlOK, WorkersOK, Working, ExclusiveOwners, Events
    <3> QED
      BY <1>6, <2>3, <2>4, <2>6, <3>1
  <2> QED
    BY <1>4, <2>5, <2>6
<1>14. ASSUME NEW p \in Partitions, StorageFault(p)
       PROVE  SnapshotIsCurrent'
  BY <1>2, <1>8, <1>14, ReturnFacts DEF StorageFault, tables
<1>15. ASSUME NEW p \in Partitions, Backoff(p)
       PROVE  SnapshotIsCurrent'
  <2>1. /\ UNCHANGED tables
        /\ pc'[p] \notin {"states", "apply"}
        /\ \A q \in Partitions : q # p =>
             pc'[q] = pc[q] /\ event'[q] = event[q] /\ snap'[q] = snap[q]
    BY <1>2, <1>15 DEF Backoff, ControlOK, tables
  <2> QED
    BY <1>8, <2>1
<1>16. ASSUME NEW p \in Partitions, Abort(p)
       PROVE  SnapshotIsCurrent'
  BY <1>2, <1>8, <1>16, SettleFacts DEF Abort, tables
<1>18. ASSUME NEW p \in Partitions, DecideCancelled(p)
       PROVE  SnapshotIsCurrent'
  <2>1. Settle(p) \/ Fails(p)
    BY <1>18 DEF DecideCancelled
  <2> QED
    BY <1>2, <1>8, <1>18, <2>1, SettleFacts DEF DecideCancelled, tables
<1>17. CASE Cancel \/ UNCHANGED vars
  <2>1. UNCHANGED <<sessions, states, pc, event, snap>>
    BY <1>17 DEF Cancel, vars
  <2>2. \A q \in Partitions : Current(q)'
    BY <1>7, <2>1 DEF tables
  <2> QED
    BY <1>1, <1>4, <2>2 DEF CurrencyInv
<1> QED
  BY <1>1, <1>10, <1>11, <1>12, <1>13, <1>14, <1>15, <1>16, <1>17, <1>18
  DEF CurrencyInv, Next, Work, Stopped
(******************************* Theorems **********************************)

(* A key whose history is stored can always be loaded, whatever the        *)
(* interleaving, the routing and the timestamps: no event of it is         *)
(* dead-lettered because of what is in the tables.                         *)
THEOREM HistoryAlwaysLoads == Spec => []HistoryLoads
<1>1. TypeInv => HistoryLoads
  BY LoadSucceeds DEF TypeInv, StorageOK, HistoryLoads, FreshLoad
<1> QED
  BY <1>1, TypesAndStorage, PTL

(* With one owner per key CurrencyInv is an invariant, whatever the times: *)
(* a wrapped one is in the tables like any other.                          *)
THEOREM Currency ==
  ASSUME ExclusiveOwners
  PROVE  Spec => []CurrencyInv
<1>1. CurrencyInv /\ [Next]_vars => CurrencyInv'
  BY CurrencyNext
<1> QED
  BY <1>1, CurrencyInit, PTL DEF Spec

(* Between loading a snapshot and applying the mutation decided on it,     *)
(* nothing else changes what was loaded.                                   *)
THEOREM SnapshotsStayCurrent ==
  ASSUME ExclusiveOwners
  PROVE  Spec => []SnapshotIsCurrent
<1>1. CurrencyInv => SnapshotIsCurrent
  BY DEF CurrencyInv
<1> QED
  BY <1>1, Currency, PTL

(* No constraint of the schema and no row count refuses a mutation the     *)
(* domain has decided on at a time that fits in an int64 of nanoseconds,   *)
(* whatever times other events of the key have carried.  persistMutation   *)
(* trusts this also of the times that do not fit, where it fails.          *)
THEOREM DecisionsAreAccepted ==
  ASSUME ExclusiveOwners
  PROVE  Spec => []MutationsMeetConstraints
<1>1. CurrencyInv => MutationsMeetConstraints
  BY OutcomeFacts DEF MutationsMeetConstraints
<1> QED
  BY <1>1, Currency, PTL

LEMMA FailureNext ==
  ASSUME ExclusiveOwners, CurrencyInv, OnlyFarTimesStopWorkers, [Next]_vars
  PROVE  OnlyFarTimesStopWorkers'
<1>1. ControlOK
  BY DEF CurrencyInv, TypeInv, TypeOK, ControlOK
<1>2. CASE StorageFaults \/ ctxDone
  <2>1. ctxDone => ctxDone'
    BY DEF Next, Receive, Work, LoadSessionHistory, LoadStates, DecideAndApply, Backoff,
           Abort, DecideCancelled, StorageFault, Cancel, Stopped, vars
  <2> QED
    BY <1>2, <2>1 DEF OnlyFarTimesStopWorkers
<1>3. CASE ~StorageFaults /\ ~ctxDone
  <2>1. \A q \in Partitions : pc[q] = "failed" => ~Representable(event[q].at)
    BY <1>3 DEF OnlyFarTimesStopWorkers
  <2>2. ASSUME NEW p \in Partitions,
               pc'[p] = "failed" => ~Representable(event'[p].at),
               \A q \in Partitions : q # p => pc'[q] = pc[q] /\ event'[q] = event[q]
        PROVE  OnlyFarTimesStopWorkers'
    BY <2>1, <2>2 DEF OnlyFarTimesStopWorkers
  <2>3. ASSUME NEW p \in Partitions, Receive(p) PROVE OnlyFarTimesStopWorkers'
    <3>1. /\ pc'[p] = "attempt"
          /\ \A q \in Partitions : q # p => pc'[q] = pc[q] /\ event'[q] = event[q]
      BY <1>1, <2>3 DEF Receive, ControlOK
    <3> QED
      BY <2>2, <3>1
  <2>4. ASSUME NEW p \in Partitions, LoadSessionHistory(p) PROVE OnlyFarTimesStopWorkers'
    <3>1. event[p].key \in Keys
      BY <1>1, <2>4 DEF LoadSessionHistory, ControlOK, WorkersOK, Working, Events
    <3>2. LoadHistory(sessions, event[p].key).err = "none"
      BY <3>1, LoadSucceeds DEF CurrencyInv, TypeInv, StorageOK, FreshLoad
    <3>3. /\ pc' = [pc EXCEPT ![p] = "apply"] \/ pc' = [pc EXCEPT ![p] = "states"]
          /\ event' = event
      BY <2>4, <3>2 DEF LoadSessionHistory
    <3> QED
      BY <1>1, <2>2, <3>3 DEF ControlOK
  <2>5. ASSUME NEW p \in Partitions, LoadStates(p) PROVE OnlyFarTimesStopWorkers'
    <3>1. event[p].key \in Keys
      BY <1>1, <2>5 DEF LoadStates, ControlOK, WorkersOK, Working, Events
    <3>2. LoadHistory(sessions, event[p].key) = Loaded(snap[p]) /\ snap[p].active # NULL
      BY <1>1, <2>5 DEF LoadStates, CurrencyInv, SnapshotIsCurrent, ControlOK, WorkersOK
    <3>3. LoadActiveStates(states, snap[p]).err = "none"
      BY <3>1, <3>2, LoadSucceeds DEF CurrencyInv, TypeInv, StorageOK, FreshLoad, LoadCurrent, Loaded
    <3>4. pc' = [pc EXCEPT ![p] = "apply"] /\ event' = event
      BY <2>5, <3>3 DEF LoadStates
    <3> QED
      BY <1>1, <2>2, <3>4 DEF ControlOK
  <2>6. ASSUME NEW p \in Partitions, DecideAndApply(p) PROVE OnlyFarTimesStopWorkers'
    <3>1. PICK newID \in NewSessionIDs(sessions, event[p]) : Return(p, Outcome(p, newID).err)
      BY <2>6 DEF DecideAndApply
    <3> DEFINE err == Outcome(p, newID).err
    <3>2. Representable(event[p].at) => err = "none" \/ Permanent(err)
      BY <2>6, OutcomeFacts DEF DecideAndApply
    <3> HIDE DEF err
    <3>3. /\ pc'[p] = "failed" => event'[p] = event[p] /\ ~(err = "none" \/ Permanent(err))
          /\ \A q \in Partitions : q # p => pc'[q] = pc[q] /\ event'[q] = event[q]
      BY <1>1, <3>1, ReturnFacts DEF err
    <3> QED
      BY <2>2, <3>2, <3>3
  <2>7. ASSUME NEW p \in Partitions, Backoff(p) PROVE OnlyFarTimesStopWorkers'
    <3>1. /\ pc'[p] = "attempt"
          /\ \A q \in Partitions : q # p => pc'[q] = pc[q] /\ event'[q] = event[q]
      BY <1>1, <2>7 DEF Backoff, ControlOK
    <3> QED
      BY <2>2, <3>1
  <2>8. CASE Cancel
    BY <2>8 DEF Cancel, OnlyFarTimesStopWorkers
  <2>9. CASE UNCHANGED vars
    BY <2>9 DEF vars, OnlyFarTimesStopWorkers
  <2> QED
    BY <1>3, <2>3, <2>4, <2>5, <2>6, <2>7, <2>8, <2>9
    DEF Next, Work, Abort, DecideCancelled, StorageFault, Stopped
<1> QED
  BY <1>2, <1>3

(* Without storage faults and short of a shutdown, a worker fails only on  *)
(* an event whose own time does not fit in an int64 of nanoseconds (which  *)
(* NewEvent lets through), and never because of the other times, even the  *)
(* wrapped ones, that its key has seen.                                    *)
THEOREM OtherEventsNeverStopWorkers ==
  ASSUME ExclusiveOwners
  PROVE  Spec => []OnlyFarTimesStopWorkers
<1>1. Init => OnlyFarTimesStopWorkers
  BY DEF Init, OnlyFarTimesStopWorkers
<1>2. CurrencyInv /\ OnlyFarTimesStopWorkers /\ [Next]_vars => OnlyFarTimesStopWorkers'
  BY FailureNext
<1> QED
  BY <1>1, <1>2, Currency, PTL DEF Spec

(* A transaction that fails writes nothing.                                *)
LEMMA FailureWritesNothing ==
  ASSUME NEW p, NEW newID, Outcome(p, newID).err # "none"
  PROVE  Outcome(p, newID).sessions = sessions /\ Outcome(p, newID).states = states
BY DEF Outcome, ApplyMutation, Fail

LEMMA StepIsAtomic ==
  ASSUME ExclusiveOwners, CurrencyInv, [Next]_vars
  PROVE  /\ \A p \in Partitions : event[p] # NULL /\ event'[p] # event[p] => TakesEffect(p)
         /\ tables' # tables => \E p \in Partitions : event[p] # NULL /\ TakesEffect(p)
<1> DEFINE Settles == \A q \in Partitions : event[q] # NULL /\ event'[q] # event[q] => TakesEffect(q)
           Writes1 == tables' # tables => \E q \in Partitions : event[q] # NULL /\ TakesEffect(q)
<1>1. ControlOK
  BY DEF CurrencyInv, TypeInv, TypeOK, ControlOK
<1>2. ASSUME UNCHANGED tables, UNCHANGED event
      PROVE  Settles /\ Writes1
  BY <1>2
<1>3. ASSUME NEW p \in Partitions, UNCHANGED tables,
             \A q \in Partitions : q # p => event'[q] = event[q],
             event[p] # NULL /\ event'[p] # event[p] => TakesEffect(p)
      PROVE  Settles /\ Writes1
  BY <1>3
<1>4. ASSUME NEW p \in Partitions, Receive(p) PROVE Settles /\ Writes1
  <2>1. /\ UNCHANGED tables /\ event[p] = NULL
        /\ \A q \in Partitions : q # p => event'[q] = event[q]
    BY <1>1, <1>4 DEF Receive, ControlOK, WorkersOK, tables
  <2> QED
    BY <1>3, <2>1
<1>5. ASSUME NEW p \in Partitions, LoadSessionHistory(p) PROVE Settles /\ Writes1
  <2>1. event[p].key \in Keys
    BY <1>1, <1>5 DEF LoadSessionHistory, ControlOK, WorkersOK, Working, Events
  <2>2. LoadHistory(sessions, event[p].key).err = "none"
    BY <2>1, LoadSucceeds DEF CurrencyInv, TypeInv, StorageOK
  <2>3. UNCHANGED tables /\ UNCHANGED event
    BY <1>5, <2>2 DEF LoadSessionHistory, tables
  <2> QED
    BY <1>2, <2>3
<1>6. ASSUME NEW p \in Partitions, LoadStates(p) PROVE Settles /\ Writes1
  <2>1. event[p].key \in Keys
    BY <1>1, <1>6 DEF LoadStates, ControlOK, WorkersOK, Working, Events
  <2>2. LoadHistory(sessions, event[p].key) = Loaded(snap[p]) /\ snap[p].active # NULL
    BY <1>1, <1>6 DEF LoadStates, CurrencyInv, SnapshotIsCurrent, ControlOK, WorkersOK
  <2>3. LoadActiveStates(states, snap[p]).err = "none"
    BY <2>1, <2>2, LoadSucceeds DEF CurrencyInv, TypeInv, StorageOK, LoadCurrent, Loaded
  <2>4. UNCHANGED tables /\ UNCHANGED event
    BY <1>6, <2>3 DEF LoadStates, tables
  <2> QED
    BY <1>2, <2>4
<1>7. ASSUME NEW p \in Partitions, DecideAndApply(p) PROVE Settles /\ Writes1
  <2>1. PICK newID \in NewSessionIDs(sessions, event[p]) :
          /\ sessions' = Outcome(p, newID).sessions
          /\ states' = Outcome(p, newID).states
          /\ Return(p, Outcome(p, newID).err)
    BY <1>7 DEF DecideAndApply
  <2>2. pc[p] = "apply" /\ event[p] # NULL
    BY <1>1, <1>7, EventWorkersAssumption DEF DecideAndApply, ControlOK, WorkersOK, Working
  <2>3. Outcome(p, newID) = WholeEvent(p, newID)
    BY <2>2, OutcomeIsWhole
  <2> DEFINE err == Outcome(p, newID).err
  <2>4. err # "none" => UNCHANGED tables
    BY <2>1, FailureWritesNothing DEF tables
  <2>5. err = WholeEvent(p, newID).err
    BY <2>3
  <2> HIDE DEF err
  <2>6. /\ event'[p] # event[p] => event'[p] = NULL /\ (err = "none" \/ Permanent(err))
        /\ err = "none" => event'[p] = NULL
        /\ \A q \in Partitions : q # p => event'[q] = event[q]
    BY <1>1, <2>1, ReturnFacts DEF err
  <2>7. event'[p] = NULL /\ (err = "none" \/ Permanent(err)) => TakesEffect(p)
    <3>1. /\ sessions' = WholeEvent(p, newID).sessions
          /\ states' = WholeEvent(p, newID).states
      BY <2>1, <2>3
    <3> QED
      BY <2>5, <3>1 DEF TakesEffect, Permanent
  <2>8. Settles
    BY <2>6, <2>7
  <2>9. Writes1
    BY <2>2, <2>4, <2>6, <2>7
  <2> QED
    BY <2>8, <2>9
<1>8. ASSUME NEW p \in Partitions, DecideCancelled(p) PROVE Settles /\ Writes1
  <2>1. PICK newID \in NewSessionIDs(sessions, event[p]) :
          IF Permanent(Decision(p, newID).kind) THEN Settle(p) ELSE Fails(p)
    BY <1>8 DEF DecideCancelled
  <2>2. pc[p] = "apply" /\ UNCHANGED tables
    BY <1>8 DEF DecideCancelled, tables
  <2>3. CASE Permanent(Decision(p, newID).kind)
    <3>1. Outcome(p, newID)
            = [err |-> Decision(p, newID).kind, sessions |-> sessions, states |-> states]
      BY <2>3 DEF Outcome
    <3>2. Outcome(p, newID) = WholeEvent(p, newID)
      BY <2>2, OutcomeIsWhole
    <3>3. /\ WholeEvent(p, newID).err \in DomainErrors
          /\ WholeEvent(p, newID).sessions = sessions
          /\ WholeEvent(p, newID).states = states
      BY <2>3, <3>1, <3>2 DEF Permanent
    <3>4. event'[p] = NULL /\ \A q \in Partitions : q # p => event'[q] = event[q]
      BY <1>1, <2>1, <2>3 DEF Settle, ControlOK
    <3>5. TakesEffect(p)
      BY <2>2, <3>3, <3>4 DEF TakesEffect, tables
    <3> QED
      BY <1>3, <2>2, <3>4, <3>5
  <2>4. CASE ~Permanent(Decision(p, newID).kind)
    <3>1. UNCHANGED event
      BY <2>1, <2>4 DEF Fails
    <3> QED
      BY <1>2, <2>2, <3>1
  <2> QED
    BY <2>3, <2>4
<1>9. ASSUME NEW p \in Partitions, StorageFault(p) PROVE Settles /\ Writes1
  <2>1. UNCHANGED tables /\ UNCHANGED event
    BY <1>9 DEF StorageFault, Return, Permanent, DomainErrors, tables
  <2> QED
    BY <1>2, <2>1
<1>10. ASSUME NEW p \in Partitions, Backoff(p) \/ Abort(p) PROVE Settles /\ Writes1
  <2>1. UNCHANGED tables /\ UNCHANGED event
    BY <1>10 DEF Backoff, Abort, Fails, tables
  <2> QED
    BY <1>2, <2>1
<1>11. CASE Cancel \/ UNCHANGED vars
  <2>1. UNCHANGED tables /\ UNCHANGED event
    BY <1>11 DEF Cancel, vars, tables
  <2> QED
    BY <1>2, <2>1
<1>12. Settles /\ Writes1
  BY <1>4, <1>5, <1>6, <1>7, <1>8, <1>9, <1>10, <1>11 DEF Next, Work, Stopped
<1> QED
  BY <1>12

(* With one owner per key, load, decision and transaction, however other   *)
(* workers, faults, retries and a shutdown come in between, amount to      *)
(* ApplyEvent at the instant the event is settled; nothing else ever       *)
(* changes a table, and no failure of the storage rejects an event.        *)
THEOREM EventsAreAtomic ==
  ASSUME ExclusiveOwners
  PROVE  Spec => EventsTakeEffectAtomically
<1>1. CurrencyInv /\ [Next]_vars =>
        [/\ \A p \in Partitions : event[p] # NULL /\ event'[p] # event[p] => TakesEffect(p)
         /\ tables' # tables => \E p \in Partitions : event[p] # NULL /\ TakesEffect(p)]_vars
  BY StepIsAtomic
<1> QED
  BY <1>1, Currency, PTL DEF Spec, EventsTakeEffectAtomically

(* Only the transaction of a worker writes.                                *)
LEMMA OnlyApplyWrites ==
  ASSUME [Next]_vars
  PROVE  UNCHANGED tables \/ \E p \in Partitions : DecideAndApply(p)
BY DEF Next, Work, Receive, LoadSessionHistory, LoadStates, Backoff, Abort, DecideCancelled,
       StorageFault, Cancel, Stopped, tables, vars

(* The sessions of a key stay apart, if no time wraps around.              *)
LEMMA SafetyNext ==
  ASSUME ExclusiveOwners, RepresentableTimes, SafetyInv, [Next]_vars
  PROVE  SafetyInv'
<1>1. CurrencyInv'
  BY CurrencyNext DEF SafetyInv
<1>2. CASE UNCHANGED tables
  BY <1>1, <1>2 DEF SafetyInv, LifecyclesDisjoint, tables
<1>3. ASSUME NEW p \in Partitions, DecideAndApply(p) PROVE SafetyInv'
  <2>1. PICK newID \in NewSessionIDs(sessions, event[p]) : sessions' = Outcome(p, newID).sessions
    BY <1>3 DEF DecideAndApply
  <2>2. Ready(sessions, states, snap[p], event[p], newID)
    BY <1>3, WorkerReady DEF SafetyInv, DecideAndApply
  <2>3. SessionsDisjoint(sessions')
    BY <2>1, <2>2, OutcomeIs, AppliedFacts DEF SafetyInv, LifecyclesDisjoint
  <2> QED
    BY <1>1, <2>3 DEF SafetyInv, LifecyclesDisjoint
<1> QED
  BY <1>2, <1>3, OnlyApplyWrites

(* With one owner per key and timestamps an int64 of nanoseconds can hold, *)
(* SafetyInv is an invariant.                                              *)
THEOREM Safety ==
  ASSUME ExclusiveOwners, RepresentableTimes
  PROVE  Spec => []SafetyInv
<1>1. Init => SafetyInv
  BY CurrencyInit DEF SafetyInv, Init, LifecyclesDisjoint, SessionsDisjoint
<1>2. SafetyInv /\ [Next]_vars => SafetyInv'
  BY SafetyNext
<1> QED
  BY <1>1, <1>2, PTL DEF Spec

(* No two sessions of a key ever overlap.                                  *)
THEOREM SessionsNeverOverlap ==
  ASSUME ExclusiveOwners, RepresentableTimes
  PROVE  Spec => []LifecyclesDisjoint
<1>1. SafetyInv => LifecyclesDisjoint
  BY DEF SafetyInv
<1> QED
  BY <1>1, Safety, PTL
-----------------------------------------------------------------------------
(******************* The past never changes, states tile *******************)

(* Deciding and applying has one of the effects of ApplyEffects on the     *)
(* tables, whatever snapshot the decision was made on.                     *)
LEMMA OutcomeEffect ==
  ASSUME TypeInv, NEW p \in Partitions, pc[p] = "apply",
         NEW newID \in NewSessionIDs(sessions, event[p])
  PROVE  Effect(sessions, states, Outcome(p, newID).sessions, Outcome(p, newID).states,
                Outcome(p, newID).err, event[p].key, Decision(p, newID))
<1>1. event[p] \in Events /\ snap[p] \in Snapshot /\ StoreOK(sessions, states)
  BY DEF TypeInv, TypeOK, WorkersOK, Working, StorageOK
<1> QED
  BY <1>1, OutcomeIs, AppliedType DEF Decision

(* Whatever a step is, it leaves the tables alone or has such an effect.   *)
LEMMA TableSteps ==
  ASSUME TypeInv, [Next]_vars
  PROVE  UNCHANGED tables \/ Changes(sessions, states, sessions', states')
<1>1. ASSUME NEW p \in Partitions, DecideAndApply(p)
      PROVE  UNCHANGED tables \/ Changes(sessions, states, sessions', states')
  <2>1. PICK newID \in NewSessionIDs(sessions, event[p]) :
          sessions' = Outcome(p, newID).sessions /\ states' = Outcome(p, newID).states
    BY <1>1 DEF DecideAndApply
  <2>2. Effect(sessions, states, sessions', states', Outcome(p, newID).err,
               event[p].key, Decision(p, newID))
    BY <1>1, <2>1, OutcomeEffect DEF DecideAndApply
  <2> QED
    BY <2>2 DEF Effect, Changes, tables
<1> QED
  BY <1>1, OnlyApplyWrites

(* However workers interleave and whatever they have loaded, applyMutation *)
(* rewrites nothing that has ended: ended sessions and states keep every   *)
(* field, an open one keeps its beginning.                                 *)
THEOREM PastIsKept == Spec => HistoryIsImmutable
<1>1. ASSUME TypeInv, [Next]_vars
      PROVE  UNCHANGED vars \/ Appends(sessions, states, sessions', states')
  <2>1. StoreOK(sessions, states)
    BY <1>1 DEF TypeInv, StorageOK
  <2>2. CASE UNCHANGED tables
    <3>1. \A s \in states : s = [s EXCEPT !.validTo = s.validTo]
      BY <2>1 DEF StoreOK, StateRow
    <3> QED
      BY <2>2, <3>1 DEF tables, Appends
  <2> QED
    BY <1>1, <2>1, <2>2, ChangesAppend, TableSteps
<1>2. TypeInv /\ [Next]_vars =>
        [/\ \A s \in sessions :
               \E q \in sessions' :
                 /\ q.id = s.id /\ q.key = s.key /\ q.loginAt = s.loginAt
                 /\ s.logoutAt # NULL => q = s
         /\ \A s \in states :
               \E q \in states' :
                 /\ q = [s EXCEPT !.validTo = q.validTo]
                 /\ s.validTo # NULL => q = s]_vars
  BY <1>1 DEF Appends
<1> QED
  BY <1>2, TypesAndStorage, PTL DEF Spec, HistoryIsImmutable

(* The states of every session tile it, with no gap and no overlap:        *)
(* closeCurrentState, insertState and the update of the session stay       *)
(* together whatever happens between transactions.                         *)
THEOREM SessionsAreTiled == Spec => []StatesTileSession
<1>1. StatesTileSession <=> Tiled(sessions, states)
  BY DEF StatesTileSession, NextState, Tiled, Tiles, Chained, ComesNext
<1>2. Init => Tiled(sessions, states)
  BY DEF Init, Tiled
<1>3. TypeInv /\ Tiled(sessions, states) /\ [Next]_vars => Tiled(sessions, states)'
  <2> SUFFICES ASSUME TypeInv, Tiled(sessions, states), [Next]_vars
               PROVE  Tiled(sessions', states')
    OBVIOUS
  <2>1. CASE UNCHANGED tables
    BY <2>1 DEF tables
  <2>2. CASE Changes(sessions, states, sessions', states')
    BY <2>2, ChangesTile DEF TypeInv, StorageOK
  <2> QED
    BY <2>1, <2>2, TableSteps
<1> QED
  BY <1>1, <1>2, <1>3, TypesAndStorage, PTL DEF Spec
=============================================================================
