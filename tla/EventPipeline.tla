--------------------------- MODULE EventPipeline ----------------------------
(***************************************************************************)
(* Source, service and store as one process that may stop and start again. *)
(* The log and the committed offsets outlive the process; the database is  *)
(* in memory and does not.                                                 *)
(*                                                                         *)
(* A record is handled in one step here: EventWorkers shows that its loads *)
(* and its transaction act on the same rows, and KafkaSource that records  *)
(* are handled in order and committed afterwards.  An event is appended to *)
(* the log when it is first delivered.                                     *)
(***************************************************************************)
EXTENDS SessionService, Sequences

CONSTANTS
  Partitions,
  Owner,         \* key -> the partition of its events
  MaxLog,        \* bound: events per partition
  MaxRestarts    \* bound: times the process stops and starts again

ASSUME PipelineAssumption ==
  /\ Owner \in [Keys -> Partitions]
  /\ RepresentableTimes
  /\ MaxLog \in Nat /\ MaxRestarts \in Nat
  /\ NULL \notin [login : Int, from : Int, tags : TagSets \cup {{}},
                 periods : SUBSET [from : Int, to : Int, tags : TagSets \cup {{}}]]

VARIABLES
  log,        \* external: partition -> its events
  committed,  \* external: partition -> number of events acknowledged
  base,       \* partition -> number of events before this run
  done,       \* partition -> number of events handled, in this run or before
  sessions, states,
  accepted,   \* history: places in the log of the events ever accepted
  refused,    \* history: places in the log of the events ever dead-lettered
  restarts

vars == <<log, committed, base, done, sessions, states, accepted, refused, restarts>>

Places == Partitions \X (1..MaxLog)

Init ==
  /\ log = [p \in Partitions |-> <<>>]
  /\ committed = [p \in Partitions |-> 0]
  /\ base = [p \in Partitions |-> 0]
  /\ done = [p \in Partitions |-> 0]
  /\ sessions = {} /\ states = {}
  /\ accepted = {} /\ refused = {}
  /\ restarts = 0

(* The next record of partition p is applied, or dead-lettered.            *)
Deliver(p, e) ==
  /\ \E newID \in NewSessionIDs(sessions, e) :
       \E result \in {ApplyEvent(sessions, states, e, newID)} :
       LET place == {<<p, done[p] + 1>>} IN
       /\ result.err \in {"none"} \cup DomainErrors
       /\ sessions' = result.sessions
       /\ states' = result.states
       /\ accepted' = IF result.err = "none" THEN accepted \cup place ELSE accepted
       /\ refused' = IF result.err = "none" THEN refused ELSE refused \cup place
  /\ done' = [done EXCEPT ![p] = @ + 1]
  /\ UNCHANGED <<committed, base, restarts>>

HandleNew(p) ==
  /\ done[p] = Len(log[p]) /\ Len(log[p]) < MaxLog
  /\ \E e \in Events :
       /\ Owner[e.key] = p
       /\ Deliver(p, e)
       /\ log' = [log EXCEPT ![p] = Append(@, e)]

HandleAgain(p) ==
  /\ done[p] < Len(log[p])
  /\ Deliver(p, log[p][done[p] + 1])
  /\ UNCHANGED log

CommitBatch ==
  /\ committed # done
  /\ committed' = done
  /\ UNCHANGED <<log, base, done, sessions, states, accepted, refused, restarts>>

(* Slip: the database is kept, though offsets and tables do not agree. *)
RestartOnOldTables ==
  /\ restarts < MaxRestarts
  /\ restarts' = restarts + 1
  /\ base' = committed
  /\ done' = committed
  /\ UNCHANGED <<log, committed, sessions, states, accepted, refused>>

(* A failed event or commit, or a shutdown, ends the process.  The next    *)
(* one opens an empty database and goes on at the committed offsets.       *)
Restart ==
  /\ restarts < MaxRestarts
  /\ restarts' = restarts + 1
  /\ sessions' = {} /\ states' = {}
  /\ base' = committed
  /\ done' = committed
  /\ UNCHANGED <<log, committed, accepted, refused>>

Next == \/ \E p \in Partitions : HandleNew(p) \/ HandleAgain(p)
        \/ CommitBatch \/ Restart

Spec == Init /\ [][Next]_vars
-----------------------------------------------------------------------------
(*************************** What must be true *****************************)

TypeOK ==
  /\ log \in [Partitions -> Seq(Events)]
  /\ \A p \in Partitions : committed[p] \in 0..Len(log[p]) /\ done[p] \in 0..Len(log[p])
  /\ \A p \in Partitions : base[p] \in 0..done[p] /\ Len(log[p]) <= MaxLog
  /\ sessions \subseteq SessionRow /\ states \subseteq StateRow
  /\ accepted \subseteq Places /\ refused \subseteq Places
  /\ restarts \in 0..MaxRestarts

(* What a sequence of events of one key means: its ended sessions, its     *)
(* open one, and the time and the id of the last event that counted.       *)
Blankness == [ended |-> {}, open |-> NULL, clock |-> NULL, lastID |-> NULL]

Counts(history, e) ==
  /\ e.eventID # history.lastID
  /\ history.clock = NULL \/ history.clock <= e.at
  /\ (e.type = "LOGIN") <=> (history.open = NULL)
  /\ ~TagsAreBlank(e.tags)

Period(open, to) == [from |-> open.from, to |-> to, tags |-> open.tags]

After(history, e) ==
  IF ~Counts(history, e) THEN history
  ELSE LET open == history.open IN
  [clock  |-> e.at,
   lastID |-> e.eventID,
   open   |-> CASE e.type = "LOGIN"  -> [login |-> e.at, from |-> e.at, tags |-> e.tags,
                                         periods |-> {}]
                [] e.type = "UPDATE" -> [login |-> open.login, from |-> e.at, tags |-> e.tags,
                                         periods |-> open.periods \cup {Period(open, e.at)}]
                [] e.type = "LOGOUT" -> NULL,
   ended  |-> IF e.type # "LOGOUT" THEN history.ended
              ELSE history.ended \cup
                {[login |-> open.login, logout |-> e.at, lastID |-> e.eventID,
                  periods |-> open.periods \cup {Period(open, e.at)}]}]

Meaning(key) ==
  LET p == Owner[key]
      h[n \in base[p]..done[p]] ==
        IF n = base[p] THEN Blankness
        ELSE IF log[p][n].key # key THEN h[n - 1] ELSE After(h[n - 1], log[p][n])
  IN  h[done[p]]

(* The sessions the key has in the tables, and those its events mean.      *)
Stored(key) ==
  {[login |-> s.loginAt, logout |-> s.logoutAt, lastID |-> s.lastEventID,
    periods |-> {Period([from |-> r.validFrom, tags |-> r.tags], r.validTo) :
                   r \in StatesOf(states, s.id)}] : s \in SessionsOf(sessions, key)}

Meant(key) ==
  LET h == Meaning(key) IN
  h.ended \cup
  IF h.open = NULL THEN {}
  ELSE {[login |-> h.open.login, logout |-> NULL, lastID |-> h.lastID,
         periods |-> h.open.periods \cup {Period(h.open, NULL)}]}

(* What the tables hold of a key is what the key's own events of this run  *)
(* mean, in the order of their partition, however the events of the keys   *)
(* were interleaved.  (Keys whose sessions tie are apart: EventWorkers.)   *)
TablesMeanTheLog ==
  \A k \in Keys : ~LoginsTie(sessions, k) => Stored(k) = Meant(k)

(* Redelivery from the first record on rebuilds what was lost: no event    *)
(* handled so far is accepted by one process and dead-lettered by another. *)
ReplayFromTheStartIsSafe ==
  \A p \in Partitions :
    /\ base[p] = 0
    /\ \A k \in Keys : Owner[k] = p => ~LoginsTie(sessions, k)
    => accepted \cap refused \cap ({p} \X (1..done[p])) = {}

(* What the tables become when the records from place m to place n of     *)
(* partition p are handled once more, every login drawing newID.           *)
HandledAgain(p, m, n, newID) ==
  LET after[i \in (m - 1)..n] ==
        IF i < m THEN [sessions |-> sessions, states |-> states]
        ELSE LET before == after[i - 1] IN
             ApplyEvent(before.sessions, before.states, log[p][i], newID)
      last == after[n]
  IN  <<last.sessions, last.states>>

(* This run has handled the events of each key in the order they happened, *)
(* no two of them at one instant.                                          *)
TimesIncrease(p) ==
  \A i, j \in (base[p] + 1)..done[p] :
    i < j /\ log[p][i].key = log[p][j].key => log[p][i].at < log[p][j].at

(* Delivery is at least once and only the last event id is remembered, so  *)
(* a stretch of records that comes again is recognised by its timestamps:  *)
(* whichever records of the run a source hands over again, and however     *)
(* they ended the first time, they leave the tables as they are, as long   *)
(* as the events of a key came in the order they happened.  (An event that *)
(* was dead-lettered early, such as an update that came before its login,  *)
(* is accepted when it is repeated.)                                       *)
RepeatsChangeNothing ==
  \A p \in Partitions : TimesIncrease(p) =>
    \A m, n \in (base[p] + 1)..done[p] : m <= n =>
      \A newID \in SessionIDs : HandledAgain(p, m, n, newID) = <<sessions, states>>

(* Redelivery after a restart is safe in general: the plan of the project  *)
(* says that recognising duplicates makes it so.                           *)
RedeliveryIsSafe == accepted \cap refused = {}
=============================================================================
