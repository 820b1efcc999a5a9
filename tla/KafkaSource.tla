---------------------------- MODULE KafkaSource ----------------------------
(***************************************************************************)
(* The Kafka source: Consume's loop of poll, processBatch, commit and      *)
(* allowRebalance, in each process that runs it.  processBatch starts one  *)
(* worker per partition of the batch; a worker hands its records to the    *)
(* handler one after the other and stops at the first error.               *)
(*                                                                         *)
(* The broker, the consumer group and the franz-go client are external:    *)
(* they assign partitions, keep the committed offsets, and refuse a commit *)
(* from a process that is no longer a member.  A record is its offset.     *)
(***************************************************************************)
EXTENDS Integers, FiniteSets

CONSTANTS
  Members,       \* processes that may run the source
  Partitions,
  NoMember,
  MaxPoll,       \* Options.MaxPollRecords
  Failures,      \* TRUE when handlers, polls and commits may fail
  Interruptions, \* TRUE when processes may be shut down, evicted or killed
  MaxOffset,     \* bound: records per partition
  MaxStarts,     \* bound: times a process is started
  MaxMoves       \* bound: times a partition is taken from one member for another

ASSUME KafkaAssumption ==
  /\ NoMember \notin Members
  /\ MaxPoll \in Nat \ {0}
  /\ Failures \in BOOLEAN /\ Interruptions \in BOOLEAN
  /\ MaxOffset \in Nat /\ MaxStarts \in Nat /\ MaxMoves \in Nat

VARIABLES
  end,        \* external: partition -> records produced
  committed,  \* external: partition -> the group's committed offset
  owner,      \* external: partition -> the member it is assigned to
  group,      \* external: the members of the group
  position,   \* external: member -> partition -> next offset to fetch
  blocked,    \* external: member -> rebalances wait for AllowRebalance
  pc,         \* member -> where Consume is
  batch,      \* member -> partition -> its records, from first up to last,
              \* and the next one to handle
  failed,     \* member -> partitions whose worker has stopped at an error
  ctxDone,    \* member -> its context is cancelled
  closed,     \* member -> Close has been called
  handled,    \* history: partition -> offsets handled without an error
  starts, moves

client  == <<position, blocked>>
broker  == <<end, committed, owner, group, moves>>
consume == <<pc, batch, failed>>
process == <<ctxDone, closed, starts>>
vars == <<end, committed, owner, group, position, blocked, pc, batch, failed,
          ctxDone, closed, handled, starts, moves>>

NoRecords == [first |-> 0, next |-> 0, last |-> 0]
Nothing == [p \in Partitions |-> NoRecords]

Init ==
  /\ end = [p \in Partitions |-> 0]
  /\ committed = [p \in Partitions |-> 0]
  /\ owner = [p \in Partitions |-> NoMember]
  /\ group = {}
  /\ position = [m \in Members |-> [p \in Partitions |-> 0]]
  /\ blocked = [m \in Members |-> FALSE]
  /\ pc = [m \in Members |-> "down"]
  /\ batch = [m \in Members |-> Nothing]
  /\ failed = [m \in Members |-> {}]
  /\ ctxDone = [m \in Members |-> FALSE]
  /\ closed = [m \in Members |-> FALSE]
  /\ handled = [p \in Partitions |-> {}]
  /\ starts = 0
  /\ moves = 0
-----------------------------------------------------------------------------
(******************************** external *********************************)

Produce(p) ==
  /\ end[p] < MaxOffset
  /\ end' = [end EXCEPT ![p] = @ + 1]
  /\ UNCHANGED <<committed, owner, group, client, consume, process, handled, moves>>

(* A rebalance hands p to m.  Both the member that loses it and the one    *)
(* that gets it take part, so neither may be blocking rebalances; m then   *)
(* fetches from the committed offset.                                      *)
Rebalance(p, m) ==
  /\ owner[p] = NoMember \/ moves < MaxMoves
  /\ m \in group /\ owner[p] # m
  /\ ~blocked[m]
  /\ owner[p] # NoMember => ~blocked[owner[p]]
  /\ owner' = [owner EXCEPT ![p] = m]
  /\ position' = [position EXCEPT ![m][p] = committed[p]]
  /\ moves' = IF owner[p] = NoMember THEN moves ELSE moves + 1
  /\ UNCHANGED <<end, committed, group, blocked, consume, process, handled>>

Unassigned(m) == [p \in Partitions |-> IF owner[p] = m THEN NoMember ELSE owner[p]]

(* The group drops a member that is dead, or has kept a rebalance waiting  *)
(* for longer than the rebalance timeout.                                  *)
Evict(m) ==
  /\ Interruptions
  /\ m \in group
  /\ pc[m] = "down" \/ blocked[m]
  /\ group' = group \ {m}
  /\ owner' = Unassigned(m)
  /\ UNCHANGED <<end, committed, client, consume, process, handled, moves>>

(* A client that finds itself dropped joins again when it next polls. *)
Rejoin(m) ==
  /\ pc[m] = "poll" /\ ~closed[m] /\ m \notin group
  /\ group' = group \cup {m}
  /\ UNCHANGED <<end, committed, owner, client, consume, process, handled, moves>>
-----------------------------------------------------------------------------
(*************************** the source's process **************************)

Stop(m) ==
  /\ pc' = [pc EXCEPT ![m] = "stopped"]
  /\ batch' = [batch EXCEPT ![m] = Nothing]
  /\ failed' = [failed EXCEPT ![m] = {}]

(* New joins the group, without committing offsets automatically. *)
New(m) ==
  /\ pc[m] = "down" /\ m \notin group
  /\ starts < MaxStarts
  /\ starts' = starts + 1
  /\ pc' = [pc EXCEPT ![m] = "poll"]
  /\ group' = group \cup {m}
  /\ UNCHANGED <<end, committed, owner, client, batch, failed, ctxDone, closed, handled,
                 moves>>

(* The records of partition p up to offset `last', all of them unhandled. *)
Fetch(m, p, last) ==
  IF owner[p] # m \/ last = position[m][p] THEN NoRecords
  ELSE [first |-> position[m][p], next |-> position[m][p], last |-> last]

BatchSize(b) ==
  Cardinality({r \in Partitions \X (0..MaxOffset) :
                 b[r[1]].first <= r[2] /\ r[2] < b[r[1]].last})

(* Slip: the client is made without BlockRebalanceOnPoll. *)
NotBlocking(m) == blocked

Blocking(m) == [blocked EXCEPT ![m] = TRUE]

(* Up to MaxPoll records of the assigned partitions.  From here until      *)
(* AllowRebalance the client blocks rebalances.                            *)
Poll(m) ==
  /\ pc[m] = "poll" /\ ~ctxDone[m] /\ ~closed[m]
  /\ \E last \in [Partitions -> 0..MaxOffset] :
       LET fetched == [p \in Partitions |-> Fetch(m, p, last[p])] IN
       /\ \A p \in Partitions : position[m][p] <= last[p]
       /\ \A p \in Partitions :
            last[p] <= IF owner[p] = m THEN end[p] ELSE position[m][p]
       /\ BatchSize(fetched) \in 1..MaxPoll
       /\ batch' = [batch EXCEPT ![m] = fetched]
       /\ position' = [position EXCEPT ![m] = last]
  /\ blocked' = Blocking(m)
  /\ pc' = [pc EXCEPT ![m] = "process"]
  /\ UNCHANGED <<broker, failed, process, handled>>

(* A poll that returns an error ends Consume, records or no records; so    *)
(* does one on a closed client or with a cancelled context.                *)
PollEnds(m) ==
  /\ pc[m] = "poll"
  /\ Failures \/ ctxDone[m] \/ closed[m]
  /\ Stop(m)
  /\ UNCHANGED <<broker, client, process, handled>>

(* Slip: one record too many. *)
RunningOver(m, p) ==
  pc[m] = "process" /\ p \notin failed[m] /\ batch[m][p].next <= batch[m][p].last

Running(m, p) ==
  pc[m] = "process" /\ p \notin failed[m] /\ batch[m][p].next < batch[m][p].last

(* The handler returns nil: the record is applied or dead-lettered. *)
HandleRecord(m, p) ==
  /\ Running(m, p)
  /\ handled' = [handled EXCEPT ![p] = @ \cup {batch[m][p].next}]
  /\ batch' = [batch EXCEPT ![m][p].next = @ + 1]
  /\ UNCHANGED <<broker, client, pc, failed, process>>

(* Slip: the worker goes on with the next record. *)
HandleFailsOnce(m, p) ==
  /\ Running(m, p)
  /\ Failures \/ ctxDone[m]
  /\ batch' = [batch EXCEPT ![m][p].next = @ + 1]
  /\ UNCHANGED <<broker, client, pc, failed, process, handled>>

(* The handler has run out of attempts or sees its context cancelled: the  *)
(* worker leaves the rest of its partition's records alone.                *)
HandleFails(m, p) ==
  /\ Running(m, p)
  /\ Failures \/ ctxDone[m]
  /\ failed' = [failed EXCEPT ![m] = @ \cup {p}]
  /\ UNCHANGED <<broker, client, pc, batch, process, handled>>

(* Slip: room for the first error only. *)
RoomForOne(m) == 1

(* The channel errorsFound has room for an error of each partition of the  *)
(* batch.                                                                  *)
Room(m) == Cardinality({p \in Partitions : batch[m][p] # NoRecords})

(* A failed worker sends its error into errorsFound before it is done, and *)
(* nobody receives before all workers are done: those for whose error      *)
(* there is no room stay blocked.                                          *)
WorkersDone(m) ==
  /\ \A p \in Partitions : ~Running(m, p)
  /\ Cardinality(failed[m]) <= Room(m)

(* Slip: errors of the workers are not looked at. *)
BatchDoneAnyway(m) ==
  /\ pc[m] = "process"
  /\ WorkersDone(m)
  /\ pc' = [pc EXCEPT ![m] = "commit"]
  /\ UNCHANGED <<broker, client, batch, failed, process, handled>>

(* workers.Wait, and an error in the channel fails the batch. *)
BatchDone(m) ==
  /\ pc[m] = "process"
  /\ WorkersDone(m)
  /\ IF failed[m] # {} THEN Stop(m)
     ELSE pc' = [pc EXCEPT ![m] = "commit"] /\ UNCHANGED <<batch, failed>>
  /\ UNCHANGED <<broker, client, process, handled>>

(* CommitRecords: the offset after the last record of each partition of    *)
(* the batch.                                                              *)
Committed(m) ==
  [p \in Partitions |->
     IF batch[m][p] = NoRecords THEN committed[p] ELSE batch[m][p].last]

(* The broker accepts a commit only from a member. *)
CanCommit(m) == pc[m] = "commit" /\ m \in group /\ ~closed[m]

Commit(m) ==
  /\ CanCommit(m)
  /\ committed' = Committed(m)
  /\ pc' = [pc EXCEPT ![m] = "release"]
  /\ UNCHANGED <<end, owner, group, client, batch, failed, process, handled, moves>>

(* A commit that fails ends Consume. *)
CommitFails(m) ==
  /\ pc[m] = "commit"
  /\ Failures \/ ctxDone[m] \/ ~CanCommit(m)
  /\ Stop(m)
  /\ UNCHANGED <<broker, client, process, handled>>

(* So does one that succeeds but whose answer is lost. *)
CommitAnswerLost(m) ==
  /\ Failures
  /\ CanCommit(m)
  /\ committed' = Committed(m)
  /\ Stop(m)
  /\ UNCHANGED <<end, owner, group, client, process, handled, moves>>

(* Slip: AllowRebalance is not called. *)
KeepBlocking(m) ==
  /\ pc[m] = "release"
  /\ pc' = [pc EXCEPT ![m] = "poll"]
  /\ batch' = [batch EXCEPT ![m] = Nothing]
  /\ UNCHANGED <<broker, client, failed, process, handled>>

AllowRebalance(m) ==
  /\ pc[m] = "release"
  /\ blocked' = [blocked EXCEPT ![m] = FALSE]
  /\ pc' = [pc EXCEPT ![m] = "poll"]
  /\ batch' = [batch EXCEPT ![m] = Nothing]
  /\ UNCHANGED <<broker, position, failed, process, handled>>

(* A shutdown signal cancels the context of Consume and its handlers. *)
Cancel(m) ==
  /\ Interruptions
  /\ pc[m] # "down" /\ ~ctxDone[m]
  /\ ctxDone' = [ctxDone EXCEPT ![m] = TRUE]
  /\ UNCHANGED <<broker, client, consume, closed, starts, handled>>

(* The runtime closes the source once the context is cancelled, Consume    *)
(* has returned, or the HTTP server has stopped (which cancels nothing).   *)
(* The client leaves the group even if a batch is being processed.         *)
Close(m) ==
  /\ pc[m] # "down" /\ ~closed[m]
  /\ ctxDone[m] \/ pc[m] = "stopped" \/ Interruptions
  /\ closed' = [closed EXCEPT ![m] = TRUE]
  /\ group' = group \ {m}
  /\ owner' = Unassigned(m)
  /\ blocked' = [blocked EXCEPT ![m] = FALSE]
  /\ UNCHANGED <<end, committed, position, consume, ctxDone, starts, handled, moves>>

(* The process ends: normally once Consume has returned, after the         *)
(* shutdown timeout while workers are still running, or killed; nothing of *)
(* its state is left for the next one.                                     *)
Exit(m) ==
  /\ pc[m] # "down"
  /\ (closed[m] /\ pc[m] = "stopped") \/ Interruptions
  /\ pc' = [pc EXCEPT ![m] = "down"]
  /\ batch' = [batch EXCEPT ![m] = Nothing]
  /\ failed' = [failed EXCEPT ![m] = {}]
  /\ blocked' = [blocked EXCEPT ![m] = FALSE]
  /\ ctxDone' = [ctxDone EXCEPT ![m] = FALSE]
  /\ closed' = [closed EXCEPT ![m] = FALSE]
  /\ UNCHANGED <<broker, position, starts, handled>>

Consume(m) ==
  \/ Poll(m) \/ PollEnds(m)
  \/ \E p \in Partitions : HandleRecord(m, p) \/ HandleFails(m, p)
  \/ BatchDone(m) \/ Commit(m) \/ CommitFails(m) \/ CommitAnswerLost(m)
  \/ AllowRebalance(m)

Next ==
  \/ \E p \in Partitions : Produce(p) \/ \E m \in Members : Rebalance(p, m)
  \/ \E m \in Members :
       \/ New(m) \/ Rejoin(m) \/ Evict(m)
       \/ Consume(m) \/ Cancel(m) \/ Close(m) \/ Exit(m)

(* The context is cancelled or the client closed: the poll returns. *)
PollReturns(m) == (ctxDone[m] \/ closed[m]) /\ PollEnds(m)

(* The runtime's select on the result of Consume. *)
CloseStopped(m) == pc[m] = "stopped" /\ Close(m)

(* Goroutines run and the client's calls return; a group that has a member *)
(* assigns it the partitions; the runtime closes a source that has         *)
(* stopped.  Nothing obliges a producer, a start, a failure or a shutdown. *)
Fairness ==
  \A m \in Members :
    /\ WF_vars(Poll(m)) /\ WF_vars(PollReturns(m)) /\ WF_vars(BatchDone(m))
    /\ WF_vars(Commit(m) \/ CommitFails(m)) /\ WF_vars(AllowRebalance(m))
    /\ WF_vars(CloseStopped(m))
    /\ \A p \in Partitions :
         /\ WF_vars(HandleRecord(m, p) \/ HandleFails(m, p))
         /\ WF_vars(Rebalance(p, m))

Spec == Init /\ [][Next]_vars /\ Fairness
-----------------------------------------------------------------------------
(*************************** What must be true *****************************)

Offsets(from, to) == {o \in 0..MaxOffset : from <= o /\ o < to}

TypeOK ==
  /\ end \in [Partitions -> 0..MaxOffset]
  /\ committed \in [Partitions -> 0..MaxOffset]
  /\ owner \in [Partitions -> Members \cup {NoMember}]
  /\ group \subseteq Members
  /\ position \in [Members -> [Partitions -> 0..MaxOffset]]
  /\ blocked \in [Members -> BOOLEAN]
  /\ pc \in [Members -> {"down", "poll", "process", "commit", "release", "stopped"}]
  /\ batch \in [Members -> [Partitions ->
                 [first : 0..MaxOffset, next : 0..MaxOffset, last : 0..MaxOffset]]]
  /\ failed \in [Members -> SUBSET Partitions]
  /\ ctxDone \in [Members -> BOOLEAN] /\ closed \in [Members -> BOOLEAN]
  /\ handled \in [Partitions -> SUBSET (0..MaxOffset)]
  /\ starts \in 0..MaxStarts /\ moves \in 0..MaxMoves

(* A record whose offset is committed has been handled: whatever fails in  *)
(* between, no event is acknowledged and lost.                             *)
CommittedWereHandled ==
  \A p \in Partitions : Offsets(0, committed[p]) \subseteq handled[p]

(* A partition's records are handled in order: none before those below it, *)
(* also across failures, rebalances and restarts.                          *)
HandledInOrder ==
  \A p \in Partitions : \A o \in handled[p] : Offsets(0, o) \subseteq handled[p]

(* Two processes never have records of one partition in hand, unless one   *)
(* of them was closed or dropped from the group in the middle of a batch.  *)
OneHandlerPerPartition ==
  \A p \in Partitions : \A m, n \in Members :
    Running(m, p) /\ Running(n, p) /\ m # n =>
      \E x \in {m, n} : closed[x] \/ x \notin group

(* A batch that was polled ends: it is committed or the source stops.      *)
BatchesEnd ==
  \A m \in Members : pc[m] = "process" ~> pc[m] \in {"poll", "stopped", "down"}

(* As long as some process consumes, every record is handled, also those   *)
(* of the partitions and batches that a failed process leaves behind.      *)
(* (Without interruptions: an evicted member may never poll again.)        *)
EveryRecordIsHandled ==
  \A p \in Partitions : \A o \in 0..(MaxOffset - 1) :
    o < end[p] ~> \/ o \in handled[p]
                  \/ \A m \in Members : pc[m] \in {"stopped", "down"}

(* The Source contract: see EventDelivery. *)
Delivery == INSTANCE EventDelivery WITH
  finished <- [p \in Partitions |-> Cardinality(handled[p])],
  acked    <- committed

ImplementsDelivery == Delivery!Spec
=============================================================================
