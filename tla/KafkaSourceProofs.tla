------------------------- MODULE KafkaSourceProofs -------------------------
(***************************************************************************)
(* Theorems of KafkaSource, for any members, partitions and bounds, with   *)
(* or without failures and interruptions: what is committed was handled,   *)
(* in order, by one process at a time, and the source implements           *)
(* EventDelivery.                                                          *)
(***************************************************************************)
EXTENDS KafkaSource, FiniteSetTheorems, TLAPS

InBatch == {"process", "commit", "release"}

(* Partitions belong to members of the group; a closed client, which only  *)
(* a running process has, is none.                                         *)
MembershipOK ==
  /\ \A p \in Partitions : owner[p] = NoMember \/ owner[p] \in group
  /\ \A m \in Members : closed[m] => m \notin group /\ pc[m] # "down"

(* A member in the middle of a batch holds rebalances off.                 *)
BlockingOK ==
  \A m \in Members : pc[m] \in InBatch /\ m \in group => blocked[m]

(* Between batches a source has no records; a batch that is being          *)
(* committed has been handled to its last record.                          *)
BatchesFit ==
  \A m \in Members :
    /\ pc[m] \notin InBatch => batch[m] = Nothing /\ failed[m] = {}
    /\ pc[m] \in {"commit", "release"} =>
         failed[m] = {} /\ \A p \in Partitions : batch[m][p].next = batch[m][p].last

(* All that precedes the next record of a batch has been handled, by       *)
(* whichever process: a batch begins where everything before was handled.  *)
HandledUpTo(p, offset) == Offsets(0, offset) \subseteq handled[p]

BatchesAdvance ==
  \A m \in Members, p \in Partitions :
    /\ batch[m][p].first <= batch[m][p].next /\ batch[m][p].next <= batch[m][p].last
    /\ HandledUpTo(p, batch[m][p].next)

(* Records in hand are of partitions that the process owns, as long as it  *)
(* is a member at all.                                                     *)
BatchesAreOwned ==
  \A m \in Members, p \in Partitions :
    m \in group /\ pc[m] \in InBatch /\ batch[m][p] # NoRecords => owner[p] = m

(* Where the owner of a partition fetches next: not before the committed   *)
(* offset; while it polls, not after a record that is still to be handled, *)
(* and in a batch, after the records of the batch.                         *)
PositionsOK ==
  \A m \in Members, p \in Partitions : owner[p] = m =>
    /\ committed[p] <= position[m][p]
    /\ pc[m] = "poll" => HandledUpTo(p, position[m][p])
    /\ pc[m] \in InBatch =>
         IF batch[m][p] = NoRecords THEN HandledUpTo(p, position[m][p])
         ELSE /\ position[m][p] = batch[m][p].last
              /\ pc[m] # "release" => committed[p] <= batch[m][p].first

SourceInv ==
  /\ TypeOK
  /\ MembershipOK /\ BlockingOK
  /\ BatchesFit /\ BatchesAdvance /\ BatchesAreOwned
  /\ PositionsOK
  /\ CommittedWereHandled /\ HandledInOrder
-----------------------------------------------------------------------------
(***************************** types ***************************************)

Records == [first : 0..MaxOffset, next : 0..MaxOffset, last : 0..MaxOffset]

Steps(m) ==
  \/ New(m) \/ Rejoin(m) \/ Evict(m)
  \/ Consume(m) \/ Cancel(m) \/ Close(m) \/ Exit(m)

LEMMA TypeInit == Init => TypeOK
BY KafkaAssumption DEF Init, TypeOK, Nothing, NoRecords

(* A source that stops leaves nothing of its batch behind.                 *)
LEMMA StopType ==
  ASSUME TypeOK, NEW m \in Members, Stop(m)
  PROVE  /\ pc' \in [Members -> {"down", "poll", "process", "commit", "release", "stopped"}]
         /\ batch' \in [Members -> [Partitions -> Records]]
         /\ failed' \in [Members -> SUBSET Partitions]
<1>1. Nothing \in [Partitions -> Records]
  BY KafkaAssumption DEF Nothing, NoRecords, Records
<1> QED
  BY <1>1 DEF TypeOK, Stop, Records

(* What a poll fetches of one partition.                                   *)
LEMMA FetchFacts ==
  ASSUME TypeOK, NEW m \in Members, NEW p \in Partitions, NEW last \in 0..MaxOffset,
         position[m][p] <= last
  PROVE  /\ Fetch(m, p, last) \in Records
         /\ Fetch(m, p, last).first = Fetch(m, p, last).next
         /\ Fetch(m, p, last).next <= Fetch(m, p, last).last
         /\ Fetch(m, p, last) # NoRecords =>
              /\ owner[p] = m
              /\ Fetch(m, p, last).first = position[m][p]
              /\ Fetch(m, p, last).last = last
         /\ Fetch(m, p, last) = NoRecords /\ owner[p] = m => last = position[m][p]
<1>1. NoRecords \in Records /\ NoRecords.first = 0 /\ NoRecords.next = 0 /\ NoRecords.last = 0
  BY KafkaAssumption DEF NoRecords, Records
<1>2. CASE owner[p] # m \/ last = position[m][p]
  BY <1>1, <1>2 DEF Fetch
<1>3. CASE ~(owner[p] # m \/ last = position[m][p])
  <2>1. position[m][p] \in 0..MaxOffset
    BY DEF TypeOK
  <2>2. Fetch(m, p, last)
          = [first |-> position[m][p], next |-> position[m][p], last |-> last]
    BY <1>3 DEF Fetch
  <2>3. position[m][p] < last
    BY <1>3, <2>1
  <2> QED
    BY <1>1, <1>3, <2>1, <2>2, <2>3 DEF Records
<1> QED
  BY <1>2, <1>3

(* The end of a batch of which every record has been handled.              *)
LEMMA CommittedType ==
  ASSUME TypeOK, NEW m \in Members
  PROVE  Committed(m) \in [Partitions -> 0..MaxOffset]
BY DEF TypeOK, Committed

LEMMA UnassignedType ==
  ASSUME TypeOK, NEW m \in Members
  PROVE  Unassigned(m) \in [Partitions -> Members \cup {NoMember}]
BY DEF TypeOK, Unassigned

LEMMA TypeNext == TypeOK /\ [Next]_vars => TypeOK'
<1> SUFFICES ASSUME TypeOK, [Next]_vars PROVE TypeOK'
  OBVIOUS
<1> USE KafkaAssumption
<1>1. ASSUME NEW p \in Partitions, Produce(p) PROVE TypeOK'
  BY <1>1 DEF TypeOK, Produce, client, consume, process
<1>2. ASSUME NEW p \in Partitions, NEW m \in Members, Rebalance(p, m) PROVE TypeOK'
  BY <1>2 DEF TypeOK, Rebalance, consume, process
<1>3. ASSUME NEW m \in Members, New(m) PROVE TypeOK'
  BY <1>3 DEF TypeOK, New, client
<1>4. ASSUME NEW m \in Members, Rejoin(m) PROVE TypeOK'
  BY <1>4 DEF TypeOK, Rejoin, client, consume, process
<1>5. ASSUME NEW m \in Members, Evict(m) PROVE TypeOK'
  BY <1>5, UnassignedType DEF TypeOK, Evict, client, consume, process
<1>6. ASSUME NEW m \in Members, Poll(m) PROVE TypeOK'
  <2>1. PICK last \in [Partitions -> 0..MaxOffset] :
          /\ \A p \in Partitions : position[m][p] <= last[p]
          /\ batch' = [batch EXCEPT ![m] = [p \in Partitions |-> Fetch(m, p, last[p])]]
          /\ position' = [position EXCEPT ![m] = last]
    BY <1>6 DEF Poll
  <2>2. [p \in Partitions |-> Fetch(m, p, last[p])] \in [Partitions -> Records]
    BY <2>1, FetchFacts
  <2>3. batch' \in [Members -> [Partitions -> Records]]
    BY <2>1, <2>2 DEF TypeOK, Records
  <2>4. position' \in [Members -> [Partitions -> 0..MaxOffset]]
    BY <2>1 DEF TypeOK
  <2> QED
    BY <1>6, <2>3, <2>4 DEF TypeOK, Poll, Blocking, broker, process, Records
<1>7. ASSUME NEW m \in Members, PollEnds(m) PROVE TypeOK'
  BY <1>7, StopType DEF TypeOK, PollEnds, broker, client, process, Records
<1>8. ASSUME NEW m \in Members, NEW p \in Partitions, HandleRecord(m, p) PROVE TypeOK'
  <2>1. batch[m][p] \in Records /\ batch[m][p].next < batch[m][p].last
    BY <1>8 DEF TypeOK, HandleRecord, Running, Records
  <2>2. batch[m][p].next \in 0..MaxOffset /\ batch[m][p].next + 1 \in 0..MaxOffset
    BY <2>1 DEF Records
  <2>3. batch' \in [Members -> [Partitions -> Records]]
    BY <1>8, <2>1, <2>2 DEF TypeOK, HandleRecord, Records
  <2>4. handled' \in [Partitions -> SUBSET (0..MaxOffset)]
    BY <1>8, <2>2 DEF TypeOK, HandleRecord
  <2> QED
    BY <1>8, <2>3, <2>4 DEF TypeOK, HandleRecord, broker, client, process, Records
<1>9. ASSUME NEW m \in Members, NEW p \in Partitions, HandleFails(m, p) PROVE TypeOK'
  BY <1>9 DEF TypeOK, HandleFails, broker, client, process
<1>10. ASSUME NEW m \in Members, BatchDone(m) PROVE TypeOK'
  BY <1>10, StopType DEF TypeOK, BatchDone, broker, client, process, Records
<1>11. ASSUME NEW m \in Members, Commit(m) PROVE TypeOK'
  BY <1>11, CommittedType DEF TypeOK, Commit, client, process
<1>12. ASSUME NEW m \in Members, CommitFails(m) PROVE TypeOK'
  BY <1>12, StopType DEF TypeOK, CommitFails, broker, client, process, Records
<1>13. ASSUME NEW m \in Members, CommitAnswerLost(m) PROVE TypeOK'
  BY <1>13, StopType, CommittedType DEF TypeOK, CommitAnswerLost, client, process, Records
<1>14. ASSUME NEW m \in Members, AllowRebalance(m) PROVE TypeOK'
  <2>1. Nothing \in [Partitions -> Records]
    BY DEF Nothing, NoRecords, Records
  <2> QED
    BY <1>14, <2>1 DEF TypeOK, AllowRebalance, broker, process, Records
<1>15. ASSUME NEW m \in Members, Cancel(m) PROVE TypeOK'
  BY <1>15 DEF TypeOK, Cancel, broker, client, consume
<1>16. ASSUME NEW m \in Members, Close(m) PROVE TypeOK'
  BY <1>16, UnassignedType DEF TypeOK, Close, consume
<1>17. ASSUME NEW m \in Members, Exit(m) PROVE TypeOK'
  <2>1. Nothing \in [Partitions -> Records]
    BY DEF Nothing, NoRecords, Records
  <2> QED
    BY <1>17, <2>1 DEF TypeOK, Exit, broker, process, Records
<1>18. CASE UNCHANGED vars
  BY <1>18 DEF TypeOK, vars
<1> QED
  BY <1>1, <1>2, <1>3, <1>4, <1>5, <1>6, <1>7, <1>8, <1>9, <1>10, <1>11, <1>12, <1>13,
     <1>14, <1>15, <1>16, <1>17, <1>18 DEF Next, Consume

(* Every variable keeps its type; starts, moves and offsets their bounds.  *)
THEOREM SourceTypeCorrect == Spec => []TypeOK
BY TypeInit, TypeNext, PTL DEF Spec
-----------------------------------------------------------------------------
(*********************** the inductive invariant ***************************)

LEMMA SourceInit == Init => SourceInv
<1> SUFFICES ASSUME Init PROVE SourceInv
  OBVIOUS
<1>1. TypeOK
  BY TypeInit
<1>2. \A p \in Partitions : Offsets(0, 0) \subseteq handled[p]
  BY DEF Offsets
<1>3. /\ CommittedWereHandled /\ HandledInOrder /\ BatchesAdvance
  BY <1>2 DEF Init, CommittedWereHandled, HandledInOrder, BatchesAdvance, HandledUpTo,
              Nothing, NoRecords
<1> QED
  BY <1>1, <1>3, KafkaAssumption DEF Init, SourceInv, MembershipOK, BlockingOK, BatchesFit,
     BatchesAreOwned, PositionsOK, InBatch

(* What has been handled stays handled.                                    *)
LEMMA HandledGrows ==
  ASSUME NEW p \in Partitions, NEW offset, HandledUpTo(p, offset), handled[p] \subseteq handled'[p]
  PROVE  HandledUpTo(p, offset)'
BY DEF HandledUpTo, Offsets

(* A source stops with nothing in hand; its partitions stay its own until  *)
(* the group hears of it.                                                  *)
LEMMA StopKeepsInv ==
  ASSUME SourceInv, TypeOK', NEW m \in Members, Stop(m),
         UNCHANGED <<end, owner, group, client, handled, closed>>,
         \A p \in Partitions :
           committed'[p] = committed[p] \/
             /\ owner[p] = m /\ committed'[p] <= position[m][p]
             /\ HandledUpTo(p, committed'[p])
  PROVE  SourceInv'
<1> USE DEF SourceInv, client
<1>1. /\ batch'[m] = Nothing /\ failed'[m] = {} /\ pc'[m] = "stopped"
      /\ \A n \in Members \ {m} : batch'[n] = batch[n] /\ failed'[n] = failed[n] /\ pc'[n] = pc[n]
  BY DEF Stop, TypeOK
<1>2. MembershipOK' /\ BlockingOK' /\ BatchesFit'
  BY <1>1 DEF MembershipOK, BlockingOK, BatchesFit, InBatch
<1>3. BatchesAdvance'
  BY <1>1 DEF BatchesAdvance, Nothing, NoRecords, HandledUpTo, Offsets
<1>4. BatchesAreOwned'
  BY <1>1 DEF BatchesAreOwned, InBatch
<1>5. PositionsOK'
  BY <1>1, KafkaAssumption DEF PositionsOK, InBatch, HandledUpTo
<1>6. CommittedWereHandled' /\ HandledInOrder'
  BY DEF CommittedWereHandled, HandledInOrder, HandledUpTo
<1> QED
  BY <1>2, <1>3, <1>4, <1>5, <1>6

(* A batch that has been handled is committed over what it began with.     *)
LEMMA CommitFacts ==
  ASSUME SourceInv, NEW m \in Members, CanCommit(m), NEW p \in Partitions
  PROVE  \/ Committed(m)[p] = committed[p]
         \/ /\ owner[p] = m /\ batch[m][p] # NoRecords
            /\ Committed(m)[p] = position[m][p] /\ Committed(m)[p] = batch[m][p].last
            /\ committed[p] <= Committed(m)[p]
            /\ HandledUpTo(p, Committed(m)[p])
<1>1. CASE batch[m][p] = NoRecords
  BY <1>1 DEF Committed
<1>2. CASE batch[m][p] # NoRecords
  <2>1. Committed(m)[p] = batch[m][p].last
    BY <1>2 DEF Committed
  <2>2. owner[p] = m
    BY <1>2 DEF SourceInv, BatchesAreOwned, CanCommit, InBatch
  <2>3. /\ position[m][p] = batch[m][p].last
        /\ committed[p] <= batch[m][p].first
    BY <1>2, <2>2 DEF SourceInv, PositionsOK, CanCommit, InBatch
  <2>4. batch[m][p].next = batch[m][p].last
    BY DEF SourceInv, BatchesFit, CanCommit
  <2>5. /\ batch[m][p].first <= batch[m][p].last
        /\ HandledUpTo(p, batch[m][p].last)
    BY <2>4 DEF SourceInv, BatchesAdvance
  <2>6. committed[p] \in Int /\ batch[m][p].first \in Int /\ batch[m][p].last \in Int
    BY DEF SourceInv, TypeOK
  <2> QED
    BY <1>2, <2>1, <2>2, <2>3, <2>5, <2>6
<1> QED
  BY <1>1, <1>2

LEMMA PollKeepsInv ==
  ASSUME SourceInv, TypeOK', NEW m \in Members, Poll(m)
  PROVE  SourceInv'
<1> USE DEF SourceInv
<1>1. PICK last \in [Partitions -> 0..MaxOffset] :
        /\ \A p \in Partitions : position[m][p] <= last[p]
        /\ batch' = [batch EXCEPT ![m] = [p \in Partitions |-> Fetch(m, p, last[p])]]
        /\ position' = [position EXCEPT ![m] = last]
  BY DEF Poll
<1>2. /\ \A p \in Partitions : batch'[m][p] = Fetch(m, p, last[p]) /\ position'[m][p] = last[p]
      /\ \A n \in Members \ {m} : batch'[n] = batch[n] /\ position'[n] = position[n]
  BY <1>1 DEF TypeOK
<1>3. /\ pc[m] = "poll" /\ pc'[m] = "process" /\ blocked'[m] = TRUE
      /\ \A n \in Members \ {m} : pc'[n] = pc[n] /\ blocked'[n] = blocked[n]
      /\ UNCHANGED <<end, committed, owner, group, failed, closed, handled>>
  BY DEF Poll, Blocking, TypeOK, broker, process
<1>4. MembershipOK' /\ BlockingOK'
  BY <1>3 DEF MembershipOK, BlockingOK, InBatch
<1>5. BatchesFit'
  BY <1>2, <1>3 DEF BatchesFit, InBatch
<1>6. BatchesAdvance'
  <2> SUFFICES ASSUME NEW n \in Members, NEW p \in Partitions
               PROVE  /\ batch'[n][p].first <= batch'[n][p].next
                      /\ batch'[n][p].next <= batch'[n][p].last
                      /\ HandledUpTo(p, batch[n][p].next)'
    BY DEF BatchesAdvance
  <2>1. CASE n # m
    BY <2>1, <1>2, <1>3 DEF BatchesAdvance, HandledUpTo
  <2>2. CASE n = m
    <3>1. /\ batch'[m][p] \in Records /\ batch'[m][p].first = batch'[m][p].next
          /\ batch'[m][p].next <= batch'[m][p].last
          /\ batch'[m][p] # NoRecords =>
               owner[p] = m /\ batch'[m][p].first = position[m][p]
      BY <1>1, <1>2, FetchFacts
    <3>2. HandledUpTo(p, batch'[m][p].next)
      <4>1. CASE batch'[m][p] = NoRecords
        BY <4>1 DEF NoRecords, HandledUpTo, Offsets
      <4>2. CASE batch'[m][p] # NoRecords
        BY <4>2, <3>1, <1>3 DEF PositionsOK
      <4> QED
        BY <4>1, <4>2
    <3> QED
      BY <2>2, <3>1, <3>2, <1>3 DEF Records, HandledUpTo
  <2> QED
    BY <2>1, <2>2
<1>7. BatchesAreOwned'
  BY <1>1, <1>2, <1>3, FetchFacts DEF BatchesAreOwned
<1>8. PositionsOK'
  <2> SUFFICES ASSUME NEW n \in Members, NEW p \in Partitions, owner[p] = n
               PROVE  /\ committed[p] <= position'[n][p]
                      /\ pc'[n] = "poll" => HandledUpTo(p, position'[n][p])
                      /\ pc'[n] \in InBatch =>
                           IF batch'[n][p] = NoRecords THEN HandledUpTo(p, position'[n][p])
                           ELSE /\ position'[n][p] = batch'[n][p].last
                                /\ pc'[n] # "release" => committed[p] <= batch'[n][p].first
    BY <1>3 DEF PositionsOK, HandledUpTo
  <2>1. CASE n # m
    BY <2>1, <1>2, <1>3 DEF PositionsOK
  <2>2. CASE n = m
    <3>1. /\ committed[p] <= position[m][p] /\ HandledUpTo(p, position[m][p])
      BY <2>2, <1>3 DEF PositionsOK
    <3>2. /\ batch'[m][p] # NoRecords =>
               batch'[m][p].first = position[m][p] /\ batch'[m][p].last = last[p]
          /\ batch'[m][p] = NoRecords => last[p] = position[m][p]
          /\ position[m][p] <= last[p]
      BY <2>2, <1>1, <1>2, FetchFacts
    <3>3. committed[p] \in Int /\ position[m][p] \in Int /\ last[p] \in Int
      BY DEF TypeOK
    <3> QED
      BY <2>2, <3>1, <3>2, <3>3, <1>2, <1>3
  <2> QED
    BY <2>1, <2>2
<1>9. CommittedWereHandled' /\ HandledInOrder'
  BY <1>3 DEF CommittedWereHandled, HandledInOrder
<1> QED
  BY <1>4, <1>5, <1>6, <1>7, <1>8, <1>9

LEMMA HandleKeepsInv ==
  ASSUME SourceInv, TypeOK', NEW m \in Members, NEW p \in Partitions, HandleRecord(m, p)
  PROVE  SourceInv'
<1> USE DEF SourceInv
<1> DEFINE o == batch[m][p].next
<1>1. /\ batch[m][p] \in Records /\ o < batch[m][p].last /\ pc[m] = "process"
      /\ batch[m][p].first <= o
      /\ o \in 0..MaxOffset /\ HandledUpTo(p, o)
  BY DEF HandleRecord, Running, TypeOK, Records, BatchesAdvance
<1>2. /\ batch'[m][p] = [batch[m][p] EXCEPT !.next = o + 1]
      /\ \A q \in Partitions \ {p} : batch'[m][q] = batch[m][q]
      /\ \A n \in Members \ {m} : batch'[n] = batch[n]
  BY DEF HandleRecord, TypeOK
<1>3. /\ batch'[m][p].first = batch[m][p].first /\ batch'[m][p].next = o + 1
      /\ batch'[m][p].last = batch[m][p].last
  BY <1>1, <1>2 DEF Records
<1>4. /\ handled'[p] = handled[p] \cup {o}
      /\ \A q \in Partitions \ {p} : handled'[q] = handled[q]
  BY DEF HandleRecord, TypeOK
<1>5. UNCHANGED <<end, committed, owner, group, position, blocked, pc, failed, closed>>
  BY DEF HandleRecord, broker, client, process
<1>6. Offsets(0, o + 1) \subseteq handled'[p]
  BY <1>1, <1>4 DEF HandledUpTo, Offsets
<1>7. \A q \in Partitions, offset \in 0..MaxOffset :
        HandledUpTo(q, offset) => HandledUpTo(q, offset)'
  BY <1>4 DEF HandledUpTo
<1>8. MembershipOK' /\ BlockingOK'
  BY <1>5 DEF MembershipOK, BlockingOK
<1>9. BatchesFit'
  BY <1>1, <1>2, <1>5 DEF BatchesFit, InBatch
<1>10. BatchesAdvance'
  <2> SUFFICES ASSUME NEW n \in Members, NEW q \in Partitions
               PROVE  /\ batch'[n][q].first <= batch'[n][q].next
                      /\ batch'[n][q].next <= batch'[n][q].last
                      /\ HandledUpTo(q, batch[n][q].next)'
    BY DEF BatchesAdvance
  <2>1. CASE n = m /\ q = p
    BY <2>1, <1>1, <1>3, <1>6 DEF Records, HandledUpTo
  <2>2. CASE n # m \/ q # p
    <3>1. batch'[n][q] = batch[n][q] /\ batch[n][q].next \in 0..MaxOffset
      BY <2>2, <1>2 DEF TypeOK
    <3> QED
      BY <3>1, <1>7 DEF BatchesAdvance
  <2> QED
    BY <2>1, <2>2
<1>11. batch[m][p] # NoRecords
  BY <1>1 DEF NoRecords
<1>12. BatchesAreOwned'
  BY <1>2, <1>5, <1>11 DEF BatchesAreOwned
<1>13. batch'[m][p] # NoRecords
  BY <1>1, <1>3 DEF NoRecords
<1>14. PositionsOK'
  <2> SUFFICES ASSUME NEW n \in Members, NEW q \in Partitions, owner[q] = n
               PROVE  /\ committed[q] <= position[n][q]
                      /\ pc[n] = "poll" => HandledUpTo(q, position[n][q])'
                      /\ pc[n] \in InBatch =>
                           IF batch'[n][q] = NoRecords THEN HandledUpTo(q, position[n][q])'
                           ELSE /\ position[n][q] = batch'[n][q].last
                                /\ pc[n] # "release" => committed[q] <= batch'[n][q].first
    BY <1>5 DEF PositionsOK, HandledUpTo
  <2>1. position[n][q] \in 0..MaxOffset
    BY DEF TypeOK
  <2>2. HandledUpTo(q, position[n][q]) => HandledUpTo(q, position[n][q])'
    BY <2>1, <1>5, <1>7 DEF HandledUpTo
  <2>3. CASE n = m /\ q = p
    BY <2>3, <2>2, <1>1, <1>3, <1>11, <1>13 DEF PositionsOK
  <2>4. CASE n # m \/ q # p
    BY <2>2, <2>4, <1>2 DEF PositionsOK
  <2> QED
    BY <2>3, <2>4
<1>15. CommittedWereHandled'
  BY <1>4, <1>5 DEF CommittedWereHandled
<1>16. HandledInOrder'
  BY <1>1, <1>4 DEF HandledInOrder, HandledUpTo, Offsets
<1> QED
  BY <1>8, <1>9, <1>10, <1>12, <1>14, <1>15, <1>16

(* A member joins with no records in hand and no partitions.               *)
LEMMA JoinKeepsInv ==
  ASSUME SourceInv, TypeOK', NEW m \in Members, New(m) \/ Rejoin(m)
  PROVE  SourceInv'
<1> USE DEF SourceInv
<1>1. /\ UNCHANGED <<end, committed, owner, position, batch, failed, handled>>
      /\ group' = group \cup {m} /\ m \notin group
  BY DEF New, Rejoin, client, consume, process
<1>2. /\ pc[m] \in {"down", "poll"} /\ pc'[m] = "poll" /\ ~closed'[m]
      /\ \A n \in Members \ {m} :
           pc'[n] = pc[n] /\ closed'[n] = closed[n] /\ blocked'[n] = blocked[n]
  BY DEF New, Rejoin, TypeOK, client, consume, process, MembershipOK
<1>3. \A p \in Partitions : owner[p] # m
  BY <1>1, KafkaAssumption DEF MembershipOK
<1>4. MembershipOK' /\ BlockingOK' /\ BatchesFit'
  BY <1>1, <1>2 DEF MembershipOK, BlockingOK, BatchesFit, InBatch
<1>5. BatchesAdvance' /\ CommittedWereHandled' /\ HandledInOrder'
  BY <1>1 DEF BatchesAdvance, CommittedWereHandled, HandledInOrder, HandledUpTo
<1>6. BatchesAreOwned' /\ PositionsOK'
  BY <1>1, <1>2, <1>3 DEF BatchesAreOwned, PositionsOK, HandledUpTo, InBatch
<1> QED
  BY <1>4, <1>5, <1>6

(* A member leaves, maybe in the middle of a batch, and loses what it owns.*)
LEMMA LeaveKeepsInv ==
  ASSUME SourceInv, TypeOK', NEW m \in Members, Evict(m) \/ Close(m)
  PROVE  SourceInv'
<1> USE DEF SourceInv
<1>1. /\ UNCHANGED <<end, committed, position, pc, batch, failed, handled>>
      /\ owner' = Unassigned(m) /\ group' = group \ {m}
      /\ closed'[m] => closed[m] \/ pc[m] # "down"
      /\ \A n \in Members \ {m} : closed'[n] = closed[n] /\ blocked'[n] = blocked[n]
  BY DEF Evict, Close, TypeOK, client, consume, process
<1>2. \A p \in Partitions : owner'[p] = IF owner[p] = m THEN NoMember ELSE owner[p]
  BY <1>1 DEF Unassigned
<1>3. MembershipOK' /\ BlockingOK' /\ BatchesFit'
  BY <1>1, <1>2 DEF MembershipOK, BlockingOK, BatchesFit
<1>4. BatchesAdvance' /\ CommittedWereHandled' /\ HandledInOrder'
  BY <1>1 DEF BatchesAdvance, CommittedWereHandled, HandledInOrder, HandledUpTo
<1>5. BatchesAreOwned' /\ PositionsOK'
  BY <1>1, <1>2, KafkaAssumption DEF BatchesAreOwned, PositionsOK, HandledUpTo
<1> QED
  BY <1>3, <1>4, <1>5

(* A partition is taken over at the committed offset, and only from and by *)
(* members that are not in the middle of a batch.                          *)
LEMMA RebalanceKeepsInv ==
  ASSUME SourceInv, TypeOK', NEW p \in Partitions, NEW m \in Members, Rebalance(p, m)
  PROVE  SourceInv'
<1> USE DEF SourceInv
<1>1. /\ owner'[p] = m /\ m \in group /\ pc[m] \notin InBatch
      /\ \A q \in Partitions \ {p} : owner'[q] = owner[q]
      /\ position'[m][p] = committed[p]
      /\ \A n \in Members, q \in Partitions :
           n # m \/ q # p => position'[n][q] = position[n][q]
  BY DEF Rebalance, TypeOK, BlockingOK
<1>2. UNCHANGED <<end, committed, group, blocked, pc, batch, failed, closed, handled>>
  BY DEF Rebalance, consume, process
<1>3. /\ MembershipOK' /\ BlockingOK' /\ BatchesFit' /\ BatchesAdvance'
      /\ CommittedWereHandled' /\ HandledInOrder'
  BY <1>1, <1>2 DEF MembershipOK, BlockingOK, BatchesFit, BatchesAdvance, HandledUpTo,
     CommittedWereHandled, HandledInOrder
<1>4. BatchesAreOwned'
  <2>1. \A n \in Members : owner[p] = n => n \notin group \/ pc[n] \notin InBatch
    BY KafkaAssumption DEF Rebalance, BlockingOK
  <2> QED
    BY <1>1, <1>2, <2>1 DEF BatchesAreOwned
<1>5. PositionsOK'
  <2>1. committed[p] <= committed[p] /\ HandledUpTo(p, committed[p])
    BY DEF TypeOK, CommittedWereHandled, HandledUpTo
  <2> QED
    BY <1>1, <1>2, <2>1 DEF PositionsOK, HandledUpTo
<1> QED
  BY <1>3, <1>4, <1>5

LEMMA CommitKeepsInv ==
  ASSUME SourceInv, TypeOK', NEW m \in Members, Commit(m)
  PROVE  SourceInv'
<1> USE DEF SourceInv
<1>1. /\ CanCommit(m) /\ committed' = Committed(m)
      /\ pc[m] = "commit" /\ pc'[m] = "release"
      /\ \A n \in Members \ {m} : pc'[n] = pc[n]
      /\ UNCHANGED <<end, owner, group, position, blocked, batch, failed, closed, handled>>
  BY DEF Commit, CanCommit, TypeOK, client, process
<1>2. /\ MembershipOK' /\ BlockingOK' /\ BatchesFit' /\ BatchesAdvance' /\ BatchesAreOwned'
      /\ HandledInOrder'
  BY <1>1 DEF MembershipOK, BlockingOK, BatchesFit, BatchesAdvance, BatchesAreOwned,
     HandledInOrder, HandledUpTo, InBatch
<1>3. CommittedWereHandled'
  BY <1>1, CommitFacts DEF CommittedWereHandled, HandledUpTo
<1>4. PositionsOK'
  <2> SUFFICES ASSUME NEW n \in Members, NEW p \in Partitions, owner[p] = n
               PROVE  /\ Committed(m)[p] <= position[n][p]
                      /\ pc'[n] = "poll" => HandledUpTo(p, position[n][p])
                      /\ pc'[n] \in InBatch =>
                           IF batch[n][p] = NoRecords THEN HandledUpTo(p, position[n][p])
                           ELSE /\ position[n][p] = batch[n][p].last
                                /\ pc'[n] # "release" => Committed(m)[p] <= batch[n][p].first
    BY <1>1 DEF PositionsOK, HandledUpTo
  <2>1. /\ position[n][p] \in Int /\ committed[p] \in Int
    BY DEF TypeOK
  <2>2. CASE Committed(m)[p] = committed[p]
    BY <2>2, <1>1 DEF PositionsOK, InBatch
  <2>3. CASE Committed(m)[p] # committed[p]
    <3>1. n = m /\ batch[m][p] # NoRecords
          /\ Committed(m)[p] = position[m][p] /\ position[m][p] = batch[m][p].last
      BY <2>3, <1>1, CommitFacts
    <3> QED
      BY <3>1, <2>1, <1>1
  <2> QED
    BY <2>2, <2>3
<1> QED
  BY <1>2, <1>3, <1>4

LEMMA BatchDoneKeepsInv ==
  ASSUME SourceInv, TypeOK', NEW m \in Members, BatchDone(m)
  PROVE  SourceInv'
<1> USE DEF SourceInv
<1>1. CASE failed[m] # {}
  <2>1. Stop(m) /\ UNCHANGED <<end, owner, group, client, handled, closed, committed>>
    BY <1>1 DEF BatchDone, broker, process
  <2> QED
    BY <2>1, StopKeepsInv
<1>2. CASE failed[m] = {}
  <2>1. /\ pc[m] = "process" /\ pc'[m] = "commit"
        /\ \A n \in Members \ {m} : pc'[n] = pc[n]
        /\ UNCHANGED <<end, committed, owner, group, position, blocked, batch, failed, closed,
                       handled>>
    BY <1>2 DEF BatchDone, TypeOK, broker, client, process
  <2>2. \A p \in Partitions : batch[m][p].next = batch[m][p].last
    <3> SUFFICES ASSUME NEW p \in Partitions PROVE batch[m][p].next = batch[m][p].last
      OBVIOUS
    <3>1. ~(batch[m][p].next < batch[m][p].last)
      BY <1>2, <2>1 DEF BatchDone, WorkersDone, Running
    <3>2. batch[m][p].next <= batch[m][p].last
      BY DEF BatchesAdvance
    <3>3. batch[m][p].next \in Int /\ batch[m][p].last \in Int
      BY DEF TypeOK
    <3> QED
      BY <3>1, <3>2, <3>3
  <2> QED
    BY <1>2, <2>1, <2>2 DEF MembershipOK, BlockingOK, BatchesFit, BatchesAdvance,
       BatchesAreOwned, PositionsOK, CommittedWereHandled, HandledInOrder, HandledUpTo, InBatch
<1> QED
  BY <1>1, <1>2

(* What was in hand has been handled, so the positions are free of it.     *)
LEMMA ReleaseKeepsInv ==
  ASSUME SourceInv, TypeOK', NEW m \in Members, AllowRebalance(m)
  PROVE  SourceInv'
<1> USE DEF SourceInv
<1>1. /\ pc[m] = "release" /\ pc'[m] = "poll" /\ batch'[m] = Nothing
      /\ \A n \in Members \ {m} : /\ pc'[n] = pc[n] /\ batch'[n] = batch[n]
                                  /\ blocked'[n] = blocked[n]
      /\ UNCHANGED <<end, committed, owner, group, position, failed, closed, handled>>
  BY DEF AllowRebalance, TypeOK, broker, process
<1>2. /\ MembershipOK' /\ BlockingOK' /\ BatchesFit' /\ BatchesAreOwned'
      /\ CommittedWereHandled' /\ HandledInOrder'
  BY <1>1 DEF MembershipOK, BlockingOK, BatchesFit, BatchesAreOwned, CommittedWereHandled,
     HandledInOrder, InBatch
<1>3. BatchesAdvance'
  BY <1>1 DEF BatchesAdvance, Nothing, NoRecords, HandledUpTo, Offsets
<1>4. \A p \in Partitions : owner[p] = m => HandledUpTo(p, position[m][p])
  BY <1>1 DEF PositionsOK, BatchesFit, BatchesAdvance, InBatch
<1>5. PositionsOK'
  BY <1>1, <1>4 DEF PositionsOK, HandledUpTo, InBatch
<1> QED
  BY <1>2, <1>3, <1>5

LEMMA ExitKeepsInv ==
  ASSUME SourceInv, TypeOK', NEW m \in Members, Exit(m)
  PROVE  SourceInv'
<1> USE DEF SourceInv
<1>1. /\ pc'[m] = "down" /\ batch'[m] = Nothing /\ failed'[m] = {}
      /\ \A n \in Members \ {m} : /\ pc'[n] = pc[n] /\ batch'[n] = batch[n]
                                  /\ blocked'[n] = blocked[n] /\ failed'[n] = failed[n]
      /\ ~closed'[m] /\ \A n \in Members \ {m} : closed'[n] = closed[n]
      /\ UNCHANGED <<end, committed, owner, group, position, handled>>
  BY DEF Exit, TypeOK, broker, process
<1>2. /\ MembershipOK' /\ BlockingOK' /\ BatchesFit' /\ BatchesAreOwned'
      /\ CommittedWereHandled' /\ HandledInOrder'
  BY <1>1 DEF MembershipOK, BlockingOK, BatchesFit, BatchesAreOwned, CommittedWereHandled,
     HandledInOrder, InBatch
<1>3. BatchesAdvance'
  BY <1>1 DEF BatchesAdvance, Nothing, NoRecords, HandledUpTo, Offsets
<1>4. PositionsOK'
  BY <1>1 DEF PositionsOK, HandledUpTo, InBatch
<1> QED
  BY <1>2, <1>3, <1>4

LEMMA SourceNext == SourceInv /\ [Next]_vars => SourceInv'
<1> SUFFICES ASSUME SourceInv, [Next]_vars PROVE SourceInv'
  OBVIOUS
<1> USE DEF SourceInv
<1>0. TypeOK'
  BY TypeNext
<1>1. ASSUME NEW p \in Partitions, Produce(p) PROVE SourceInv'
  BY <1>0, <1>1 DEF Produce, client, consume, process, MembershipOK, BlockingOK, BatchesFit,
     BatchesAdvance, BatchesAreOwned, PositionsOK, CommittedWereHandled, HandledInOrder,
     HandledUpTo
<1>2. ASSUME NEW p \in Partitions, NEW m \in Members, Rebalance(p, m) PROVE SourceInv'
  BY <1>0, <1>2, RebalanceKeepsInv
<1>3. ASSUME NEW m \in Members, New(m) \/ Rejoin(m) \/ Evict(m) \/ Close(m) PROVE SourceInv'
  BY <1>0, <1>3, JoinKeepsInv, LeaveKeepsInv
<1>4. ASSUME NEW m \in Members, Poll(m) PROVE SourceInv'
  BY <1>0, <1>4, PollKeepsInv
<1>5. ASSUME NEW m \in Members, PollEnds(m) \/ CommitFails(m) PROVE SourceInv'
  <2>1. Stop(m) /\ UNCHANGED <<end, owner, group, client, handled, closed, committed>>
    BY <1>5 DEF PollEnds, CommitFails, broker, process
  <2> QED
    BY <1>0, <2>1, StopKeepsInv
<1>6. ASSUME NEW m \in Members, NEW p \in Partitions, HandleRecord(m, p) PROVE SourceInv'
  BY <1>0, <1>6, HandleKeepsInv
<1>7. ASSUME NEW m \in Members, NEW p \in Partitions, HandleFails(m, p) PROVE SourceInv'
  BY <1>0, <1>7 DEF HandleFails, Running, broker, client, process, MembershipOK, BlockingOK,
     BatchesFit, BatchesAdvance, BatchesAreOwned, PositionsOK, CommittedWereHandled,
     HandledInOrder, HandledUpTo, InBatch, TypeOK
<1>8. ASSUME NEW m \in Members, BatchDone(m) PROVE SourceInv'
  BY <1>0, <1>8, BatchDoneKeepsInv
<1>9. ASSUME NEW m \in Members, Commit(m) PROVE SourceInv'
  BY <1>0, <1>9, CommitKeepsInv
<1>10. ASSUME NEW m \in Members, CommitAnswerLost(m) PROVE SourceInv'
  <2>1. /\ Stop(m) /\ UNCHANGED <<end, owner, group, client, handled, closed>>
        /\ CanCommit(m) /\ committed' = Committed(m)
    BY <1>10 DEF CommitAnswerLost, process
  <2>2. \A p \in Partitions :
          committed'[p] = committed[p] \/
            /\ owner[p] = m /\ committed'[p] <= position[m][p]
            /\ HandledUpTo(p, committed'[p])
    BY <2>1, CommitFacts DEF TypeOK
  <2> QED
    BY <1>0, <2>1, <2>2, StopKeepsInv
<1>11. ASSUME NEW m \in Members, AllowRebalance(m) PROVE SourceInv'
  BY <1>0, <1>11, ReleaseKeepsInv
<1>12. ASSUME NEW m \in Members, Cancel(m) PROVE SourceInv'
  BY <1>0, <1>12 DEF Cancel, broker, client, consume, MembershipOK, BlockingOK, BatchesFit,
     BatchesAdvance, BatchesAreOwned, PositionsOK, CommittedWereHandled, HandledInOrder,
     HandledUpTo
<1>13. ASSUME NEW m \in Members, Exit(m) PROVE SourceInv'
  BY <1>0, <1>13, ExitKeepsInv
<1>14. CASE UNCHANGED vars
  BY <1>0, <1>14 DEF vars, MembershipOK, BlockingOK, BatchesFit, BatchesAdvance,
     BatchesAreOwned, PositionsOK, CommittedWereHandled, HandledInOrder, HandledUpTo
<1> QED
  BY <1>1, <1>2, <1>3, <1>4, <1>5, <1>6, <1>7, <1>8, <1>9, <1>10, <1>11, <1>12, <1>13, <1>14
     DEF Next, Consume

(* The source in every state: positions, batches and membership agree.     *)
THEOREM SourceSafety == Spec => []SourceInv
BY SourceInit, SourceNext, PTL DEF Spec

(* No event is acknowledged and lost, whatever fails, stops or moves       *)
(* between its being fetched and its offset being committed.               *)
THEOREM NothingIsLost == Spec => []CommittedWereHandled
<1>1. SourceInv => CommittedWereHandled
  BY DEF SourceInv
<1> QED
  BY <1>1, SourceSafety, PTL

(* A partition's records are handled in order and without gaps.            *)
THEOREM OrderIsKept == Spec => []HandledInOrder
<1>1. SourceInv => HandledInOrder
  BY DEF SourceInv
<1> QED
  BY <1>1, SourceSafety, PTL

(* Two members of the group never have records of one partition in hand:   *)
(* the promise that EventWorkers knows as ExclusiveOwners.                 *)
THEOREM OneOwnerHandles == Spec => []OneHandlerPerPartition
<1>1. SourceInv => OneHandlerPerPartition
  <2> SUFFICES ASSUME SourceInv, NEW p \in Partitions, NEW m \in Members, NEW n \in Members,
                      Running(m, p), Running(n, p), m # n,
                      m \in group, n \in group
               PROVE  FALSE
    BY DEF OneHandlerPerPartition
  <2>1. \A x \in {m, n} : batch[x][p] # NoRecords /\ pc[x] \in InBatch
    BY DEF Running, NoRecords, InBatch
  <2>2. owner[p] = m /\ owner[p] = n
    BY <2>1 DEF SourceInv, BatchesAreOwned
  <2> QED
    BY <2>2
<1> QED
  BY <1>1, SourceSafety, PTL
-----------------------------------------------------------------------------
(***************************** the contract ********************************)

(* There are at least as many handled offsets as come before one that all  *)
(* before it have been handled.                                            *)
LEMMA HandledCount ==
  ASSUME TypeOK, NEW p \in Partitions
  PROVE  /\ IsFiniteSet(handled[p]) /\ Cardinality(handled[p]) \in Nat
         /\ \A offset \in 0..MaxOffset :
              HandledUpTo(p, offset) => offset <= Cardinality(handled[p])
<1>1. handled[p] \subseteq 0..MaxOffset /\ IsFiniteSet(0..MaxOffset)
  BY KafkaAssumption, FS_Interval DEF TypeOK
<1>2. IsFiniteSet(handled[p]) /\ Cardinality(handled[p]) \in Nat
  BY <1>1, FS_Subset, FS_CardinalityType
<1>3. ASSUME NEW offset \in 0..MaxOffset, HandledUpTo(p, offset)
      PROVE  offset <= Cardinality(handled[p])
  <2>1. Offsets(0, offset) = 0..(offset - 1)
    BY KafkaAssumption DEF Offsets
  <2>2. Cardinality(0..(offset - 1)) = offset
    BY FS_Interval
  <2>3. Cardinality(Offsets(0, offset)) <= Cardinality(handled[p])
    BY <1>2, <1>3, FS_Subset DEF HandledUpTo
  <2> QED
    BY <2>1, <2>2, <2>3
<1> QED
  BY <1>2, <1>3

(* Handling a record again is a stuttering step of the contract.           *)
LEMMA HandleImplements ==
  ASSUME SourceInv, NEW m \in Members, NEW p \in Partitions, HandleRecord(m, p)
  PROVE  [Delivery!Next]_(Delivery!vars)
<1> DEFINE o == batch[m][p].next
           finished == [q \in Partitions |-> Cardinality(handled[q])]
<1>1. /\ handled'[p] = handled[p] \cup {o}
      /\ \A q \in Partitions \ {p} : handled'[q] = handled[q]
      /\ committed' = committed
  BY DEF HandleRecord, SourceInv, TypeOK, broker
<1>2. CASE o \in handled[p]
  <2>1. \A q \in Partitions : handled'[q] = handled[q]
    BY <1>1, <1>2
  <2>2. finished' = finished
    BY <2>1
  <2> QED
    BY <1>1, <2>2 DEF Delivery!vars
<1>3. CASE o \notin handled[p]
  <2>1. Cardinality(handled'[p]) = Cardinality(handled[p]) + 1
    BY <1>1, <1>3, HandledCount, FS_AddElement DEF SourceInv
  <2>2. finished' = [finished EXCEPT ![p] = @ + 1]
    BY <1>1, <2>1
  <2>3. Delivery!Finish(p)
    BY <1>1, <2>2 DEF Delivery!Finish
  <2> QED
    BY <2>3 DEF Delivery!Next
<1> QED
  BY <1>2, <1>3

(* A commit acknowledges only what was handled and takes nothing back.     *)
LEMMA CommitImplements ==
  ASSUME SourceInv, NEW m \in Members, CanCommit(m), committed' = Committed(m),
         UNCHANGED handled
  PROVE  Delivery!Acknowledge
<1>1. Committed(m) \in [Partitions -> Nat]
  BY CommittedType, KafkaAssumption DEF SourceInv, TypeOK
<1>2. ASSUME NEW p \in Partitions
      PROVE  committed[p] <= Committed(m)[p] /\ Committed(m)[p] <= Cardinality(handled[p])
  <2>1. committed[p] \in 0..MaxOffset /\ Committed(m)[p] \in 0..MaxOffset
    BY CommittedType DEF SourceInv, TypeOK
  <2>2. HandledUpTo(p, committed[p])
    BY DEF SourceInv, CommittedWereHandled, HandledUpTo
  <2>3. HandledUpTo(p, Committed(m)[p]) /\ committed[p] <= Committed(m)[p]
    BY <2>1, <2>2, CommitFacts
  <2> QED
    BY <2>1, <2>3, HandledCount DEF SourceInv
<1> QED
  BY <1>1, <1>2 DEF Delivery!Acknowledge

LEMMA DeliveryInit == Init => Delivery!Init
BY FS_EmptySet DEF Init, Delivery!Init

LEMMA DeliveryNext == SourceInv /\ [Next]_vars => [Delivery!Next]_(Delivery!vars)
<1> SUFFICES ASSUME SourceInv, [Next]_vars PROVE [Delivery!Next]_(Delivery!vars)
  OBVIOUS
<1>1. ASSUME UNCHANGED <<committed, handled>> PROVE [Delivery!Next]_(Delivery!vars)
  BY <1>1 DEF Delivery!vars
<1>2. ASSUME NEW m \in Members, NEW p \in Partitions, HandleRecord(m, p)
      PROVE  [Delivery!Next]_(Delivery!vars)
  BY <1>2, HandleImplements
<1>3. ASSUME NEW m \in Members, Commit(m) \/ CommitAnswerLost(m)
      PROVE  [Delivery!Next]_(Delivery!vars)
  <2>1. CanCommit(m) /\ committed' = Committed(m) /\ UNCHANGED handled
    BY <1>3 DEF Commit, CommitAnswerLost
  <2> QED
    BY <2>1, CommitImplements DEF Delivery!Next
<1>4. ASSUME NEW p \in Partitions,
             Produce(p) \/ \E m \in Members : Rebalance(p, m)
      PROVE  UNCHANGED <<committed, handled>>
  BY <1>4 DEF Produce, Rebalance
<1>5. ASSUME NEW m \in Members,
             New(m) \/ Rejoin(m) \/ Evict(m) \/ Cancel(m) \/ Close(m) \/ Exit(m)
      PROVE  UNCHANGED <<committed, handled>>
  BY <1>5 DEF New, Rejoin, Evict, Cancel, Close, Exit, broker
<1>6. ASSUME NEW m \in Members,
             \/ Poll(m) \/ PollEnds(m) \/ BatchDone(m) \/ CommitFails(m) \/ AllowRebalance(m)
             \/ \E p \in Partitions : HandleFails(m, p)
      PROVE  UNCHANGED <<committed, handled>>
  BY <1>6 DEF Poll, PollEnds, BatchDone, CommitFails, AllowRebalance, HandleFails, broker
<1>7. CASE UNCHANGED vars
  BY <1>1, <1>7 DEF vars
<1> QED
  BY <1>1, <1>2, <1>3, <1>4, <1>5, <1>6, <1>7 DEF Next, Consume

(* Batches, commits, rebalances, failures and restarts together keep the   *)
(* contract of eventstream.Source: in order, without gaps, acknowledged    *)
(* only after handling, never taken back.                                  *)
THEOREM SourceDelivers == Spec => ImplementsDelivery
BY DeliveryInit, DeliveryNext, SourceSafety, PTL DEF Spec, ImplementsDelivery, Delivery!Spec
=============================================================================
