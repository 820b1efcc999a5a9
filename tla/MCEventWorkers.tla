--------------------------- MODULE MCEventWorkers ---------------------------
(* Instances of EventWorkers for TLC. *)
EXTENDS EventWorkers, TLC

CONSTANTS k1, k2, p1, p2, a

(* One key, delivered by one partition. *)
OwnersSingle == k1 :> {p1}

(* Each key is delivered by a partition of its own. *)
OwnersExclusive == k1 :> {p1} @@ k2 :> {p2}

(* One key that both partitions deliver: the precondition is broken. *)
OwnersShared == k1 :> {p1, p2}

TagsNone  == {}
TagsMixed == {{a}, {Blank, a}}

(* Event ids are only ever compared for equality, and nothing tells one    *)
(* key and its partition from the other key and its own.                   *)
EventIDSymmetry == Permutations(EventIDs)

WorkerSymmetry == EventIDSymmetry \cup
  {k1 :> k2 @@ k2 :> k1 @@ p1 :> p2 @@ p2 :> p1}

PartitionSymmetry == EventIDSymmetry \cup {p1 :> p2 @@ p2 :> p1}

(* Ids as producers give them: what is received is the event accepted last *)
(* once more, or it has an id that no accepted event of its key has had.   *)
IDsAreFresh ==
  \A p \in Partitions :
    event[p] = NULL /\ event'[p] # NULL =>
      LET last == lastAccepted[event'[p].key] IN
      last = NULL \/ event'[p] = last \/ event'[p].eventID > last.eventID
=============================================================================
