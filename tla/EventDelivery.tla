--------------------------- MODULE EventDelivery ---------------------------
(***************************************************************************)
(* What eventstream.Source promises about each partition of the log, with  *)
(* no batches, members or offsets to commit: the handler finishes records  *)
(* in order and without gaps, a record is acknowledged only after the      *)
(* handler has finished it, and an acknowledgement is never taken back.    *)
(* A record may be handled again; that is a stuttering step here.          *)
(***************************************************************************)
EXTENDS Naturals

CONSTANT Partitions

VARIABLES finished,  \* partition -> how many of its records were handled
          acked      \* partition -> how many are acknowledged

vars == <<finished, acked>>

Init ==
  /\ finished = [p \in Partitions |-> 0]
  /\ acked = [p \in Partitions |-> 0]

Finish(p) ==
  /\ finished' = [finished EXCEPT ![p] = @ + 1]
  /\ UNCHANGED acked

(* A batch acknowledges records of several partitions at once. *)
Acknowledge ==
  /\ acked' \in [Partitions -> Nat]
  /\ \A p \in Partitions : acked[p] <= acked'[p] /\ acked'[p] <= finished[p]
  /\ UNCHANGED finished

Next == Acknowledge \/ \E p \in Partitions : Finish(p)

Spec == Init /\ [][Next]_vars
=============================================================================
