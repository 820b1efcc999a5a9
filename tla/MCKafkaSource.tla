--------------------------- MODULE MCKafkaSource ---------------------------
(* Instances of KafkaSource for TLC. *)
EXTENDS KafkaSource, TLC

Symmetry == Permutations(Members) \cup Permutations(Partitions)
=============================================================================
