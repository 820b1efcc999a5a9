-------------------------- MODULE MCEventPipeline ---------------------------
(* Instances of EventPipeline for TLC. *)
EXTENDS EventPipeline, TLC

CONSTANTS k1, k2, p1

(* One key, or two on one partition. *)
OwnerSingle == k1 :> p1
OwnerShared == k1 :> p1 @@ k2 :> p1

TagsNone  == {}
TagsBlank == {{Blank}}

EventIDSymmetry == Permutations(EventIDs)
=============================================================================
