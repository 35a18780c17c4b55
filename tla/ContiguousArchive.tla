-------------------------- MODULE ContiguousArchive --------------------------
(***************************************************************************)
(* What the raw archive promises to the batch layer: per Kafka partition   *)
(* the archive accounts for one run of consecutive offsets, and it only    *)
(* ever grows at the upper end of that run.  How often ranges are replayed,*)
(* and which writer archives them, is not visible.                         *)
(***************************************************************************)
EXTENDS Integers

CONSTANTS Partitions

VARIABLE archived    \* offsets accounted for, per partition

\* a .. b for any two members: the set has no hole.
IsRun(s) == \A a, b \in s : a .. b \subseteq s

Init == archived = [p \in Partitions |-> {}]

\* New offsets continue the run of their partition, or begin it.
Extend ==
  \A p \in Partitions :
    /\ archived[p] \subseteq archived'[p]
    /\ IsRun(archived'[p])
    /\ \A new \in archived'[p] \ archived[p], old \in archived[p] : old < new

Next ==
  /\ DOMAIN archived' = Partitions
  /\ Extend

Spec == Init /\ [][Next]_archived
=============================================================================
