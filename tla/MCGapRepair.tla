---------------------------- MODULE MCGapRepair ----------------------------
(* Small instances of GapRepair for TLC. *)
EXTENDS GapRepair

CONSTANTS p1, p2

\* Event times follow the offsets; rows of two partitions have the same.
OneByOne == [r \in AllRows |-> r[2]]
NoRowSuspect == {}
Nothing == -1
=============================================================================
