--------------------------- MODULE PublishedReport ---------------------------
(***************************************************************************)
(* What the daily job promises to the readers of a date's report: while it *)
(* is published it is the work of one run from acceptable inputs, and      *)
(* nothing of it changes but for files that are lost.  Before another run  *)
(* replaces anything the report is withdrawn.  Which processes run, fail   *)
(* or die meanwhile is not visible.                                        *)
(***************************************************************************)
CONSTANTS
  Formats,   \* export formats
  Damaged,   \* content of a lost or damaged export
  Inputs     \* inputs from which a report may be computed

VARIABLE shown   \* the published report, if there is one

\* Rows and files are those of one run.
Whole(report) == \A f \in Formats : report.files[f] = report.rows

Init == shown = {}

Publish ==
  /\ shown = {}
  /\ \A report \in shown' : Whole(report) /\ report.input \in Inputs
  /\ \A r, s \in shown' : r = s

Withdraw == shown' = {}

LoseFile ==
  \E report \in shown, f \in Formats :
    shown' = {[report EXCEPT !.files[f] = Damaged]}

Next == Publish \/ Withdraw \/ LoseFile

Spec == Init /\ [][Next]_shown
=============================================================================
