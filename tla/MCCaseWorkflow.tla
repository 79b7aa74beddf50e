--------------------------- MODULE MCCaseWorkflow ---------------------------
(* The instances of CaseWorkflow that are model-checked.                   *)
EXTENDS CaseInvariant, TLC

CONSTANTS d1, d2

Report(status, identity, viable) ==
  [status |-> status, identity |-> identity, viable |-> viable]
Good == Report("VALID", TRUE, FALSE)
Curable == Report("DEFECTIVE_WITH_AIRAM", TRUE, TRUE)
Foreign == Report("VALID", FALSE, FALSE)
Useless == Report("DEFECTIVE_NO_AIRAM", TRUE, FALSE)

AllReports == {Good, Curable, Foreign, Useless}
TwoReports == {Good, Curable}
NoGoodReport == {Useless}
=============================================================================
