---------------------------- MODULE MCSlaWorker ----------------------------
(* Small instances of SlaWorker for TLC. *)
EXTENDS SlaWorker, TLC

\* Thresholds within the bound on the clock; levels 3 and 4 out of its reach.
QuickConfig == <<1, 2, 9, 9>>

OneConfig == {QuickConfig}

NoEdits    == {}
DueNow     == {0}
DueOrNever == {0, None}
LaterEdit  == {1}

\* Scans differ in their name only, and invariants do not name them.
ScanSymmetry == Permutations(Scan)

============================================================================
