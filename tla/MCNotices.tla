----------------------------- MODULE MCNotices -----------------------------
(* Notices with the small constants of MCSlaWorker. *)
EXTENDS Notices, MCSlaWorker

\* Distributions differ in their name only, too.
RecordSymmetry == ScanSymmetry \cup Permutations(DistId)

ScansOverlap ==
  \E s, t \in Scan : s # t /\ scan[s].pc # "idle" /\ scan[t].pc # "idle"

\* Scans overlap at the first level only, and beside the requests of one
\* distribution.
OverlapIsSmall ==
  /\ ScansOverlap => /\ now <= 1
                     /\ \E d \in DistId : \A e \in DistId \ {d} : RequestRows(e) = {}
  /\ behind \cup crossed # {} => now <= 1

============================================================================
