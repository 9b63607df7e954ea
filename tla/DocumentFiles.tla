--------------------------- MODULE DocumentFiles ---------------------------
(***************************************************************************)
(* The file versions of one document: upload and remove of                 *)
(* src/src/files/files.controller.ts on DocumentFile.  (Documents share no *)
(* rows, so one is enough.)                                                *)
(*                                                                         *)
(* Neither handler uses a transaction: each statement commits on its own,  *)
(* other handlers run between any two, and a crash leaves the first ones   *)
(* done.  An upload is known by the file it stores, which is its own.      *)
(***************************************************************************)
EXTENDS Naturals, FiniteSets

CONSTANTS
  Nothing, \* null
  File    \* the uploads: bounds their number

ASSUME DocumentFilesAssumption == Nothing \notin File

VARIABLES
  rows,   \* DocumentFile rows of the document
  pc,     \* how far each upload is; removed once its row is deleted
  seen,   \* the row it found to be the latest version
  next    \* the version number it computed

fileVars == <<rows, pc, seen, next>>

FileRow == [file : File, version : Nat, latest : BOOLEAN]

Latest == {r \in rows : r.latest}

\* orderBy versionNumber desc, first row.
NewestLatest == {r \in Latest : \A q \in Latest : q.version <= r.version}

Versions == {r.version : r \in rows}

----------------------------------------------------------------------------

FilesInit ==
  /\ rows = {}
  /\ pc = [f \in File |-> "new"]
  /\ seen = [f \in File |-> Nothing]
  /\ next = [f \in File |-> 0]

\* Fault: the version is counted, not taken from the latest row.
findLatestByCount(f) ==
  /\ pc[f] = "new"
  /\ pc' = [pc EXCEPT ![f] = "found"]
  /\ next' = [next EXCEPT ![f] = Cardinality(rows) + 1]
  /\ \/ Latest = {} /\ UNCHANGED seen
     \/ \E r \in NewestLatest : seen' = [seen EXCEPT ![f] = r.file]
  /\ UNCHANGED rows

\* The body has been stored and hashed; nextVersion is computed.
findLatest(f) ==
  /\ pc[f] = "new"
  /\ pc' = [pc EXCEPT ![f] = "found"]
  /\ \/ /\ Latest = {}
        /\ next' = [next EXCEPT ![f] = 1]
        /\ UNCHANGED seen
     \/ \E r \in NewestLatest :
          /\ next' = [next EXCEPT ![f] = r.version + 1]
          /\ seen' = [seen EXCEPT ![f] = r.file]
  /\ UNCHANGED rows

Unflag(r) == [r EXCEPT !.latest = FALSE]

\* The update by id fails when the row has been removed in between.
unflagLatest(f) ==
  /\ pc[f] = "found"
  /\ seen[f] # Nothing
  /\ \E r \in rows : r.file = seen[f] /\ rows' = (rows \ {r}) \cup {Unflag(r)}
  /\ pc' = [pc EXCEPT ![f] = "unflagged"]
  /\ UNCHANGED <<seen, next>>

\* Fault: the new row may come before the old one is unflagged.
ReadyToCreateAtOnce(f) == pc[f] \in {"found", "unflagged"}

ReadyToCreate(f) == pc[f] = "unflagged" \/ (pc[f] = "found" /\ seen[f] = Nothing)

\* Fault: the new row does not say that it is the latest.
createRowUnmarked(f) ==
  /\ ReadyToCreate(f)
  /\ next[f] \notin Versions
  /\ rows' = rows \cup {[file |-> f, version |-> next[f], latest |-> FALSE]}
  /\ pc' = [pc EXCEPT ![f] = "done"]
  /\ UNCHANGED <<seen, next>>

\* (documentId, versionNumber) is unique.
createRow(f) ==
  /\ ReadyToCreate(f)
  /\ next[f] \notin Versions
  /\ rows' = rows \cup {[file |-> f, version |-> next[f], latest |-> TRUE]}
  /\ pc' = [pc EXCEPT ![f] = "done"]
  /\ UNCHANGED <<seen, next>>

\* A statement fails (a missing row, a version taken, no connection) or the
\* process dies: what the upload has done so far stays done.
uploadFails(f) ==
  /\ pc[f] \in {"new", "found", "unflagged"}
  /\ pc' = [pc EXCEPT ![f] = "failed"]
  /\ UNCHANGED <<rows, seen, next>>

\* The row goes, whatever version it is; no other row takes its place.
remove(f) ==
  /\ \E r \in rows : r.file = f /\ rows' = rows \ {r}
  /\ pc' = [pc EXCEPT ![f] = "removed"]
  /\ UNCHANGED <<seen, next>>

FilesNext ==
  \E f \in File :
    \/ findLatest(f)
    \/ unflagLatest(f)
    \/ createRow(f)
    \/ uploadFails(f)
    \/ remove(f)

FilesSpec == FilesInit /\ [][FilesNext]_fileVars

----------------------------------------------------------------------------
(* Safety *)

\* Every variable has its type.
FilesTypeOK ==
  /\ rows \in SUBSET FileRow
  /\ pc \in [File -> {"new", "found", "unflagged", "done", "failed", "removed"}]
  /\ seen \in [File -> File \cup {Nothing}]
  /\ next \in [File -> Nat]

NothingRemoved == \A f \in File : pc[f] # "removed"

\* A document is listed with one current version at most, however uploads
\* overlap or break off: isLatestVersion marks no row but the newest.
LatestIsNewest ==
  NothingRemoved => \A r \in Latest : \A q \in rows : q.version >= r.version => q = r

=============================================================================
