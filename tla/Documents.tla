------------------------------ MODULE Documents ------------------------------
(***************************************************************************)
(* An outgoing record and its document: the file versions of module        *)
(* DocumentFiles, what the lists and the details show of them, and         *)
(* markDelivered of src/src/outgoing/outgoing.service.ts.                  *)
(*                                                                         *)
(* markDelivered finds the record, updates it and writes the audit row,    *)
(* each statement on its own.  The audit row tells what the update stored. *)
(***************************************************************************)
EXTENDS DocumentFiles, Sequences

CONSTANT Delivery   \* requests that confirm or cancel the delivery

ASSUME DocumentsAssumption == Nothing \notin Delivery

VARIABLES
  step,       \* how far each of those requests is
  delivered,  \* the request whose isDelivered and proof the record has
  trail,      \* the DELIVERY_STATUS rows, by the request they tell of
  crossed     \* two requests have had an update without its audit row at once

deliveryVars == <<step, delivered, trail, crossed>>

allVars == <<fileVars, deliveryVars>>

Updated == {h \in Delivery : step[h] = "updated"}

----------------------------------------------------------------------------

DocumentsInit ==
  /\ FilesInit
  /\ step = [h \in Delivery |-> "new"]
  /\ delivered = Nothing
  /\ trail = << >>
  /\ crossed = FALSE

\* findUnique: the record is there, records are not deleted.
findOutgoing(h) ==
  /\ step[h] = "new"
  /\ step' = [step EXCEPT ![h] = "found"]
  /\ UNCHANGED <<fileVars, delivered, trail, crossed>>

\* Nothing compares with what was found: the last update wins.
updateDelivery(h) ==
  /\ step[h] = "found"
  /\ step' = [step EXCEPT ![h] = "updated"]
  /\ delivered' = h
  /\ crossed' = (crossed \/ Updated # {})
  /\ UNCHANGED <<fileVars, trail>>

\* Fault: the row is written before the update.
auditDeliveryEarly(h) ==
  /\ step[h] \in {"found", "updated"}
  /\ step' = [step EXCEPT ![h] = "done"]
  /\ trail' = Append(trail, h)
  /\ UNCHANGED <<fileVars, delivered, crossed>>

\* Fault: the answer is lost, and the row is written again.
auditDeliveryAgain(h) ==
  /\ step[h] = "updated"
  /\ Len(trail) < 2
  /\ trail' = Append(trail, h)
  /\ UNCHANGED <<fileVars, step, delivered, crossed>>

auditDelivery(h) ==
  /\ step[h] = "updated"
  /\ step' = [step EXCEPT ![h] = "done"]
  /\ trail' = Append(trail, h)
  /\ UNCHANGED <<fileVars, delivered, crossed>>

\* A statement fails or the process dies; what is stored stays stored.
deliveryFails(h) ==
  /\ step[h] \in {"new", "found", "updated"}
  /\ step' = [step EXCEPT ![h] = IF @ = "updated" THEN "untraced" ELSE "failed"]
  /\ UNCHANGED <<fileVars, delivered, trail, crossed>>

markDelivered ==
  \E h \in Delivery :
    \/ findOutgoing(h)
    \/ updateDelivery(h)
    \/ auditDelivery(h)
    \/ deliveryFails(h)

DocumentsNext ==
  \/ FilesNext /\ UNCHANGED deliveryVars
  \/ markDelivered

DocumentsSpec == DocumentsInit /\ [][DocumentsNext]_allVars

----------------------------------------------------------------------------
(* What is shown *)

\* Details list the current versions.
getOne == {r.file : r \in Latest}

\* Lists say whether there is one.
hasFiles == Latest # {}

----------------------------------------------------------------------------
(* Safety *)

\* Every variable has its type, and a request is named in the audit trail once
\* at most, after its update.
DocumentsTypeOK ==
  /\ FilesTypeOK
  /\ step \in [Delivery -> {"new", "found", "updated", "done", "failed", "untraced"}]
  /\ delivered \in Delivery \cup {Nothing}
  /\ trail \in Seq(Delivery)
  /\ crossed \in BOOLEAN
  /\ \A m, n \in DOMAIN trail : trail[m] = trail[n] => m = n
  /\ \A n \in DOMAIN trail : step[trail[n]] = "done"

\* The last audit row of the record tells the delivery it has, once no request
\* is between its update and its row, unless one broke off there or two were
\* there at once: the rows of these two may be in the other order.
TrailTellsDelivery ==
  (Updated = {} /\ ~ crossed /\ \A h \in Delivery : step[h] # "untraced") =>
    IF delivered = Nothing THEN trail = << >>
    ELSE trail # << >> /\ trail[Len(trail)] = delivered

\* Another upload has taken the place of f.
Superseded(f) ==
  \E g \in File : seen[g] = f /\ pc[g] \in {"unflagged", "done", "removed", "failed"}

\* A document that has files is shown with none only while an upload has
\* unflagged the current version and not stored the next, after one broke
\* off, or when the current version was removed: none takes its place.
HiddenFilesExplained ==
  (rows # {} /\ ~ hasFiles) =>
    \E f \in File :
      \/ pc[f] = "unflagged"
      \/ pc[f] = "failed" /\ seen[f] # Nothing
      \/ pc[f] = "removed" /\ ~ Superseded(f)

\* Uploads go on: when none is in progress or has failed, and none but
\* superseded versions have been removed, the number the next one will compute
\* is free.  (After the current version is removed it is not: the next upload
\* starts at 1 again and fails.)
NextVersionIsFree ==
  (\A f \in File : \/ pc[f] \in {"new", "done"}
                   \/ pc[f] = "removed" /\ Superseded(f)) =>
    /\ Latest = {} => 1 \notin Versions
    /\ \A r \in NewestLatest : r.version + 1 \notin Versions

=============================================================================
