--------------------------- MODULE ConnectionPool ---------------------------
(***************************************************************************)
(* The requests of the API and the connections they share: PrismaService   *)
(* has one pool, an interactive transaction keeps a connection from its    *)
(* BEGIN to its end, and three handlers of src/src/incoming/               *)
(* incoming.service.ts read through this.prisma, not through tx, inside    *)
(* theirs and so need a second one.                                        *)
(*                                                                         *)
(* Nothing in the code bounds a wait; Prisma does.  A request that waits   *)
(* for a connection gives up in the end, and an interactive transaction    *)
(* that is open too long is rolled back, which frees its connection and    *)
(* its row while the handler goes on until it touches tx again.            *)
(***************************************************************************)
EXTENDS Naturals, FiniteSets

CONSTANTS
  Request,    \* requests that can be in progress at once
  Pool,       \* the connections there are
  Dist,       \* the rows requests update
  None        \* no row

ASSUME ConnectionPoolAssumption ==
  /\ IsFiniteSet(Request)
  /\ Pool \in Nat \ {0}
  /\ None \notin Dist

VARIABLES
  kind,       \* what each request runs
  row,        \* the row it is about
  pc,         \* where it is
  tx,         \* whether it has a transaction open
  owner       \* the request that has a row locked, by row

vars == <<kind, row, pc, tx, owner>>

\* A handler with a nested read, one without, and a query of its own.
Kind == {"nested", "plain", "query"}

\* "begin", "nested" and "query" wait for a connection; "reading" and
\* "querying" use one for a read of their own; "update" waits for the row.
Place == {"idle", "begin", "nested", "reading", "update", "write", "query", "querying"}

\* Connections in use: one for every transaction and one for every other read.
Reading == {r \in Request : pc[r] \in {"reading", "querying"}}

InTx == {r \in Request : tx[r]}

InUse == Cardinality(InTx) + Cardinality(Reading)

IsFree == InUse < Pool

Init ==
  /\ kind = [r \in Request |-> "query"]
  /\ row = [r \in Request |-> None]
  /\ pc = [r \in Request |-> "idle"]
  /\ tx = [r \in Request |-> FALSE]
  /\ owner = [d \in Dist |-> None]

----------------------------------------------------------------------------

Goto(r, place) == pc' = [pc EXCEPT ![r] = place]

\* The row r has locked is unlocked.
Unlock(r) == owner' = [d \in Dist |-> IF owner[d] = r THEN None ELSE owner[d]]

arrive(r, k, d) ==
  /\ pc[r] = "idle"
  /\ kind' = [kind EXCEPT ![r] = k]
  /\ row' = [row EXCEPT ![r] = d]
  /\ Goto(r, IF k = "query" THEN "query" ELSE "begin")
  /\ UNCHANGED <<tx, owner>>

\* The callback of $transaction starts with a connection of its own.
begin(r) ==
  /\ pc[r] = "begin"
  /\ IsFree
  /\ tx' = [tx EXCEPT ![r] = TRUE]
  /\ Goto(r, IF kind[r] = "nested" THEN "nested" ELSE "update")
  /\ UNCHANGED <<kind, row, owner>>

\* this.prisma.incomingDistribution.findUnique, or any query of no transaction.
read(r) ==
  /\ pc[r] \in {"nested", "query"}
  /\ IsFree
  /\ Goto(r, IF pc[r] = "nested" THEN "reading" ELSE "querying")
  /\ UNCHANGED <<kind, row, tx, owner>>

\* A handler whose transaction is gone fails at its next statement.
readEnds(r) ==
  /\ pc[r] \in {"reading", "querying"}
  /\ Goto(r, IF pc[r] = "reading" /\ tx[r] THEN "update" ELSE "idle")
  /\ UNCHANGED <<kind, row, tx, owner>>

\* Fault: the row is locked first, and read through this.prisma after that.
updateThenRead(r) ==
  /\ pc[r] = "update" /\ tx[r]
  /\ owner[row[r]] = None
  /\ owner' = [owner EXCEPT ![row[r]] = r]
  /\ Goto(r, IF kind[r] = "nested" THEN "nested" ELSE "write")
  /\ UNCHANGED <<kind, row, tx>>

\* tx.incomingDistribution.update.
update(r) ==
  /\ pc[r] = "update" /\ tx[r]
  /\ owner[row[r]] = None
  /\ owner' = [owner EXCEPT ![row[r]] = r]
  /\ Goto(r, "write")
  /\ UNCHANGED <<kind, row, tx>>

\* The remaining statements and the commit.
commit(r) ==
  /\ pc[r] = "write" /\ tx[r]
  /\ tx' = [tx EXCEPT ![r] = FALSE]
  /\ Unlock(r)
  /\ Goto(r, "idle")
  /\ UNCHANGED <<kind, row>>

\* Fault: a wait for a second connection has no limit.
giveUpFirstOnly(r) ==
  /\ pc[r] \in {"begin", "query"}
  /\ Goto(r, "idle")
  /\ UNCHANGED <<kind, row, tx, owner>>

\* The wait for a connection was too long, and the request fails.
giveUp(r) ==
  /\ pc[r] \in {"begin", "nested", "query"}
  /\ tx' = [tx EXCEPT ![r] = FALSE]
  /\ Unlock(r)
  /\ Goto(r, "idle")
  /\ UNCHANGED <<kind, row>>

\* Fault: a transaction that has expired keeps its row.
expireKeepsRow(r) ==
  /\ tx[r]
  /\ tx' = [tx EXCEPT ![r] = FALSE]
  /\ Goto(r, IF pc[r] \in {"update", "write"} THEN "idle" ELSE pc[r])
  /\ UNCHANGED <<kind, row, owner>>

\* The transaction was open too long.  A handler that waits for the database
\* fails with it, one that waits for a connection or reads does not notice yet.
expire(r) ==
  /\ tx[r]
  /\ tx' = [tx EXCEPT ![r] = FALSE]
  /\ Unlock(r)
  /\ Goto(r, IF pc[r] \in {"update", "write"} THEN "idle" ELSE pc[r])
  /\ UNCHANGED <<kind, row>>

\* The steps of a request once it has arrived that no time limit takes.
Work(r) == begin(r) \/ read(r) \/ readEnds(r) \/ update(r) \/ commit(r)

Next ==
  \E r \in Request :
    \/ \E k \in Kind, d \in Dist : arrive(r, k, d)
    \/ Work(r)
    \/ giveUp(r)
    \/ expire(r)

Spec == Init /\ [][Next]_vars

\* What the database and Prisma do for a request, sooner or later; clients
\* need not send any.
FairSpec ==
  Spec /\ \A r \in Request : WF_vars(Work(r)) /\ WF_vars(giveUp(r)) /\ WF_vars(expire(r))

----------------------------------------------------------------------------

\* Every variable has its type, a row is locked by an open transaction
\* only, and no more connections are in use than there are.
TypeOK ==
  /\ kind \in [Request -> Kind]
  /\ row \in [Request -> Dist \cup {None}]
  /\ pc \in [Request -> Place]
  /\ tx \in [Request -> BOOLEAN]
  /\ owner \in [Dist -> Request \cup {None}]
  /\ \A d \in Dist : owner[d] # None => tx[owner[d]]
  /\ InUse <= Pool

\* The requests that cannot go on before another one has gone on.
AwaitsConnection(r) == pc[r] \in {"begin", "nested", "query"} /\ ~ IsFree

AwaitsRow(r) == pc[r] = "update" /\ owner[row[r]] # None

Stuck == \A r \in Request : pc[r] # "idle" => AwaitsConnection(r) \/ AwaitsRow(r)

\* If every request waits and only a time limit can help, then each connection
\* is held by a handler that reads through this.prisma inside its transaction:
\* waits for rows, and transactions that keep to tx, never block one another.
OnlyNestedReadsBlock ==
  (Stuck /\ \E r \in Request : pc[r] # "idle") =>
    /\ Cardinality(InTx) = Pool
    /\ \A r \in InTx : pc[r] = "nested"

\* Every request ends, with an answer or with an error, even when all of the
\* connections are held by handlers that wait for another one.
EveryRequestEnds == \A r \in Request : pc[r] # "idle" ~> pc[r] = "idle"

=============================================================================
