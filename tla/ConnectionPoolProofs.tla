------------------------ MODULE ConnectionPoolProofs ------------------------
(***************************************************************************)
(* Proofs about module ConnectionPool, for any number of requests, rows    *)
(* and connections: the pool is never overdrawn, and nothing but reads     *)
(* through this.prisma inside a transaction can bring it to a standstill.  *)
(***************************************************************************)
EXTENDS ConnectionPool, FiniteSetTheorems, TLAPS

----------------------------------------------------------------------------
(* The connections in use *)

\* Requests are finitely many, so connections in use can be counted.
LEMMA InUseType ==
  /\ IsFiniteSet(InTx) /\ IsFiniteSet(Reading)
  /\ Cardinality(InTx) \in Nat /\ Cardinality(Reading) \in Nat
<1>1. InTx \in SUBSET Request /\ Reading \in SUBSET Request
  BY DEF InTx, Reading
<1>2. IsFiniteSet(InTx) /\ IsFiniteSet(Reading)
  BY <1>1, FS_Subset, ConnectionPoolAssumption
<1> QED
  BY <1>2, FS_CardinalityType

\* A step that opens no transaction and begins no read takes no connection.
LEMMA NoneTaken ==
  ASSUME InUse <= Pool, InTx' \subseteq InTx, Reading' \subseteq Reading
  PROVE  (InUse <= Pool)'
<1>1. /\ Cardinality(InTx') \in Nat /\ Cardinality(InTx') <= Cardinality(InTx)
      /\ Cardinality(Reading') \in Nat /\ Cardinality(Reading') <= Cardinality(Reading)
  <2>1. IsFiniteSet(InTx') /\ IsFiniteSet(Reading')
    BY InUseType, FS_Subset
  <2>2. Cardinality(InTx') <= Cardinality(InTx)
    BY InUseType, FS_Subset
  <2>3. Cardinality(Reading') <= Cardinality(Reading)
    BY InUseType, FS_Subset
  <2> QED
    BY <2>1, <2>2, <2>3, FS_CardinalityType
<1> QED
  BY <1>1, InUseType, ConnectionPoolAssumption DEF InUse

\* A step that opens one transaction, or begins one read, needs one that is free.
LEMMA OneTaken ==
  ASSUME NEW r, IsFree,
         \/ InTx' = InTx \cup {r} /\ Reading' = Reading
         \/ InTx' = InTx /\ Reading' = Reading \cup {r}
  PROVE  (InUse <= Pool)'
<1>1. ASSUME NEW S, IsFiniteSet(S)
      PROVE  Cardinality(S \cup {r}) \in Nat /\ Cardinality(S \cup {r}) <= Cardinality(S) + 1
  <2>1. Cardinality(S) \in Nat
    BY <1>1, FS_CardinalityType
  <2>2. Cardinality(S \cup {r}) = IF r \in S THEN Cardinality(S) ELSE Cardinality(S) + 1
    BY <1>1, FS_AddElement
  <2> QED
    BY <2>1, <2>2
<1>2. /\ Cardinality(InTx \cup {r}) \in Nat
      /\ Cardinality(InTx \cup {r}) <= Cardinality(InTx) + 1
  BY <1>1, InUseType
<1>3. /\ Cardinality(Reading \cup {r}) \in Nat
      /\ Cardinality(Reading \cup {r}) <= Cardinality(Reading) + 1
  BY <1>1, InUseType
<1>4. /\ Pool \in Nat
      /\ Cardinality(InTx) + Cardinality(Reading) < Pool
  BY ConnectionPoolAssumption DEF InUse, IsFree
<1>5. CASE InTx' = InTx \cup {r} /\ Reading' = Reading
  BY <1>2, <1>4, <1>5, InUseType DEF InUse
<1>6. CASE InTx' = InTx /\ Reading' = Reading \cup {r}
  BY <1>3, <1>4, <1>6, InUseType DEF InUse
<1> QED
  BY <1>5, <1>6

----------------------------------------------------------------------------
(* Where transactions and locks are *)

\* The type invariant without the rows and the count.
VarsTypeOK ==
  /\ kind \in [Request -> Kind]
  /\ row \in [Request -> Dist \cup {None}]
  /\ pc \in [Request -> Place]
  /\ tx \in [Request -> BOOLEAN]
  /\ owner \in [Dist -> Request \cup {None}]

\* A transaction is open from the begin to the commit only, and where a
\* handler needs one it has it.
TxIsPlaced ==
  \A r \in Request :
    /\ tx[r] => pc[r] \in {"nested", "reading", "update", "write"}
    /\ pc[r] \in {"update", "write"} => tx[r]

\* Who has a row locked has no wait before its commit.
OwnersWrite == \A d \in Dist : owner[d] # None => tx[owner[d]] /\ pc[owner[d]] = "write"

\* A request under way is about a row.
RowsAreRows == \A r \in Request : pc[r] # "idle" => row[r] \in Dist

PoolInv == VarsTypeOK /\ TxIsPlaced /\ OwnersWrite /\ RowsAreRows /\ InUse <= Pool

LEMMA PoolInvInit == Init => PoolInv
<1> SUFFICES ASSUME Init PROVE PoolInv
  OBVIOUS
<1>1. VarsTypeOK
  BY DEF Init, VarsTypeOK, Kind, Place
<1>2. TxIsPlaced /\ OwnersWrite /\ RowsAreRows
  BY DEF Init, TxIsPlaced, OwnersWrite, RowsAreRows
<1>3. InTx = {} /\ Reading = {}
  BY DEF Init, InTx, Reading
<1>4. InUse <= Pool
  BY <1>3, FS_EmptySet, ConnectionPoolAssumption DEF InUse
<1> QED
  BY <1>1, <1>2, <1>4 DEF PoolInv

\* What a time limit does, at any place: the transaction and the row are gone.
LEMMA EndKeepsInv ==
  ASSUME PoolInv, NEW r \in Request, NEW place \in {"idle", pc[r]},
         place \notin {"update", "write"},
         tx' = [tx EXCEPT ![r] = FALSE], Unlock(r), Goto(r, place), UNCHANGED <<kind, row>>
  PROVE  PoolInv'
<1> USE DEF PoolInv
<1>1. VarsTypeOK'
  BY DEF VarsTypeOK, Unlock, Goto, Place
<1>2. TxIsPlaced'
  BY DEF VarsTypeOK, TxIsPlaced, Goto
<1>3. OwnersWrite'
  <2> SUFFICES ASSUME NEW d \in Dist, owner'[d] # None
               PROVE  tx'[owner'[d]] /\ pc'[owner'[d]] = "write"
    BY DEF OwnersWrite
  <2>1. owner'[d] = owner[d] /\ owner[d] # r /\ owner[d] \in Request
    BY DEF VarsTypeOK, Unlock
  <2> QED
    BY <2>1 DEF VarsTypeOK, OwnersWrite, Goto
<1>4. RowsAreRows'
  BY DEF VarsTypeOK, RowsAreRows, Goto
<1>5. (InUse <= Pool)'
  <2>1. InTx' \subseteq InTx
    BY DEF InTx, VarsTypeOK
  <2>2. Reading' \subseteq Reading
    BY DEF Reading, VarsTypeOK, Goto
  <2> QED
    BY <2>1, <2>2, NoneTaken
<1> QED
  BY <1>1, <1>2, <1>3, <1>4, <1>5

LEMMA PoolInvStep == PoolInv /\ [Next]_vars => PoolInv'
<1> SUFFICES ASSUME PoolInv, [Next]_vars PROVE PoolInv'
  OBVIOUS
<1> USE DEF PoolInv
<1>1. ASSUME NEW r \in Request, NEW k \in Kind, NEW d \in Dist, arrive(r, k, d)
      PROVE  PoolInv'
  <2> USE <1>1 DEF arrive, Goto
  <2>1. VarsTypeOK'
    BY DEF VarsTypeOK, Place
  <2>2. TxIsPlaced' /\ OwnersWrite' /\ RowsAreRows'
    <3>1. TxIsPlaced'
      BY DEF VarsTypeOK, TxIsPlaced
    <3>2. OwnersWrite'
      BY DEF VarsTypeOK, OwnersWrite
    <3>3. RowsAreRows'
      BY DEF VarsTypeOK, RowsAreRows
    <3> QED
      BY <3>1, <3>2, <3>3
  <2>3. InTx' = InTx /\ Reading' \subseteq Reading
    BY DEF VarsTypeOK, InTx, Reading
  <2> QED
    BY <2>1, <2>2, <2>3, NoneTaken
<1>2. ASSUME NEW r \in Request, begin(r) PROVE PoolInv'
  <2> USE <1>2 DEF begin, Goto
  <2>1. VarsTypeOK'
    BY DEF VarsTypeOK, Place
  <2>2. TxIsPlaced' /\ RowsAreRows'
    BY DEF VarsTypeOK, TxIsPlaced, RowsAreRows
  <2>3. OwnersWrite'
    BY DEF VarsTypeOK, OwnersWrite
  <2>4. InTx' = InTx \cup {r} /\ Reading' = Reading
    BY DEF VarsTypeOK, InTx, Reading
  <2> QED
    BY <2>1, <2>2, <2>3, <2>4, OneTaken
<1>3. ASSUME NEW r \in Request, read(r) PROVE PoolInv'
  <2> USE <1>3 DEF read, Goto
  <2>1. VarsTypeOK'
    BY DEF VarsTypeOK, Place
  <2>2. TxIsPlaced' /\ RowsAreRows'
    BY DEF VarsTypeOK, TxIsPlaced, RowsAreRows
  <2>3. OwnersWrite'
    BY DEF VarsTypeOK, OwnersWrite
  <2>4. InTx' = InTx /\ Reading' = Reading \cup {r}
    BY DEF VarsTypeOK, InTx, Reading
  <2> QED
    BY <2>1, <2>2, <2>3, <2>4, OneTaken
<1>4. ASSUME NEW r \in Request, readEnds(r) PROVE PoolInv'
  <2> USE <1>4 DEF readEnds, Goto
  <2>1. VarsTypeOK'
    BY DEF VarsTypeOK, Place
  <2>2. TxIsPlaced'
    BY DEF VarsTypeOK, TxIsPlaced
  <2>3. OwnersWrite' /\ RowsAreRows'
    BY DEF VarsTypeOK, OwnersWrite, RowsAreRows
  <2>4. InTx' = InTx /\ Reading' \subseteq Reading
    BY DEF VarsTypeOK, InTx, Reading
  <2> QED
    BY <2>1, <2>2, <2>3, <2>4, NoneTaken
<1>5. ASSUME NEW r \in Request, update(r) PROVE PoolInv'
  <2> USE <1>5 DEF update, Goto
  <2>1. VarsTypeOK'
    BY DEF VarsTypeOK, Place
  <2>2. TxIsPlaced' /\ RowsAreRows'
    BY DEF VarsTypeOK, TxIsPlaced, RowsAreRows
  <2>3. OwnersWrite'
    <3> SUFFICES ASSUME NEW d \in Dist, owner'[d] # None
                 PROVE  tx'[owner'[d]] /\ pc'[owner'[d]] = "write"
      BY DEF OwnersWrite
    <3>1. CASE d = row[r]
      BY <3>1 DEF VarsTypeOK
    <3>2. CASE d # row[r]
      <4>1. owner'[d] = owner[d] /\ owner[d] \in Request
        BY <3>2 DEF VarsTypeOK
      <4> QED
        BY <4>1 DEF VarsTypeOK, OwnersWrite
    <3> QED
      BY <3>1, <3>2
  <2>4. InTx' = InTx /\ Reading' \subseteq Reading
    BY DEF VarsTypeOK, InTx, Reading
  <2> QED
    BY <2>1, <2>2, <2>3, <2>4, NoneTaken
<1>6. ASSUME NEW r \in Request, commit(r) \/ giveUp(r) PROVE PoolInv'
  BY <1>6, EndKeepsInv DEF commit, giveUp
<1>7. ASSUME NEW r \in Request, expire(r) PROVE PoolInv'
  <2>1. CASE pc[r] \in {"update", "write"}
    BY <1>7, <2>1, EndKeepsInv DEF expire
  <2>2. CASE pc[r] \notin {"update", "write"}
    BY <1>7, <2>2, EndKeepsInv DEF expire
  <2> QED
    BY <2>1, <2>2
<1>8. CASE UNCHANGED vars
  <2>1. InTx' = InTx /\ Reading' = Reading
    BY <1>8 DEF vars, InTx, Reading
  <2>2. VarsTypeOK' /\ TxIsPlaced' /\ OwnersWrite' /\ RowsAreRows'
    BY <1>8 DEF vars, VarsTypeOK, TxIsPlaced, OwnersWrite, RowsAreRows
  <2> QED
    BY <2>1, <2>2, NoneTaken
<1> QED
  BY <1>1, <1>2, <1>3, <1>4, <1>5, <1>6, <1>7, <1>8 DEF Next, Work

LEMMA PoolInvariance == Spec => []PoolInv
BY PoolInvInit, PoolInvStep, PTL DEF Spec

----------------------------------------------------------------------------
(* The theorems *)

\* Every variable has its type, only an open transaction has a row locked, and
\* the pool never gives out more connections than it has.
THEOREM PoolTypeCorrect == Spec => []TypeOK
<1>1. PoolInv => TypeOK
  BY DEF PoolInv, VarsTypeOK, OwnersWrite, TypeOK
<1> QED
  BY <1>1, PoolInvariance, PTL

\* A standstill needs every connection in the hands of a handler that waits
\* for a second one: a handler that keeps to its transaction, and a wait for a
\* row, cannot be part of one.
THEOREM OnlyNestedReadsCanBlock == Spec => []OnlyNestedReadsBlock
<1>1. PoolInv => OnlyNestedReadsBlock
  <2> SUFFICES ASSUME PoolInv, Stuck, \E r \in Request : pc[r] # "idle"
               PROVE  /\ Cardinality(InTx) = Pool
                      /\ \A r \in InTx : pc[r] = "nested"
    BY DEF OnlyNestedReadsBlock
  <2> USE DEF PoolInv
  <2>1. \A r \in Request : ~ AwaitsRow(r)
    <3> SUFFICES ASSUME NEW r \in Request, AwaitsRow(r) PROVE FALSE
      OBVIOUS
    <3> DEFINE o == owner[row[r]]
    <3>1. row[r] \in Dist
      BY DEF AwaitsRow, RowsAreRows
    <3>2. o \in Request /\ pc[o] = "write"
      BY <3>1 DEF AwaitsRow, VarsTypeOK, OwnersWrite
    <3> QED
      BY <3>2 DEF Stuck, AwaitsRow, AwaitsConnection
  <2>2. \A r \in Request : pc[r] # "idle" => AwaitsConnection(r)
    BY <2>1 DEF Stuck
  <2>3. InUse = Pool
    BY <2>2, InUseType, ConnectionPoolAssumption DEF AwaitsConnection, IsFree, InUse
  <2>4. Reading = {}
    BY <2>2 DEF AwaitsConnection, Reading
  <2>5. Cardinality(InTx) = Pool
    BY <2>3, <2>4, InUseType, FS_EmptySet DEF InUse
  <2>6. ASSUME NEW r \in InTx PROVE pc[r] = "nested"
    <3>1. r \in Request /\ pc[r] \in {"nested", "reading", "update", "write"}
      BY DEF InTx, TxIsPlaced
    <3> QED
      BY <3>1, <2>2 DEF AwaitsConnection
  <2> QED
    BY <2>5, <2>6
<1> QED
  BY <1>1, PoolInvariance, PTL

=============================================================================
