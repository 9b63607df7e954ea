---------------------------- MODULE RecordsProofs ----------------------------
(***************************************************************************)
(* Proofs about the records the archive keeps.  Module Registry: whatever  *)
(* registrations overlap, fail or cross a new year, both registers issue   *)
(* the numbers of a year one by one, and a party has never more copies     *)
(* than there are handlers.  Modules DocumentFiles and Documents, for any  *)
(* number of uploads and of confirmations of a delivery: which version is  *)
(* current, when none is, when the next upload will work, and what the     *)
(* trail tells.                                                            *)
(***************************************************************************)
EXTENDS Registry, Documents, FiniteSetTheorems, TLAPS

----------------------------------------------------------------------------
(* Types of Registry *)

\* The records are finitely many, or they could not be counted.
TypeInv == TypeOK /\ IsFiniteSet(incoming)

LEMMA TypeInit == Init => TypeInv
<1> SUFFICES ASSUME Init PROVE TypeInv
  OBVIOUS
<1>1. IsFiniteSet(incoming)
  BY FS_EmptySet DEF Init
<1>2. Idle \in Progress
  BY RegistryAssumption DEF Idle, Progress
<1>3. \A g \in Registrar : reg[g].op = "none"
  BY DEF Init, Idle
<1>4. TypeOK
  BY <1>2, <1>3, RegistryAssumption DEF Init, TypeOK
<1> QED BY <1>1, <1>4 DEF TypeInv

LEMMA IdleType == Idle \in Progress /\ Idle.op = "none"
BY RegistryAssumption DEF Idle, Progress

\* The record a commit adds is a record, of a document that had none.
LEMMA RecordType ==
  ASSUME TypeOK, NEW g \in Registrar, reg[g].seq # 0, FreeDocs # {}
  PROVE  /\ RecordOf(g) \in Record
         /\ RecordOf(g).year = reg[g].year
         /\ RecordOf(g).seq = reg[g].seq
<1>1. (CHOOSE d \in FreeDocs : TRUE) \in Doc
  BY DEF FreeDocs
<1>2. reg[g].year \in Year /\ reg[g].seq \in Nat
  BY DEF TypeOK, Progress
<1> QED BY <1>1, <1>2 DEF RecordOf, Record

LEMMA PartyType ==
  ASSUME TypeOK, NEW g \in Registrar, reg[g].op # "none", AddParty(g)
  PROVE  party' \in [Name -> Nat]
BY DEF TypeOK, AddParty

\* The records of a year are finitely many, and each is one of all.
LEMMA OfYearFinite ==
  ASSUME NEW records, IsFiniteSet(records), NEW y
  PROVE  IsFiniteSet(OfYear(records, y)) /\ Cardinality(OfYear(records, y)) \in Nat
<1>1. OfYear(records, y) \subseteq records
  BY DEF OfYear
<1> QED BY <1>1, FS_Subset, FS_CardinalityType

LEMMA TypeStep == TypeInv /\ [Next]_vars => TypeInv'
<1> SUFFICES ASSUME TypeInv, [Next]_vars PROVE TypeInv'
  OBVIOUS
<1> USE IdleType DEF TypeInv
<1>1. ASSUME NEW g \in Registrar, NEW n \in Name, NEW op \in {"incoming", "outgoing"},
             begin(g, op, n)
      PROVE  TypeInv'
  BY <1>1 DEF begin, TypeOK, Progress
<1>2. ASSUME NEW g \in Registrar, generateIncomingNumber(g)
      PROVE  TypeInv'
  <2>1. Cardinality(OfYear(incoming, reg[g].year)) + 1 \in Nat
    BY OfYearFinite
  <2> QED BY <1>2, <2>1 DEF generateIncomingNumber, TypeOK, Progress
<1>3. ASSUME NEW g \in Registrar, generateOutgoingNumber(g)
      PROVE  TypeInv'
  <2>1. reg[g].year \in Year /\ lastNumber[reg[g].year] + 1 \in Nat
    BY DEF TypeOK, Progress
  <2> QED BY <1>3, <2>1 DEF generateOutgoingNumber, TypeOK, Progress
<1>4. ASSUME NEW g \in Registrar, commitIncoming(g)
      PROVE  TypeInv'
  <2>1. RecordOf(g) \in Record /\ party' \in [Name -> Nat]
    BY <1>4, RecordType, PartyType DEF commitIncoming
  <2>2. IsFiniteSet(incoming')
    BY <1>4, FS_AddElement DEF commitIncoming
  <2> QED BY <1>4, <2>1, <2>2 DEF commitIncoming, TypeOK
<1>5. ASSUME NEW g \in Registrar, commitOutgoing(g)
      PROVE  TypeInv'
  <2>1. RecordOf(g) \in Record /\ party' \in [Name -> Nat]
    BY <1>5, RecordType, PartyType DEF commitOutgoing
  <2>2. reg[g].year \in Year /\ reg[g].seq \in Nat
    BY DEF TypeOK, Progress
  <2> QED BY <1>5, <2>1, <2>2 DEF commitOutgoing, TypeOK
<1>6. ASSUME NEW g \in Registrar, rollback(g)
      PROVE  TypeInv'
  BY <1>6 DEF rollback, TypeOK
<1>7. CASE newYear
  BY <1>7 DEF newYear, TypeOK
<1>8. CASE UNCHANGED vars
  BY <1>8 DEF vars, TypeOK
<1> QED BY <1>1, <1>2, <1>3, <1>4, <1>5, <1>6, <1>7, <1>8 DEF Next

LEMMA TypeInvariant == Spec => []TypeInv
BY TypeInit, TypeStep, PTL DEF Spec

\* Every variable of a registration has its type throughout.
THEOREM RegistryTypeCorrect == Spec => []TypeOK
<1>1. TypeInv => TypeOK
  BY DEF TypeInv
<1> QED BY <1>1, TypeInvariant, PTL

----------------------------------------------------------------------------
(* Numbers of a year *)

\* A year of a register: its numbers are 1 .. n for its n records.
Counted(records, y) == Numbers(records, y) = 1 .. Cardinality(OfYear(records, y))

LEMMA NextNumber ==
  ASSUME NEW records, IsFiniteSet(records), NEW r, r \notin records, NEW y \in Year,
         r.year = y, Counted(records, y),
         r.seq = Cardinality(OfYear(records, y)) + 1
  PROVE  /\ Cardinality(OfYear(records \cup {r}, y)) = Cardinality(OfYear(records, y)) + 1
         /\ Numbers(records \cup {r}, y) = Numbers(records, y) \cup {r.seq}
         /\ Counted(records \cup {r}, y)
<1> DEFINE n == Cardinality(OfYear(records, y))
<1>1. IsFiniteSet(OfYear(records, y)) /\ n \in Nat
  BY OfYearFinite
<1>2. OfYear(records \cup {r}, y) = OfYear(records, y) \cup {r} /\ r \notin OfYear(records, y)
  BY DEF OfYear
<1>3. Cardinality(OfYear(records \cup {r}, y)) = n + 1
  <2>1. \A S, x : IsFiniteSet(S) /\ x \notin S => Cardinality(S \cup {x}) = Cardinality(S) + 1
    BY FS_AddElement
  <2> QED BY <1>1, <1>2, <2>1
<1>4. Numbers(records \cup {r}, y) = Numbers(records, y) \cup {r.seq}
  BY <1>2 DEF Numbers
<1>5. (1 .. n) \cup {n + 1} = 1 .. (n + 1)
  BY <1>1
<1> QED BY <1>3, <1>4, <1>5 DEF Counted

\* The other years keep theirs.
LEMMA OtherYears ==
  ASSUME NEW records, NEW r, NEW y, r.year # y
  PROVE  /\ OfYear(records \cup {r}, y) = OfYear(records, y)
         /\ Numbers(records \cup {r}, y) = Numbers(records, y)
<1>1. OfYear(records \cup {r}, y) = OfYear(records, y)
  BY DEF OfYear
<1> QED BY <1>1 DEF Numbers

\* In the book of numbers it is an Issue.
LEMMA IssueNext ==
  ASSUME NEW records, IsFiniteSet(records), NEW y \in Year,
         Numbers(records, y) = 1 .. Cardinality(OfYear(records, y))
  PROVE  Cardinality(Numbers(records, y)) = Cardinality(OfYear(records, y))
<1>1. Cardinality(OfYear(records, y)) \in Nat
  BY OfYearFinite
<1> QED BY <1>1, FS_Interval

----------------------------------------------------------------------------
(* Incoming: the count and the unique constraint *)

\* A number that was counted is the next one or has been taken since.
CountedBehind ==
  \A g \in Registrar :
    reg[g].op = "incoming" =>
      reg[g].seq <= Cardinality(OfYear(incoming, reg[g].year)) + 1

IncomingInv == TypeInv /\ IncomingGapless /\ CountedBehind

LEMMA GaplessEmpty == Gapless({})
<1> SUFFICES ASSUME NEW y \in Year
             PROVE  Numbers({}, y) = 1 .. Cardinality(OfYear({}, y))
  BY DEF Gapless
<1>1. OfYear({}, y) = {}
  BY DEF OfYear
<1>2. Numbers({}, y) = {}
  BY <1>1 DEF Numbers
<1> QED BY <1>1, <1>2, FS_EmptySet

LEMMA IncomingInit == Init => IncomingInv
<1> SUFFICES ASSUME Init PROVE IncomingInv
  OBVIOUS
<1>1. TypeInv
  BY TypeInit
<1>2. IncomingGapless
  BY GaplessEmpty DEF Init, IncomingGapless
<1>3. CountedBehind
  BY DEF Init, Idle, CountedBehind
<1> QED BY <1>1, <1>2, <1>3 DEF IncomingInv

\* What a commit does to the register, and nothing else does.
LEMMA CommitCounts ==
  ASSUME IncomingInv, NEW g \in Registrar, commitIncoming(g)
  PROVE  /\ reg[g].seq = Cardinality(OfYear(incoming, reg[g].year)) + 1
         /\ incoming' = incoming \cup {RecordOf(g)}
         /\ RecordOf(g) \notin incoming
         /\ RecordOf(g).year = reg[g].year
         /\ RecordOf(g).seq = reg[g].seq
         /\ reg[g].year \in Year
<1> DEFINE y == reg[g].year
           n == Cardinality(OfYear(incoming, y))
<1>1. y \in Year /\ reg[g].seq \in Nat /\ n \in Nat
  BY OfYearFinite DEF IncomingInv, TypeInv, TypeOK, Progress
<1>2. RecordOf(g).year = y /\ RecordOf(g).seq = reg[g].seq
  BY RecordType DEF IncomingInv, TypeInv, commitIncoming
<1>3. reg[g].seq \notin 1 .. n /\ reg[g].seq <= n + 1 /\ reg[g].seq # 0
  BY <1>1 DEF IncomingInv, IncomingGapless, Gapless, CountedBehind, commitIncoming
<1>4. reg[g].seq = n + 1
  BY <1>1, <1>3
<1>5. RecordOf(g) \notin incoming
  BY <1>2 DEF commitIncoming, Numbers, OfYear
<1> QED BY <1>1, <1>2, <1>4, <1>5 DEF commitIncoming

LEMMA IncomingKept ==
  ASSUME TypeInv, [Next]_vars, ~ \E g \in Registrar : commitIncoming(g)
  PROVE  /\ incoming' = incoming
         /\ \A g \in Registrar :
              reg'[g].op = "incoming" =>
                \/ reg'[g].seq = 0
                \/ reg'[g].seq = Cardinality(OfYear(incoming, reg'[g].year)) + 1
                \/ reg'[g] = reg[g]
<1> USE DEF TypeInv
<1>1. ASSUME NEW h \in Registrar, NEW n \in Name, NEW op \in {"incoming", "outgoing"},
             begin(h, op, n)
      PROVE  /\ incoming' = incoming
             /\ \A g \in Registrar : reg'[g].seq = 0 \/ reg'[g] = reg[g]
  BY <1>1 DEF begin, TypeOK
<1>2. ASSUME NEW h \in Registrar, generateIncomingNumber(h)
      PROVE  /\ incoming' = incoming
             /\ \A g \in Registrar :
                  \/ reg'[g].seq = Cardinality(OfYear(incoming, reg'[g].year)) + 1
                  \/ reg'[g] = reg[g]
  BY <1>2 DEF generateIncomingNumber, TypeOK, Progress
<1>3. ASSUME NEW h \in Registrar, generateOutgoingNumber(h)
      PROVE  /\ incoming' = incoming
             /\ \A g \in Registrar : reg'[g].op = "incoming" => reg'[g] = reg[g]
  BY <1>3 DEF generateOutgoingNumber, TypeOK, Progress
<1>4. ASSUME NEW h \in Registrar, commitOutgoing(h) \/ rollback(h)
      PROVE  /\ incoming' = incoming
             /\ \A g \in Registrar : reg'[g].seq = 0 \/ reg'[g] = reg[g]
  BY <1>4 DEF commitOutgoing, rollback, TypeOK, Idle
<1>5. CASE newYear \/ UNCHANGED vars
  BY <1>5 DEF newYear, vars
<1> QED BY <1>1, <1>2, <1>3, <1>4, <1>5 DEF Next

LEMMA IncomingStep == IncomingInv /\ [Next]_vars => IncomingInv'
<1> SUFFICES ASSUME IncomingInv, [Next]_vars PROVE IncomingInv'
  OBVIOUS
<1>1. TypeInv /\ TypeInv'
  BY TypeStep DEF IncomingInv
<1>2. ASSUME NEW g \in Registrar, commitIncoming(g)
      PROVE  IncomingGapless' /\ CountedBehind'
  <2> DEFINE y == reg[g].year
             r == RecordOf(g)
  <2>1. /\ r.seq = Cardinality(OfYear(incoming, y)) + 1
        /\ incoming' = incoming \cup {r}
        /\ r \notin incoming
        /\ r.year = y
        /\ y \in Year
    BY <1>2, CommitCounts
  <2>2. IsFiniteSet(incoming)
    BY <1>1 DEF TypeInv
  <2>3. /\ Cardinality(OfYear(incoming', y)) = Cardinality(OfYear(incoming, y)) + 1
        /\ Numbers(incoming', y) = 1 .. Cardinality(OfYear(incoming', y))
    <3>1. Counted(incoming, y)
      BY <2>1 DEF IncomingInv, IncomingGapless, Gapless, Counted
    <3>2. /\ Cardinality(OfYear(incoming \cup {r}, y)) = Cardinality(OfYear(incoming, y)) + 1
          /\ Counted(incoming \cup {r}, y)
      BY <2>1, <2>2, <3>1, NextNumber
    <3> QED BY <2>1, <3>2 DEF Counted
  <2>4. \A x \in Year \ {y} : /\ OfYear(incoming', x) = OfYear(incoming, x)
                              /\ Numbers(incoming', x) = Numbers(incoming, x)
    BY <2>1, OtherYears
  <2>5. \A x \in Year : /\ Numbers(incoming', x) = 1 .. Cardinality(OfYear(incoming', x))
                        /\ Cardinality(OfYear(incoming, x)) \in Nat
                        /\ Cardinality(OfYear(incoming', x)) \in Nat
                        /\ Cardinality(OfYear(incoming, x)) <= Cardinality(OfYear(incoming', x))
    <3> SUFFICES ASSUME NEW x \in Year
                 PROVE  /\ Numbers(incoming', x) = 1 .. Cardinality(OfYear(incoming', x))
                        /\ Cardinality(OfYear(incoming, x)) \in Nat
                        /\ Cardinality(OfYear(incoming', x)) \in Nat
                        /\ Cardinality(OfYear(incoming, x)) <= Cardinality(OfYear(incoming', x))
      OBVIOUS
    <3>1. Cardinality(OfYear(incoming, x)) \in Nat
      BY <2>2, OfYearFinite
    <3>2. CASE x = y
      BY <2>3, <3>1, <3>2
    <3>3. CASE x # y
      BY <2>4, <3>1, <3>3 DEF IncomingInv, IncomingGapless, Gapless
    <3> QED BY <3>2, <3>3
  <2>6. \A h \in Registrar : reg'[h].op = "incoming" => reg'[h] = reg[h]
    BY <1>1, <1>2 DEF commitIncoming, Idle, TypeInv, TypeOK
  <2>7. CountedBehind'
    <3> SUFFICES ASSUME NEW h \in Registrar, reg'[h].op = "incoming"
                 PROVE  reg'[h].seq <= Cardinality(OfYear(incoming', reg'[h].year)) + 1
      BY DEF CountedBehind
    <3>1. reg'[h] = reg[h] /\ reg[h].year \in Year /\ reg[h].seq \in Nat
      BY <1>1, <2>6 DEF TypeInv, TypeOK, Progress
    <3>2. reg[h].seq <= Cardinality(OfYear(incoming, reg[h].year)) + 1
      BY <3>1 DEF IncomingInv, CountedBehind
    <3> QED BY <2>5, <3>1, <3>2
  <2> QED BY <2>5, <2>7 DEF IncomingGapless, Gapless
<1>3. CASE ~ \E g \in Registrar : commitIncoming(g)
  <2>1. incoming' = incoming
    BY <1>1, <1>3, IncomingKept
  <2>2. CountedBehind'
    <3> SUFFICES ASSUME NEW h \in Registrar, reg'[h].op = "incoming"
                 PROVE  reg'[h].seq <= Cardinality(OfYear(incoming, reg'[h].year)) + 1
      BY <2>1 DEF CountedBehind
    <3>1. Cardinality(OfYear(incoming, reg'[h].year)) \in Nat
      BY <1>1, OfYearFinite DEF TypeInv
    <3>2. \/ reg'[h].seq = 0
          \/ reg'[h].seq = Cardinality(OfYear(incoming, reg'[h].year)) + 1
          \/ reg'[h] = reg[h]
      BY <1>1, <1>3, IncomingKept
    <3> QED BY <3>1, <3>2 DEF IncomingInv, CountedBehind
  <2> QED BY <1>1, <2>1, <2>2 DEF IncomingInv, IncomingGapless
<1> QED BY <1>1, <1>2, <1>3 DEF IncomingInv

LEMMA IncomingInvariant == Spec => []IncomingInv
BY IncomingInit, IncomingStep, PTL DEF Spec

\* Incoming numbers of a year are 1 .. n, though registrations count the same
\* records and the unique constraint refuses all of them but one.
THEOREM IncomingHasNoGap == Spec => []IncomingGapless
<1>1. IncomingInv => IncomingGapless
  BY DEF IncomingInv
<1> QED BY <1>1, IncomingInvariant, PTL

\* The book counts as the register does.
LEMMA SameCardinality == \A S : IncomingBook!Cardinality(S) = Cardinality(S)
BY DEF IncomingBook!Cardinality, Cardinality, IncomingBook!IsFiniteSet, IsFiniteSet

LEMMA IncomingBookInit == Init => IncomingBook!Init
<1> SUFFICES ASSUME Init, NEW y \in Year PROVE Numbers(incoming, y) = {}
  BY DEF IncomingBook!Init
<1> QED BY DEF Init, Numbers, OfYear

LEMMA IncomingBookStep ==
  IncomingInv /\ [Next]_vars => [IncomingBook!Next]_([y \in Year |-> Numbers(incoming, y)])
<1> SUFFICES ASSUME IncomingInv, [Next]_vars
             PROVE  [IncomingBook!Next]_([y \in Year |-> Numbers(incoming, y)])
  OBVIOUS
<1>1. ASSUME NEW g \in Registrar, commitIncoming(g)
      PROVE  IncomingBook!Issue(reg[g].year) /\ reg[g].year \in Year
  <2> DEFINE y == reg[g].year
             r == RecordOf(g)
  <2>1. /\ r.seq = Cardinality(OfYear(incoming, y)) + 1
        /\ incoming' = incoming \cup {r}
        /\ r \notin incoming
        /\ r.year = y
        /\ y \in Year
    BY <1>1, CommitCounts
  <2>2. IsFiniteSet(incoming) /\ Numbers(incoming, y) = 1 .. Cardinality(OfYear(incoming, y))
    BY <2>1 DEF IncomingInv, TypeInv, IncomingGapless, Gapless
  <2>3. Numbers(incoming', y) =
          Numbers(incoming, y) \cup {IncomingBook!Cardinality(Numbers(incoming, y)) + 1}
    <3>1. Cardinality(Numbers(incoming, y)) = Cardinality(OfYear(incoming, y))
      BY <2>1, <2>2, IssueNext
    <3>2. Numbers(incoming \cup {r}, y) = Numbers(incoming, y) \cup {r.seq}
      BY <2>1, <2>2, NextNumber DEF Counted
    <3> QED BY <2>1, <3>1, <3>2, SameCardinality
  <2>4. \A x \in Year \ {y} : Numbers(incoming', x) = Numbers(incoming, x)
    BY <2>1, OtherYears
  <2>5. [x \in Year |-> Numbers(incoming', x)] =
          [[x \in Year |-> Numbers(incoming, x)] EXCEPT
             ![y] = @ \cup {IncomingBook!Cardinality(@) + 1}]
    BY <2>1, <2>3, <2>4
  <2> QED BY <2>1, <2>5 DEF IncomingBook!Issue
<1>2. CASE ~ \E g \in Registrar : commitIncoming(g)
  <2>1. incoming' = incoming
    BY <1>2, IncomingKept DEF IncomingInv
  <2> QED BY <2>1
<1> QED BY <1>1, <1>2 DEF IncomingBook!Next

\* Counting, guarded by the unique constraint, implements the book of numbers.
THEOREM IncomingKeepsBook == Spec => ImplementsIncomingBook
<1> QED BY IncomingBookInit, IncomingBookStep, IncomingInvariant, PTL
        DEF Spec, ImplementsIncomingBook, IncomingBook!Spec

----------------------------------------------------------------------------
(* Outgoing: the locked row *)

\* Who has a number holds the row of its year, and has its next number.
NumberIsHeld ==
  \A g \in Registrar :
    reg[g].op = "outgoing" /\ reg[g].seq # 0 =>
      /\ holder[reg[g].year] = g
      /\ reg[g].seq = lastNumber[reg[g].year] + 1

OutgoingInv == TypeInv /\ IsFiniteSet(outgoing) /\ OutgoingGapless /\ NumberIsHeld

LEMMA OutgoingInit == Init => OutgoingInv
<1> SUFFICES ASSUME Init PROVE OutgoingInv
  OBVIOUS
<1>1. TypeInv /\ IsFiniteSet(outgoing)
  BY TypeInit, FS_EmptySet DEF Init
<1>2. \A y \in Year : OfYear(outgoing, y) = {} /\ lastNumber[y] = 0
  BY DEF Init, OfYear
<1>3. OutgoingGapless
  BY <1>2, GaplessEmpty, FS_EmptySet DEF Init, OutgoingGapless
<1>4. NumberIsHeld
  BY DEF Init, Idle, NumberIsHeld
<1> QED BY <1>1, <1>3, <1>4 DEF OutgoingInv

\* A commit issues the next number, and gives the row back standing at it.
LEMMA CommitIssues ==
  ASSUME OutgoingInv, NEW g \in Registrar, commitOutgoing(g)
  PROVE  /\ RecordOf(g).seq = Cardinality(OfYear(outgoing, reg[g].year)) + 1
         /\ outgoing' = outgoing \cup {RecordOf(g)}
         /\ RecordOf(g) \notin outgoing
         /\ RecordOf(g).year = reg[g].year
         /\ reg[g].year \in Year
         /\ reg[g].seq = RecordOf(g).seq
<1>1. reg[g].year \in Year
  BY DEF OutgoingInv, TypeInv, TypeOK, Progress
<1>2. RecordOf(g).year = reg[g].year /\ RecordOf(g).seq = reg[g].seq
  BY RecordType DEF OutgoingInv, TypeInv, commitOutgoing
<1>3. reg[g].seq = Cardinality(OfYear(outgoing, reg[g].year)) + 1
  BY <1>1 DEF OutgoingInv, OutgoingGapless, NumberIsHeld, commitOutgoing
<1>4. RecordOf(g) \notin outgoing
  BY <1>2 DEF commitOutgoing, Numbers, OfYear
<1> QED BY <1>1, <1>2, <1>3, <1>4 DEF commitOutgoing

LEMMA OutgoingKept ==
  ASSUME OutgoingInv, [Next]_vars, ~ \E g \in Registrar : commitOutgoing(g)
  PROVE  UNCHANGED <<outgoing, lastNumber>> /\ NumberIsHeld'
<1> USE DEF OutgoingInv, TypeInv
<1>1. ASSUME NEW h \in Registrar, NEW n \in Name, NEW op \in {"incoming", "outgoing"},
             begin(h, op, n)
      PROVE  UNCHANGED <<outgoing, lastNumber>> /\ NumberIsHeld'
  BY <1>1 DEF begin, TypeOK, NumberIsHeld
<1>2. ASSUME NEW h \in Registrar, generateIncomingNumber(h)
      PROVE  UNCHANGED <<outgoing, lastNumber>> /\ NumberIsHeld'
  <2>1. \A g \in Registrar : reg'[g].op = "outgoing" => reg'[g] = reg[g]
    BY <1>2 DEF generateIncomingNumber, TypeOK, Progress
  <2> QED BY <1>2, <2>1 DEF generateIncomingNumber, NumberIsHeld
<1>3. ASSUME NEW h \in Registrar, generateOutgoingNumber(h)
      PROVE  UNCHANGED <<outgoing, lastNumber>> /\ NumberIsHeld'
  <2> SUFFICES ASSUME NEW g \in Registrar, reg'[g].op = "outgoing", reg'[g].seq # 0
               PROVE  /\ holder'[reg'[g].year] = g
                      /\ reg'[g].seq = lastNumber[reg'[g].year] + 1
    BY <1>3 DEF generateOutgoingNumber, NumberIsHeld
  <2>1. reg[h] \in Progress /\ reg[h].year \in Year /\ reg[g].year \in Year
    BY DEF TypeOK, Progress
  <2>2. CASE g = h
    BY <1>3, <2>1, <2>2 DEF generateOutgoingNumber, TypeOK, Progress
  <2>3. CASE g # h
    <3>1. reg'[g] = reg[g]
      BY <1>3, <2>3 DEF generateOutgoingNumber, TypeOK
    <3>2. holder[reg[g].year] = g /\ reg[g].seq = lastNumber[reg[g].year] + 1
      BY <3>1 DEF NumberIsHeld
    <3>3. reg[g].year # reg[h].year
      BY <1>3, <3>2, RegistryAssumption DEF generateOutgoingNumber
    <3> QED BY <1>3, <2>1, <3>1, <3>2, <3>3 DEF generateOutgoingNumber, TypeOK
  <2> QED BY <2>2, <2>3
<1>4. ASSUME NEW h \in Registrar, commitIncoming(h)
      PROVE  UNCHANGED <<outgoing, lastNumber>> /\ NumberIsHeld'
  BY <1>4, IdleType DEF commitIncoming, TypeOK, NumberIsHeld
<1>5. ASSUME NEW h \in Registrar, rollback(h)
      PROVE  UNCHANGED <<outgoing, lastNumber>> /\ NumberIsHeld'
  <2>1. \A g \in Registrar : reg'[g].op # "none" => g # h /\ reg'[g] = reg[g]
    BY <1>5, IdleType DEF rollback, TypeOK
  <2>2. \A g \in Registrar : reg[g].year \in Year
    BY DEF TypeOK, Progress
  <2> QED BY <1>5, <2>1, <2>2 DEF rollback, NumberIsHeld
<1>6. CASE newYear \/ UNCHANGED vars
  BY <1>6 DEF newYear, vars, NumberIsHeld
<1> QED BY <1>1, <1>2, <1>3, <1>4, <1>5, <1>6 DEF Next

LEMMA OutgoingStep == OutgoingInv /\ [Next]_vars => OutgoingInv'
<1> SUFFICES ASSUME OutgoingInv, [Next]_vars PROVE OutgoingInv'
  OBVIOUS
<1>1. TypeInv /\ TypeInv'
  BY TypeStep DEF OutgoingInv
<1>2. ASSUME NEW g \in Registrar, commitOutgoing(g)
      PROVE  IsFiniteSet(outgoing') /\ OutgoingGapless' /\ NumberIsHeld'
  <2> DEFINE y == reg[g].year
             r == RecordOf(g)
  <2>1. /\ r.seq = Cardinality(OfYear(outgoing, y)) + 1
        /\ outgoing' = outgoing \cup {r}
        /\ r \notin outgoing
        /\ r.year = y
        /\ y \in Year
        /\ reg[g].seq = r.seq
    BY <1>2, CommitIssues
  <2>2. IsFiniteSet(outgoing) /\ IsFiniteSet(outgoing')
    BY <2>1, FS_AddElement DEF OutgoingInv
  <2>3. /\ Cardinality(OfYear(outgoing', y)) = Cardinality(OfYear(outgoing, y)) + 1
        /\ Numbers(outgoing', y) = 1 .. Cardinality(OfYear(outgoing', y))
    <3>1. Counted(outgoing, y)
      BY <2>1 DEF OutgoingInv, OutgoingGapless, Gapless, Counted
    <3>2. /\ Cardinality(OfYear(outgoing \cup {r}, y)) = Cardinality(OfYear(outgoing, y)) + 1
          /\ Counted(outgoing \cup {r}, y)
      BY <2>1, <2>2, <3>1, NextNumber
    <3> QED BY <2>1, <3>2 DEF Counted
  <2>4. \A x \in Year \ {y} : /\ OfYear(outgoing', x) = OfYear(outgoing, x)
                              /\ Numbers(outgoing', x) = Numbers(outgoing, x)
    BY <2>1, OtherYears
  <2>5. Gapless(outgoing')
    BY <2>3, <2>4 DEF OutgoingInv, OutgoingGapless, Gapless
  <2>6. \A x \in Year : lastNumber'[x] = IF x = y THEN reg[g].seq ELSE lastNumber[x]
    BY <1>1, <1>2 DEF commitOutgoing, TypeInv, TypeOK
  <2>7. \A x \in Year : lastNumber'[x] = Cardinality(OfYear(outgoing', x))
    BY <2>1, <2>3, <2>4, <2>6 DEF OutgoingInv, OutgoingGapless
  <2>8. NumberIsHeld'
    <3> SUFFICES ASSUME NEW h \in Registrar, reg'[h].op = "outgoing", reg'[h].seq # 0
                 PROVE  /\ holder'[reg'[h].year] = h
                        /\ reg'[h].seq = lastNumber'[reg'[h].year] + 1
      BY DEF NumberIsHeld
    <3>1. h # g /\ reg'[h] = reg[h] /\ reg[h].year \in Year
      BY <1>1, <1>2, IdleType DEF commitOutgoing, TypeInv, TypeOK, Progress
    <3>2. holder[reg[h].year] = h /\ reg[h].seq = lastNumber[reg[h].year] + 1
      BY <3>1 DEF OutgoingInv, NumberIsHeld
    <3>3. holder[y] = g
      BY <1>2 DEF OutgoingInv, NumberIsHeld, commitOutgoing
    <3>4. reg[h].year # y
      BY <3>1, <3>2, <3>3
    <3>5. holder'[reg[h].year] = holder[reg[h].year]
      BY <1>1, <1>2, <3>1, <3>4 DEF commitOutgoing, TypeInv, TypeOK
    <3> QED BY <2>6, <3>1, <3>2, <3>4, <3>5
  <2> QED BY <2>2, <2>5, <2>7, <2>8 DEF OutgoingGapless
<1>3. CASE ~ \E g \in Registrar : commitOutgoing(g)
  <2>1. UNCHANGED <<outgoing, lastNumber>> /\ NumberIsHeld'
    BY <1>3, OutgoingKept
  <2> QED BY <1>1, <2>1 DEF OutgoingInv, OutgoingGapless
<1> QED BY <1>1, <1>2, <1>3 DEF OutgoingInv

LEMMA OutgoingInvariant == Spec => []OutgoingInv
BY OutgoingInit, OutgoingStep, PTL DEF Spec

\* Outgoing numbers of a year are 1 .. n, and its NumberSequence row stands at
\* n: a registration that is rolled back gives its number back.
THEOREM OutgoingHasNoGap == Spec => []OutgoingGapless
<1>1. OutgoingInv => OutgoingGapless
  BY DEF OutgoingInv
<1> QED BY <1>1, OutgoingInvariant, PTL

LEMMA OutgoingCounts == \A S : OutgoingBook!Cardinality(S) = Cardinality(S)
BY DEF OutgoingBook!Cardinality, Cardinality, OutgoingBook!IsFiniteSet, IsFiniteSet

LEMMA OutgoingBookInit == Init => OutgoingBook!Init
<1> SUFFICES ASSUME Init, NEW y \in Year PROVE Numbers(outgoing, y) = {}
  BY DEF OutgoingBook!Init
<1> QED BY DEF Init, Numbers, OfYear

LEMMA OutgoingBookStep ==
  OutgoingInv /\ [Next]_vars => [OutgoingBook!Next]_([y \in Year |-> Numbers(outgoing, y)])
<1> SUFFICES ASSUME OutgoingInv, [Next]_vars
             PROVE  [OutgoingBook!Next]_([y \in Year |-> Numbers(outgoing, y)])
  OBVIOUS
<1>1. ASSUME NEW g \in Registrar, commitOutgoing(g)
      PROVE  OutgoingBook!Issue(reg[g].year) /\ reg[g].year \in Year
  <2> DEFINE y == reg[g].year
             r == RecordOf(g)
  <2>1. /\ r.seq = Cardinality(OfYear(outgoing, y)) + 1
        /\ outgoing' = outgoing \cup {r}
        /\ r \notin outgoing
        /\ r.year = y
        /\ y \in Year
    BY <1>1, CommitIssues
  <2>2. IsFiniteSet(outgoing) /\ Numbers(outgoing, y) = 1 .. Cardinality(OfYear(outgoing, y))
    BY <2>1 DEF OutgoingInv, OutgoingGapless, Gapless
  <2>3. Numbers(outgoing', y) =
          Numbers(outgoing, y) \cup {OutgoingBook!Cardinality(Numbers(outgoing, y)) + 1}
    <3>1. Cardinality(Numbers(outgoing, y)) = Cardinality(OfYear(outgoing, y))
      BY <2>1, <2>2, IssueNext
    <3>2. Numbers(outgoing \cup {r}, y) = Numbers(outgoing, y) \cup {r.seq}
      BY <2>1, <2>2, NextNumber DEF Counted
    <3> QED BY <2>1, <3>1, <3>2, OutgoingCounts
  <2>4. \A x \in Year \ {y} : Numbers(outgoing', x) = Numbers(outgoing, x)
    BY <2>1, OtherYears
  <2>5. [x \in Year |-> Numbers(outgoing', x)] =
          [[x \in Year |-> Numbers(outgoing, x)] EXCEPT
             ![y] = @ \cup {OutgoingBook!Cardinality(@) + 1}]
    BY <2>1, <2>3, <2>4
  <2> QED BY <2>1, <2>5 DEF OutgoingBook!Issue
<1>2. CASE ~ \E g \in Registrar : commitOutgoing(g)
  <2>1. outgoing' = outgoing
    BY <1>2, OutgoingKept
  <2> QED BY <2>1
<1> QED BY <1>1, <1>2 DEF OutgoingBook!Next

\* The locked NumberSequence row implements the book of numbers.
THEOREM OutgoingKeepsBook == Spec => ImplementsOutgoingBook
BY OutgoingBookInit, OutgoingBookStep, OutgoingInvariant, PTL
   DEF Spec, ImplementsOutgoingBook, OutgoingBook!Spec

----------------------------------------------------------------------------
(* Parties *)

LEMMA CreatingFinite ==
  ASSUME NEW n
  PROVE  /\ IsFiniteSet(Creating(n)) /\ Cardinality(Creating(n)) \in Nat
         /\ Cardinality(Registrar) \in Nat
         /\ Cardinality(Creating(n)) <= Cardinality(Registrar)
<1>1. Creating(n) \subseteq Registrar /\ IsFiniteSet(Registrar)
  BY RegistryAssumption DEF Creating
<1> QED BY <1>1, FS_Subset, FS_CardinalityType

\* Those that create a party in the next state.
LEMMA CreatingNextFinite ==
  ASSUME NEW n
  PROVE  /\ IsFiniteSet(Creating(n)') /\ Cardinality(Creating(n)') \in Nat
         /\ Cardinality(Registrar) \in Nat
         /\ Cardinality(Creating(n)') <= Cardinality(Registrar)
<1>1. Creating(n)' \subseteq Registrar /\ IsFiniteSet(Registrar)
  BY RegistryAssumption DEF Creating
<1> QED BY <1>1, FS_Subset, FS_CardinalityType

PartyInv == TypeInv /\ PartyCopiesBounded

LEMMA PartyInit == Init => PartyInv
<1> SUFFICES ASSUME Init PROVE PartyInv
  OBVIOUS
<1>1. \A n \in Name : party[n] = 0 /\ Cardinality(Creating(n)) \in Nat
                       /\ Cardinality(Creating(n)) <= Cardinality(Registrar)
  BY CreatingFinite DEF Init
<1> QED BY <1>1, TypeInit DEF PartyInv, PartyCopiesBounded

\* Fewer that create, of no more copies, keep the bound.
LEMMA FewerCreate ==
  ASSUME PartyInv, NEW n \in Name, party'[n] = party[n], Creating(n)' \subseteq Creating(n)
  PROVE  party'[n] + Cardinality(Creating(n)') <= Cardinality(Registrar)
<1>1. party[n] \in Nat
  BY DEF PartyInv, TypeInv, TypeOK
<1>2. Cardinality(Creating(n)') <= Cardinality(Creating(n))
  BY CreatingFinite, FS_Subset
<1> QED BY <1>1, <1>2, CreatingFinite, CreatingNextFinite DEF PartyInv, PartyCopiesBounded

\* A copy more, and one less that creates.
LEMMA CommitCreates ==
  ASSUME PartyInv, NEW g \in Registrar, reg[g].op # "none", AddParty(g),
         reg' = [reg EXCEPT ![g] = Idle], NEW n \in Name
  PROVE  party'[n] + Cardinality(Creating(n)') <= Cardinality(Registrar)
<1>1. reg[g].name \in Name /\ party[n] \in Nat
  BY DEF PartyInv, TypeInv, TypeOK
<1>2. Creating(n)' = Creating(n) \ {g}
  BY DEF Creating, Idle, PartyInv, TypeInv, TypeOK
<1>3. CASE g \in Creating(n)
  <2>1. party'[n] = party[n] + 1
    BY <1>1, <1>3 DEF AddParty, Creating, PartyInv, TypeInv, TypeOK
  <2>2. Cardinality(Creating(n)') = Cardinality(Creating(n)) - 1
    BY <1>2, <1>3, CreatingFinite, FS_RemoveElement
  <2> QED BY <1>1, <2>1, <2>2, CreatingFinite DEF PartyInv, PartyCopiesBounded
<1>4. CASE g \notin Creating(n)
  <2>1. party'[n] = party[n]
    BY <1>1, <1>4 DEF AddParty, Creating, PartyInv, TypeInv, TypeOK
  <2> QED BY <1>2, <2>1, FewerCreate
<1> QED BY <1>3, <1>4

LEMMA PartyStep == PartyInv /\ [Next]_vars => PartyInv'
<1> SUFFICES ASSUME PartyInv, [Next]_vars, NEW n \in Name
             PROVE  party'[n] + Cardinality(Creating(n)') <= Cardinality(Registrar)
  BY TypeStep DEF PartyInv, PartyCopiesBounded
<1> USE DEF PartyInv, TypeInv
<1>1. ASSUME NEW g \in Registrar, NEW m \in Name, NEW op \in {"incoming", "outgoing"},
             begin(g, op, m)
      PROVE  party'[n] + Cardinality(Creating(n)') <= Cardinality(Registrar)
  <2>1. party' = party /\ party[n] \in Nat
    BY <1>1 DEF begin, TypeOK
  <2>2. CASE party[n] = 0
    BY <2>1, <2>2, CreatingNextFinite
  <2>3. CASE party[n] # 0
    <3>1. Creating(n)' \subseteq Creating(n)
      BY <1>1, <2>3 DEF begin, Creating, TypeOK
    <3> QED BY <2>1, <3>1, FewerCreate
  <2> QED BY <2>2, <2>3
<1>2. ASSUME NEW g \in Registrar, generateIncomingNumber(g) \/ generateOutgoingNumber(g)
      PROVE  party'[n] + Cardinality(Creating(n)') <= Cardinality(Registrar)
  <2>1. PICK k : reg' = [reg EXCEPT ![g].seq = k]
    BY <1>2 DEF generateIncomingNumber, generateOutgoingNumber
  <2>2. \A h \in Registrar : reg'[h].newParty = reg[h].newParty /\ reg'[h].name = reg[h].name
    BY <2>1 DEF TypeOK, Progress
  <2>3. party' = party /\ Creating(n)' \subseteq Creating(n)
    BY <1>2, <2>2 DEF generateIncomingNumber, generateOutgoingNumber, Creating
  <2> QED BY <2>3, FewerCreate
<1>3. ASSUME NEW g \in Registrar, commitIncoming(g) \/ commitOutgoing(g)
      PROVE  party'[n] + Cardinality(Creating(n)') <= Cardinality(Registrar)
  BY <1>3, CommitCreates DEF commitIncoming, commitOutgoing
<1>4. ASSUME NEW g \in Registrar, rollback(g)
      PROVE  party'[n] + Cardinality(Creating(n)') <= Cardinality(Registrar)
  <2>1. party' = party /\ Creating(n)' \subseteq Creating(n)
    BY <1>4 DEF rollback, Creating, Idle, TypeOK
  <2> QED BY <2>1, FewerCreate
<1>5. CASE newYear \/ UNCHANGED vars
  <2>1. party' = party /\ Creating(n)' \subseteq Creating(n)
    BY <1>5 DEF newYear, vars, Creating
  <2> QED BY <2>1, FewerCreate
<1> QED BY <1>1, <1>2, <1>3, <1>4, <1>5 DEF Next

\* Find-or-create that is not atomic makes at most as many copies of a party
\* as handlers can be in progress at once.
THEOREM PartyCopiesStayFew == Spec => []PartyCopiesBounded
<1>1. PartyInv => PartyCopiesBounded
  BY DEF PartyInv
<1> QED BY <1>1, PartyInit, PartyStep, PTL DEF Spec

----------------------------------------------------------------------------
(* Types of Documents *)

\* The audit trail names a request once at most, and after its update.
DeliveryType ==
  /\ step \in [Delivery -> {"new", "found", "updated", "done", "failed", "untraced"}]
  /\ delivered \in Delivery \cup {Nothing}
  /\ trail \in Seq(Delivery)
  /\ crossed \in BOOLEAN
  /\ \A m, n \in DOMAIN trail : trail[m] = trail[n] => m = n
  /\ \A n \in DOMAIN trail : step[trail[n]] = "done"

LEMMA Steps ==
  ASSUME [DocumentsNext]_allVars
  PROVE  \/ \E f \in File : findLatest(f) /\ UNCHANGED deliveryVars
         \/ \E f \in File : unflagLatest(f) /\ UNCHANGED deliveryVars
         \/ \E f \in File : createRow(f) /\ UNCHANGED deliveryVars
         \/ \E f \in File : uploadFails(f) /\ UNCHANGED deliveryVars
         \/ \E f \in File : remove(f) /\ UNCHANGED deliveryVars
         \/ \E h \in Delivery : findOutgoing(h)
         \/ \E h \in Delivery : updateDelivery(h)
         \/ \E h \in Delivery : auditDelivery(h)
         \/ \E h \in Delivery : deliveryFails(h)
         \/ UNCHANGED allVars
BY DEF DocumentsNext, FilesNext, markDelivered

LEMMA FilesTypeStep ==
  ASSUME FilesTypeOK, [DocumentsNext]_allVars
  PROVE  FilesTypeOK'
<1> USE DEF FilesTypeOK
<1>1. ASSUME NEW f \in File, findLatest(f)
      PROVE  FilesTypeOK'
  BY <1>1 DEF findLatest, NewestLatest, Latest, FileRow
<1>2. ASSUME NEW f \in File, unflagLatest(f)
      PROVE  FilesTypeOK'
  BY <1>2 DEF unflagLatest, Unflag, FileRow
<1>3. ASSUME NEW f \in File, createRow(f)
      PROVE  FilesTypeOK'
  <2>1. next[f] \in Nat
    OBVIOUS
  <2>2. [file |-> f, version |-> next[f], latest |-> TRUE] \in FileRow
    BY <2>1 DEF FileRow
  <2> QED BY <1>3, <2>2 DEF createRow
<1>4. ASSUME NEW f \in File, uploadFails(f)
      PROVE  FilesTypeOK'
  BY <1>4 DEF uploadFails
<1>5. ASSUME NEW f \in File, remove(f)
      PROVE  FilesTypeOK'
  BY <1>5 DEF remove
<1>6. CASE UNCHANGED fileVars
  BY <1>6 DEF fileVars
<1>7. ASSUME NEW h \in Delivery,
             findOutgoing(h) \/ updateDelivery(h) \/ auditDelivery(h) \/ deliveryFails(h)
      PROVE  UNCHANGED fileVars
  BY <1>7 DEF findOutgoing, updateDelivery, auditDelivery, deliveryFails
<1> QED BY <1>1, <1>2, <1>3, <1>4, <1>5, <1>6, <1>7, Steps DEF allVars

LEMMA DeliveryTypeStep ==
  ASSUME DeliveryType, [DocumentsNext]_allVars
  PROVE  DeliveryType'
<1> USE DEF DeliveryType
<1>1. CASE UNCHANGED deliveryVars
  BY <1>1 DEF deliveryVars
<1>2. ASSUME NEW h \in Delivery, findOutgoing(h)
      PROVE  DeliveryType'
  BY <1>2 DEF findOutgoing
<1>3. ASSUME NEW h \in Delivery, updateDelivery(h)
      PROVE  DeliveryType'
  BY <1>3 DEF updateDelivery
<1>4. ASSUME NEW h \in Delivery, auditDelivery(h)
      PROVE  DeliveryType'
  <2>1. trail' \in Seq(Delivery) /\ Len(trail') = Len(trail) + 1 /\ Len(trail) \in Nat
        /\ DOMAIN trail = 1 .. Len(trail) /\ DOMAIN trail' = 1 .. (Len(trail) + 1)
    BY <1>4 DEF auditDelivery
  <2>2. \A n \in DOMAIN trail' :
          trail'[n] = IF n = Len(trail) + 1 THEN h ELSE trail[n]
    BY <1>4, <2>1 DEF auditDelivery
  <2>3. \A n \in DOMAIN trail : trail[n] # h /\ trail[n] \in Delivery
    BY <1>4, <2>1 DEF auditDelivery
  <2>4. \A m, n \in DOMAIN trail' : trail'[m] = trail'[n] => m = n
    BY <2>1, <2>2, <2>3
  <2>5. \A n \in DOMAIN trail' : step'[trail'[n]] = "done"
    BY <1>4, <2>1, <2>2, <2>3 DEF auditDelivery
  <2> QED BY <1>4, <2>1, <2>4, <2>5 DEF auditDelivery
<1>5. ASSUME NEW h \in Delivery, deliveryFails(h)
      PROVE  DeliveryType'
  <2>1. \A n \in DOMAIN trail : trail[n] \in Delivery /\ trail[n] # h
    BY <1>5 DEF deliveryFails
  <2> QED BY <1>5, <2>1 DEF deliveryFails
<1> QED BY <1>1, <1>2, <1>3, <1>4, <1>5, Steps DEF allVars

LEMMA DocumentsTypeInit == DocumentsInit => FilesTypeOK /\ DeliveryType
<1> SUFFICES ASSUME DocumentsInit PROVE FilesTypeOK /\ DeliveryType
  OBVIOUS
<1>1. FilesTypeOK
  <2>1. rows \in SUBSET FileRow
    BY DEF DocumentsInit, FilesInit
  <2>2. pc \in [File -> {"new", "found", "unflagged", "done", "failed", "removed"}]
    BY DEF DocumentsInit, FilesInit
  <2>3. seen \in [File -> File \cup {Nothing}] /\ next \in [File -> Nat]
    BY DEF DocumentsInit, FilesInit
  <2> QED BY <2>1, <2>2, <2>3 DEF FilesTypeOK
<1>2. DeliveryType
  <2>1. trail \in Seq(Delivery) /\ DOMAIN trail = {}
    BY DEF DocumentsInit
  <2>2. step \in [Delivery -> {"new", "found", "updated", "done", "failed", "untraced"}]
    BY DEF DocumentsInit
  <2> QED BY <2>1, <2>2 DEF DocumentsInit, DeliveryType
<1> QED BY <1>1, <1>2

\* Every variable has its type throughout, and the trail names no request twice.
THEOREM DocumentsTypeCorrect == DocumentsSpec => []DocumentsTypeOK
<1>1. FilesTypeOK /\ DeliveryType => DocumentsTypeOK
  BY DEF DocumentsTypeOK, DeliveryType
<1>2. (FilesTypeOK /\ DeliveryType) /\ [DocumentsNext]_allVars => (FilesTypeOK /\ DeliveryType)'
  BY FilesTypeStep, DeliveryTypeStep
<1> QED BY <1>1, <1>2, DocumentsTypeInit, PTL DEF DocumentsSpec

----------------------------------------------------------------------------
(* The delivery and its trail *)

\* No request has broken off behind its update, and no two overlapped there.
Orderly == ~ crossed /\ \A h \in Delivery : step[h] # "untraced"

\* The trail ends with the delivery the record has.
TrailTells ==
  IF delivered = Nothing THEN trail = << >>
  ELSE trail # << >> /\ trail[Len(trail)] = delivered

\* An update that awaits its row is the last one there was.
DeliveryInv ==
  /\ DeliveryType
  /\ Orderly => \A h \in Updated : delivered = h
  /\ Orderly /\ Updated = {} => TrailTells

LEMMA DeliveryInit == DocumentsInit => DeliveryInv
BY DocumentsTypeInit DEF DocumentsInit, DeliveryInv, Updated, TrailTells

LEMMA DeliveryStep == DeliveryInv /\ [DocumentsNext]_allVars => DeliveryInv'
<1> SUFFICES ASSUME DeliveryInv, [DocumentsNext]_allVars PROVE DeliveryInv'
  OBVIOUS
<1>1. DeliveryType /\ DeliveryType'
  BY DeliveryTypeStep DEF DeliveryInv
<1>2. CASE UNCHANGED deliveryVars
  BY <1>1, <1>2 DEF deliveryVars, DeliveryInv, Orderly, Updated, TrailTells
<1>3. ASSUME NEW h \in Delivery, findOutgoing(h)
      PROVE  DeliveryInv'
  <2>1. Updated' = Updated
    BY <1>1, <1>3 DEF findOutgoing, Updated, DeliveryType
  <2>2. Orderly' => Orderly
    BY <1>1, <1>3 DEF findOutgoing, Orderly, DeliveryType
  <2> QED BY <1>1, <1>3, <2>1, <2>2 DEF findOutgoing, DeliveryInv, TrailTells
<1>4. ASSUME NEW h \in Delivery, updateDelivery(h)
      PROVE  DeliveryInv'
  <2>1. Updated' = Updated \cup {h}
    BY <1>1, <1>4 DEF updateDelivery, Updated, DeliveryType
  <2>2. Orderly' => Updated = {}
    BY <1>4 DEF updateDelivery, Orderly
  <2> QED BY <1>1, <1>4, <2>1, <2>2 DEF updateDelivery, DeliveryInv
<1>5. ASSUME NEW h \in Delivery, auditDelivery(h)
      PROVE  DeliveryInv'
  <2>1. Orderly' => Orderly
    BY <1>1, <1>5 DEF auditDelivery, Orderly, DeliveryType
  <2>2. h \in Updated /\ Updated' = Updated \ {h}
    BY <1>1, <1>5 DEF auditDelivery, Updated, DeliveryType
  <2>3. trail' # << >> /\ trail'[Len(trail')] = h
    BY <1>1, <1>5 DEF auditDelivery, DeliveryType
  <2>4. Orderly' => delivered' = h /\ h # Nothing
    BY <1>5, <2>1, <2>2, DocumentsAssumption DEF auditDelivery, DeliveryInv
  <2>5. Orderly' => TrailTells'
    BY <2>3, <2>4 DEF TrailTells
  <2>6. Orderly' => \A k \in Updated' : delivered' = k
    BY <1>5, <2>1, <2>2 DEF auditDelivery, DeliveryInv
  <2> QED BY <1>1, <2>5, <2>6 DEF DeliveryInv
<1>6. ASSUME NEW h \in Delivery, deliveryFails(h)
      PROVE  DeliveryInv'
  <2>1. CASE step[h] = "updated"
    <3>1. step'[h] = "untraced"
      BY <1>1, <1>6, <2>1 DEF deliveryFails, DeliveryType
    <3> QED BY <1>1, <3>1 DEF DeliveryInv, Orderly
  <2>2. CASE step[h] # "updated"
    <3>1. Updated' = Updated
      BY <1>1, <1>6, <2>2 DEF deliveryFails, Updated, DeliveryType
    <3>2. Orderly' => Orderly
      BY <1>1, <1>6, <2>2 DEF deliveryFails, Orderly, DeliveryType
    <3> QED BY <1>1, <1>6, <3>1, <3>2 DEF deliveryFails, DeliveryInv, TrailTells
  <2> QED BY <2>1, <2>2
<1> QED BY <1>2, <1>3, <1>4, <1>5, <1>6, Steps DEF allVars

\* The audit trail ends with the delivery the record has, unless a request
\* broke off between its update and its row or two of them overlapped there.
THEOREM TrailTellsTheDelivery == DocumentsSpec => []TrailTellsDelivery
<1>1. DeliveryInv => TrailTellsDelivery
  BY DEF DeliveryInv, TrailTellsDelivery, Orderly, TrailTells
<1> QED BY <1>1, DeliveryInit, DeliveryStep, PTL DEF DocumentsSpec

----------------------------------------------------------------------------
(* The file versions *)

\* Uploads that have stored a row, which may have been removed since.
Made == {f \in File : pc[f] \in {"done", "removed"}}

\* A row is that of an upload that is done, and the only one of it.
RowsAreMade ==
  /\ \A r \in rows : pc[r.file] = "done" /\ r.version = next[r.file]
  /\ \A r, q \in rows : r.file = q.file => r = q
  /\ \A r, q \in rows : r.version = q.version => r = q
  /\ \A f \in File : pc[f] = "done" => \E r \in rows : r.file = f

\* An upload that found a version comes after it, and one that found none is
\* the first.
SeenIsBefore ==
  \A f \in File :
    /\ pc[f] = "new" => seen[f] = Nothing
    /\ pc[f] = "unflagged" => seen[f] # Nothing
    /\ (seen[f] = Nothing /\ pc[f] \in {"found", "done", "removed"}) => next[f] = 1
    /\ seen[f] # Nothing => seen[f] \in Made /\ next[f] = next[seen[f]] + 1

\* A version is not the latest when, and only when, an upload has taken its place.
FlagsTell ==
  \A r \in rows :
    /\ ~ r.latest => Superseded(r.file)
    /\ \A g \in File : seen[g] = r.file /\ pc[g] \in {"unflagged", "done", "removed"} => ~ r.latest

\* One of the stored versions has the highest number.
IsTop(t) == t \in Made /\ \A f \in Made : next[f] <= next[t]

HasTop == Made # {} => \E t \in File : IsTop(t)

FilesInv ==
  /\ FilesTypeOK
  /\ RowsAreMade
  /\ SeenIsBefore
  /\ FlagsTell
  /\ HasTop

LEMMA FilesBegin == DocumentsInit => FilesInv
<1> SUFFICES ASSUME DocumentsInit PROVE FilesInv
  OBVIOUS
<1>1. FilesTypeOK
  BY DocumentsTypeInit
<1>2. rows = {} /\ Made = {}
  BY DEF DocumentsInit, FilesInit, Made
<1>3. \A f \in File : pc[f] = "new" /\ seen[f] = Nothing
  BY DEF DocumentsInit, FilesInit
<1> QED BY <1>1, <1>2, <1>3 DEF FilesInv, RowsAreMade, SeenIsBefore, FlagsTell, HasTop

LEMMA FindKeeps ==
  ASSUME FilesInv, FilesTypeOK', NEW f \in File, findLatest(f)
  PROVE  FilesInv'
<1>1. pc[f] = "new" /\ seen[f] = Nothing /\ rows' = rows /\ pc'[f] = "found"
      /\ \A g \in File \ {f} : pc'[g] = pc[g] /\ seen'[g] = seen[g] /\ next'[g] = next[g]
  BY DEF findLatest, FilesInv, FilesTypeOK, SeenIsBefore
<1>2. Made' = Made /\ f \notin Made
  BY <1>1 DEF Made
<1>3. RowsAreMade'
  BY <1>1 DEF FilesInv, RowsAreMade, FilesTypeOK, FileRow
<1>4. \/ seen'[f] = Nothing /\ next'[f] = 1
      \/ seen'[f] \in Made /\ seen'[f] # f /\ seen'[f] # Nothing /\ next'[f] = next[seen'[f]] + 1
  <2>1. CASE Latest = {} /\ next' = [next EXCEPT ![f] = 1] /\ UNCHANGED seen
    BY <1>1, <2>1 DEF FilesInv, FilesTypeOK
  <2>2. ASSUME NEW r \in NewestLatest,
               next' = [next EXCEPT ![f] = r.version + 1],
               seen' = [seen EXCEPT ![f] = r.file]
        PROVE  /\ seen'[f] \in Made /\ seen'[f] # f /\ seen'[f] # Nothing
               /\ next'[f] = next[seen'[f]] + 1
    <3>1. r \in rows /\ r.file \in File
      BY DEF NewestLatest, Latest, FilesInv, FilesTypeOK, FileRow
    <3>2. pc[r.file] = "done" /\ r.version = next[r.file]
      BY <3>1 DEF FilesInv, RowsAreMade
    <3>3. seen'[f] = r.file /\ next'[f] = r.version + 1
      BY <2>2 DEF FilesInv, FilesTypeOK
    <3> QED BY <1>1, <3>1, <3>2, <3>3, DocumentFilesAssumption DEF Made
  <2> QED BY <2>1, <2>2 DEF findLatest
<1>5. SeenIsBefore'
  <2>1. ASSUME NEW g \in File, g # f
        PROVE  /\ pc'[g] = "new" => seen'[g] = Nothing
               /\ pc'[g] = "unflagged" => seen'[g] # Nothing
               /\ (seen'[g] = Nothing /\ pc'[g] \in {"found", "done", "removed"}) => next'[g] = 1
               /\ seen'[g] # Nothing => seen'[g] \in Made' /\ next'[g] = next'[seen'[g]] + 1
    <3>1. seen[g] # Nothing => seen[g] \in Made /\ seen[g] # f /\ seen[g] \in File
      BY <1>2 DEF FilesInv, SeenIsBefore, Made
    <3> QED BY <1>1, <1>2, <2>1, <3>1 DEF FilesInv, SeenIsBefore
  <2>2. /\ pc'[f] = "found"
        /\ seen'[f] = Nothing => next'[f] = 1
        /\ seen'[f] # Nothing => seen'[f] \in Made' /\ next'[f] = next'[seen'[f]] + 1
    BY <1>1, <1>2, <1>4 DEF Made
  <2> QED BY <2>1, <2>2 DEF SeenIsBefore
<1>6. FlagsTell'
  <2>1. ASSUME NEW r \in rows, ~ r.latest
        PROVE  Superseded(r.file)'
    <3>1. PICK g \in File : seen[g] = r.file /\ pc[g] \in {"unflagged", "done", "removed", "failed"}
      BY <2>1 DEF FilesInv, FlagsTell, Superseded
    <3> QED BY <1>1, <3>1 DEF Superseded
  <2>2. ASSUME NEW r \in rows, NEW g \in File,
               seen'[g] = r.file, pc'[g] \in {"unflagged", "done", "removed"}
        PROVE  ~ r.latest
    BY <1>1, <2>2 DEF FilesInv, FlagsTell
  <2> QED BY <1>1, <2>1, <2>2 DEF FlagsTell
<1>7. HasTop'
  BY <1>1, <1>2 DEF FilesInv, HasTop, IsTop, Made
<1> QED BY <1>3, <1>5, <1>6, <1>7 DEF FilesInv

LEMMA UnflagKeeps ==
  ASSUME FilesInv, FilesTypeOK', NEW f \in File, unflagLatest(f)
  PROVE  FilesInv'
<1>1. pc[f] = "found" /\ seen[f] # Nothing /\ pc'[f] = "unflagged"
      /\ seen' = seen /\ next' = next
      /\ \A g \in File \ {f} : pc'[g] = pc[g]
  BY DEF unflagLatest, FilesInv, FilesTypeOK
<1>2. PICK r \in rows : r.file = seen[f] /\ rows' = (rows \ {r}) \cup {Unflag(r)}
  BY DEF unflagLatest
<1> DEFINE u == Unflag(r)
<1>3. u.file = r.file /\ u.version = r.version /\ u.latest = FALSE
  BY DEF Unflag, FilesInv, FilesTypeOK, FileRow
<1> HIDE DEF u
<1>4. rows' = (rows \ {r}) \cup {u}
  BY <1>2 DEF u
<1>5. Made' = Made
  BY <1>1 DEF Made
<1>6. RowsAreMade'
  <2>1. \A q \in rows' : pc'[q.file] = "done" /\ q.version = next'[q.file]
    BY <1>1, <1>3, <1>4 DEF FilesInv, RowsAreMade, FilesTypeOK, FileRow
  <2>2. \A p, q \in rows' : p.file = q.file => p = q
    BY <1>3, <1>4 DEF FilesInv, RowsAreMade
  <2>3. \A p, q \in rows' : p.version = q.version => p = q
    BY <1>3, <1>4 DEF FilesInv, RowsAreMade
  <2>4. \A g \in File : pc'[g] = "done" => \E q \in rows' : q.file = g
    BY <1>1, <1>3, <1>4 DEF FilesInv, RowsAreMade
  <2> QED BY <2>1, <2>2, <2>3, <2>4 DEF RowsAreMade
<1>7. SeenIsBefore'
  BY <1>1, <1>5 DEF FilesInv, SeenIsBefore
<1>8. FlagsTell'
  <2>1. Superseded(r.file)'
    BY <1>1, <1>2 DEF Superseded
  <2>2. ASSUME NEW q \in rows, ~ q.latest
        PROVE  Superseded(q.file)'
    <3>1. PICK g \in File : seen[g] = q.file /\ pc[g] \in {"unflagged", "done", "removed", "failed"}
      BY <2>2 DEF FilesInv, FlagsTell, Superseded
    <3> QED BY <1>1, <3>1 DEF Superseded
  <2>3. \A q \in rows' : ~ q.latest => Superseded(q.file)'
    BY <1>3, <1>4, <2>1, <2>2
  <2>4. ASSUME NEW q \in rows', NEW g \in File,
               seen[g] = q.file, pc'[g] \in {"unflagged", "done", "removed"}
        PROVE  ~ q.latest
    <3>1. CASE q = u
      BY <1>3, <3>1
    <3>2. CASE q # u
      <4>1. q \in rows /\ q # r
        BY <1>4, <3>2
      <4>2. g # f
        BY <1>2, <2>4, <4>1 DEF FilesInv, RowsAreMade
      <4> QED BY <1>1, <2>4, <4>1, <4>2 DEF FilesInv, FlagsTell
    <3> QED BY <3>1, <3>2
  <2> QED BY <1>1, <2>3, <2>4 DEF FlagsTell
<1>9. HasTop'
  BY <1>1, <1>5 DEF FilesInv, HasTop, IsTop
<1> QED BY <1>6, <1>7, <1>8, <1>9 DEF FilesInv

LEMMA CreateKeeps ==
  ASSUME FilesInv, FilesTypeOK', NEW f \in File, createRow(f)
  PROVE  FilesInv'
<1> DEFINE n == [file |-> f, version |-> next[f], latest |-> TRUE]
<1>1. n.file = f /\ n.version = next[f] /\ n.latest = TRUE
  OBVIOUS
<1>2. rows' = rows \cup {n}
  BY DEF createRow
<1> HIDE DEF n
<1>3. pc[f] \in {"found", "unflagged"} /\ (pc[f] = "found" => seen[f] = Nothing)
      /\ pc'[f] = "done" /\ seen' = seen /\ next' = next
      /\ \A g \in File \ {f} : pc'[g] = pc[g]
  BY DEF createRow, ReadyToCreate, FilesInv, FilesTypeOK
<1>4. Made' = Made \cup {f} /\ f \notin Made
  BY <1>3 DEF Made
<1>5. \A q \in rows : q.file \in File /\ q.file # f /\ q.version # next[f]
  BY <1>3 DEF createRow, FilesInv, RowsAreMade, FilesTypeOK, FileRow, Versions
<1>6. RowsAreMade'
  <2>1. \A q \in rows' : pc'[q.file] = "done" /\ q.version = next'[q.file]
    BY <1>1, <1>2, <1>3, <1>5 DEF FilesInv, RowsAreMade
  <2>2. \A p, q \in rows' : p.file = q.file => p = q
    BY <1>1, <1>2, <1>5 DEF FilesInv, RowsAreMade
  <2>3. \A p, q \in rows' : p.version = q.version => p = q
    BY <1>1, <1>2, <1>5 DEF FilesInv, RowsAreMade
  <2>4. \A g \in File : pc'[g] = "done" => \E q \in rows' : q.file = g
    BY <1>1, <1>2, <1>3 DEF FilesInv, RowsAreMade
  <2> QED BY <2>1, <2>2, <2>3, <2>4 DEF RowsAreMade
<1>7. SeenIsBefore'
  BY <1>3, <1>4 DEF FilesInv, SeenIsBefore
<1>8. FlagsTell'
  <2>1. ASSUME NEW q \in rows, ~ q.latest
        PROVE  Superseded(q.file)'
    <3>1. PICK g \in File : seen[g] = q.file /\ pc[g] \in {"unflagged", "done", "removed", "failed"}
      BY <2>1 DEF FilesInv, FlagsTell, Superseded
    <3> QED BY <1>3, <3>1 DEF Superseded
  <2>2. \A g \in File : seen[g] # f
    BY <1>4, DocumentFilesAssumption DEF FilesInv, SeenIsBefore
  <2>3. ASSUME NEW q \in rows, NEW g \in File,
               seen[g] = q.file, pc'[g] \in {"unflagged", "done", "removed"}
        PROVE  ~ q.latest
    <3>1. CASE g = f
      <4>1. seen[f] # Nothing
        BY <1>5, <2>3, <3>1, DocumentFilesAssumption
      <4> QED BY <1>3, <2>3, <3>1, <4>1 DEF FilesInv, FlagsTell
    <3>2. CASE g # f
      BY <1>3, <2>3, <3>2 DEF FilesInv, FlagsTell
    <3> QED BY <3>1, <3>2
  <2> QED BY <1>1, <1>2, <1>3, <2>1, <2>2, <2>3 DEF FlagsTell
<1>9. HasTop'
  <2>0. \A g \in File : next[g] \in Nat
    BY DEF FilesInv, FilesTypeOK
  <2>1. CASE Made = {}
    <3>1. Made' = {f}
      BY <1>4, <2>1
    <3> QED BY <1>3, <2>0, <3>1 DEF HasTop, IsTop
  <2>2. CASE Made # {}
    <3>1. PICK t \in File : IsTop(t)
      BY <2>2 DEF FilesInv, HasTop
    <3>2. CASE next[f] <= next[t]
      BY <1>3, <1>4, <3>1, <3>2 DEF HasTop, IsTop
    <3>3. CASE next[t] < next[f]
      <4>1. \A g \in Made : next[g] <= next[f]
        BY <2>0, <3>1, <3>3 DEF IsTop, Made
      <4> QED BY <1>3, <1>4, <2>0, <4>1 DEF HasTop, IsTop
    <3> QED BY <2>0, <3>2, <3>3
  <2> QED BY <2>1, <2>2
<1> QED BY <1>6, <1>7, <1>8, <1>9 DEF FilesInv

LEMMA FailKeeps ==
  ASSUME FilesInv, FilesTypeOK', NEW f \in File, uploadFails(f)
  PROVE  FilesInv'
<1>1. pc[f] \in {"new", "found", "unflagged"} /\ pc'[f] = "failed"
      /\ rows' = rows /\ seen' = seen /\ next' = next
      /\ \A g \in File \ {f} : pc'[g] = pc[g]
  BY DEF uploadFails, FilesInv, FilesTypeOK
<1>2. Made' = Made
  BY <1>1 DEF Made
<1>3. RowsAreMade'
  BY <1>1 DEF FilesInv, RowsAreMade, FilesTypeOK, FileRow
<1>4. SeenIsBefore'
  BY <1>1, <1>2 DEF FilesInv, SeenIsBefore
<1>5. FlagsTell'
  <2>1. ASSUME NEW q \in rows, ~ q.latest
        PROVE  Superseded(q.file)'
    <3>1. PICK g \in File : seen[g] = q.file /\ pc[g] \in {"unflagged", "done", "removed", "failed"}
      BY <2>1 DEF FilesInv, FlagsTell, Superseded
    <3> QED BY <1>1, <3>1 DEF Superseded
  <2> QED BY <1>1, <2>1 DEF FilesInv, FlagsTell
<1>6. HasTop'
  BY <1>1, <1>2 DEF FilesInv, HasTop, IsTop
<1> QED BY <1>3, <1>4, <1>5, <1>6 DEF FilesInv

LEMMA RemoveKeeps ==
  ASSUME FilesInv, FilesTypeOK', NEW f \in File, remove(f)
  PROVE  FilesInv'
<1>1. PICK r \in rows : r.file = f /\ rows' = rows \ {r}
  BY DEF remove
<1>2. pc[f] = "done" /\ pc'[f] = "removed" /\ seen' = seen /\ next' = next
      /\ \A g \in File \ {f} : pc'[g] = pc[g]
  BY <1>1 DEF remove, FilesInv, FilesTypeOK, RowsAreMade
<1>3. Made' = Made
  BY <1>2 DEF Made
<1>4. \A q \in rows' : q \in rows /\ q.file \in File /\ q.file # f
  BY <1>1 DEF FilesInv, RowsAreMade, FilesTypeOK, FileRow
<1>5. RowsAreMade'
  BY <1>1, <1>2, <1>4 DEF FilesInv, RowsAreMade
<1>6. SeenIsBefore'
  BY <1>2, <1>3 DEF FilesInv, SeenIsBefore
<1>7. FlagsTell'
  <2>1. ASSUME NEW q \in rows, ~ q.latest
        PROVE  Superseded(q.file)'
    <3>1. PICK g \in File : seen[g] = q.file /\ pc[g] \in {"unflagged", "done", "removed", "failed"}
      BY <2>1 DEF FilesInv, FlagsTell, Superseded
    <3> QED BY <1>2, <3>1 DEF Superseded
  <2>2. ASSUME NEW q \in rows, NEW g \in File,
               seen[g] = q.file, pc'[g] \in {"unflagged", "done", "removed"}
        PROVE  ~ q.latest
    BY <1>2, <2>2 DEF FilesInv, FlagsTell
  <2> QED BY <1>2, <1>4, <2>1, <2>2 DEF FlagsTell
<1>8. HasTop'
  BY <1>2, <1>3 DEF FilesInv, HasTop, IsTop
<1> QED BY <1>5, <1>6, <1>7, <1>8 DEF FilesInv

LEMMA StillFiles ==
  ASSUME UNCHANGED fileVars
  PROVE  /\ FilesInv => FilesInv'
         /\ NothingRemoved' => NothingRemoved
         /\ Latest' = Latest /\ Versions' = Versions /\ Made' = Made
BY DEF fileVars, FilesInv, FilesTypeOK, RowsAreMade, SeenIsBefore, FlagsTell, HasTop, IsTop, Made,
       Superseded, NothingRemoved, Latest, Versions

LEMMA DeliveryLeavesFiles ==
  ASSUME NEW h \in Delivery,
         findOutgoing(h) \/ updateDelivery(h) \/ auditDelivery(h) \/ deliveryFails(h)
  PROVE  UNCHANGED fileVars
BY DEF findOutgoing, updateDelivery, auditDelivery, deliveryFails

LEMMA FilesStep == FilesInv /\ [DocumentsNext]_allVars => FilesInv'
<1> SUFFICES ASSUME FilesInv, [DocumentsNext]_allVars PROVE FilesInv'
  OBVIOUS
<1>1. FilesTypeOK'
  BY FilesTypeStep DEF FilesInv
<1> QED BY <1>1, Steps, FindKeeps, UnflagKeeps, CreateKeeps, FailKeeps, RemoveKeeps,
           StillFiles, DeliveryLeavesFiles DEF allVars

LEMMA FilesAlways == DocumentsSpec => []FilesInv
BY FilesBegin, FilesStep, PTL DEF DocumentsSpec

\* The newest version made is in the list, as the latest, when no upload is
\* between unflagging and storing, none broke off after it had found a
\* version, and what was removed had been superseded.
LEMMA TopRow ==
  ASSUME FilesInv, rows # {},
         \A f \in File : /\ pc[f] # "unflagged"
                         /\ pc[f] = "failed" => seen[f] = Nothing
                         /\ pc[f] = "removed" => Superseded(f)
  PROVE  \E r \in Latest : \A q \in rows : q.version <= r.version
<1>1. PICK q \in rows : TRUE
  OBVIOUS
<1>2. \A p \in rows : p.file \in File /\ p.file \in Made /\ p.version = next[p.file]
  BY DEF FilesInv, RowsAreMade, FilesTypeOK, FileRow, Made
<1>3. PICK t \in File : IsTop(t)
  BY <1>1, <1>2 DEF FilesInv, HasTop
<1>4. ~ Superseded(t)
  <2>1. SUFFICES ASSUME NEW g \in File, seen[g] = t,
                        pc[g] \in {"unflagged", "done", "removed", "failed"}
                 PROVE  FALSE
    BY DEF Superseded
  <2>2. t # Nothing
    BY DocumentFilesAssumption
  <2>3. g \in Made
    BY <2>1, <2>2 DEF Made
  <2>4. next[g] = next[t] + 1 /\ next[t] \in Nat
    BY <2>1, <2>2 DEF FilesInv, SeenIsBefore, FilesTypeOK
  <2> QED BY <1>3, <2>3, <2>4 DEF IsTop
<1>5. pc[t] = "done"
  BY <1>3, <1>4 DEF IsTop, Made
<1>6. PICK r \in rows : r.file = t
  BY <1>5 DEF FilesInv, RowsAreMade
<1>7. r \in Latest
  BY <1>4, <1>6 DEF FilesInv, FlagsTell, Latest
<1> QED BY <1>2, <1>3, <1>6, <1>7 DEF IsTop

\* A document with files is shown with none only for one of three reasons.
THEOREM HiddenFilesHaveReasons == DocumentsSpec => []HiddenFilesExplained
<1>1. FilesInv => HiddenFilesExplained
  BY TopRow DEF HiddenFilesExplained, hasFiles
<1> QED BY <1>1, FilesAlways, PTL

\* The next upload finds its number free, once uploads have ended and unless
\* one failed or the current version was removed.
THEOREM UploadsGoOn == DocumentsSpec => []NextVersionIsFree
<1>1. ASSUME FilesInv,
             \A f \in File : \/ pc[f] \in {"new", "done"}
                             \/ pc[f] = "removed" /\ Superseded(f)
      PROVE  /\ Latest = {} => 1 \notin Versions
             /\ \A r \in NewestLatest : r.version + 1 \notin Versions
  <2>0. /\ \A f \in File : /\ pc[f] # "unflagged"
                           /\ pc[f] = "failed" => seen[f] = Nothing
                           /\ pc[f] = "removed" => Superseded(f)
        /\ \A q \in rows : q.version \in Nat
    BY <1>1 DEF FilesInv, FilesTypeOK, FileRow
  <2>1. CASE rows = {}
    BY <2>1 DEF Versions, NewestLatest, Latest
  <2>2. CASE rows # {}
    <3>1. PICK t \in Latest : \A q \in rows : q.version <= t.version
      BY <1>1, <2>0, <2>2, TopRow
    <3>2. ASSUME NEW r \in NewestLatest
          PROVE  r.version + 1 \notin Versions
      <4>1. r \in rows /\ t \in rows /\ t.version <= r.version
        BY <3>1 DEF NewestLatest, Latest
      <4>2. \A q \in rows : q.version <= r.version
        BY <2>0, <3>1, <4>1
      <4> QED BY <2>0, <4>1, <4>2 DEF Versions
    <3> QED BY <3>1, <3>2
  <2> QED BY <2>1, <2>2
<1> QED BY <1>1, FilesAlways, PTL DEF NextVersionIsFree

----------------------------------------------------------------------------
(* The latest version, while nothing is removed *)

\* No version is left out below the highest.
Consecutive == \A r \in rows : \A v \in 1 .. r.version : v \in Versions

\* The latest version has the highest number.
LatestIsTop == \A r \in Latest : \A q \in rows : q.version <= r.version

ChainInv == FilesInv /\ (NothingRemoved => Consecutive /\ LatestIsTop)

LEMMA ChainInit == DocumentsInit => ChainInv
<1> SUFFICES ASSUME DocumentsInit PROVE ChainInv
  OBVIOUS
<1>1. rows = {}
  BY DEF DocumentsInit, FilesInit
<1> QED BY <1>1, FilesBegin DEF ChainInv, Consecutive, LatestIsTop, Latest

LEMMA CreateKeepsChain ==
  ASSUME ChainInv, FilesInv', NEW f \in File, createRow(f), NothingRemoved
  PROVE  Consecutive' /\ LatestIsTop'
<1> DEFINE n == [file |-> f, version |-> next[f], latest |-> TRUE]
<1>1. n.file = f /\ n.version = next[f] /\ n.latest = TRUE
  OBVIOUS
<1>2. rows' = rows \cup {n}
  BY DEF createRow
<1> HIDE DEF n
<1>3. next[f] \notin Versions /\ next[f] \in Nat
      /\ (pc[f] = "unflagged" \/ (pc[f] = "found" /\ seen[f] = Nothing))
  BY DEF createRow, ReadyToCreate, ChainInv, FilesInv, FilesTypeOK
<1>4. Versions' = Versions \cup {next[f]} /\ \A q \in rows : q.version \in Versions
  BY <1>1, <1>2 DEF Versions
<1>5. \A q \in rows : /\ q.file \in File /\ q.version = next[q.file] /\ q.version \in Nat
                      /\ q.version >= 1
  <2>1. SUFFICES ASSUME NEW q \in rows
                 PROVE  /\ q.file \in File /\ q.version = next[q.file]
                        /\ q.version \in Nat /\ q.version >= 1
    OBVIOUS
  <2>2. q.file \in File /\ pc[q.file] = "done" /\ q.version = next[q.file]
    BY DEF ChainInv, FilesInv, RowsAreMade, FilesTypeOK, FileRow
  <2>3. CASE seen[q.file] = Nothing
    BY <2>2, <2>3 DEF ChainInv, FilesInv, SeenIsBefore
  <2>4. CASE seen[q.file] # Nothing
    <3>1. seen[q.file] \in File /\ next[q.file] = next[seen[q.file]] + 1
      BY <2>2, <2>4 DEF ChainInv, FilesInv, SeenIsBefore, Made
    <3>2. next[seen[q.file]] \in Nat
      BY <3>1 DEF ChainInv, FilesInv, FilesTypeOK
    <3> QED BY <2>2, <3>1, <3>2
  <2> QED BY <2>3, <2>4
<1>6. CASE seen[f] = Nothing
  <2>1. next[f] = 1
    BY <1>3, <1>6 DEF ChainInv, FilesInv, SeenIsBefore
  <2>2. rows = {}
    <3>1. \A q \in rows : 1 \in 1 .. q.version
      BY <1>5
    <3>2. \A q \in rows : 1 \in Versions
      BY <3>1 DEF ChainInv, Consecutive
    <3> QED BY <1>3, <2>1, <3>2
  <2>3. rows' = {n}
    BY <1>2, <2>2
  <2>4. Consecutive'
    <3>1. \A v \in 1 .. n.version : v = next[f]
      BY <1>1, <2>1
    <3> QED BY <1>4, <2>3, <3>1 DEF Consecutive
  <2>5. LatestIsTop'
    BY <1>1, <1>3, <2>3 DEF LatestIsTop, Latest
  <2> QED BY <2>4, <2>5
<1>7. CASE seen[f] # Nothing
  <2> DEFINE g == seen[f]
  <2>1. g \in File /\ pc[g] = "done" /\ next[f] = next[g] + 1 /\ next[g] \in Nat
    BY <1>7 DEF ChainInv, FilesInv, SeenIsBefore, Made, NothingRemoved, FilesTypeOK
  <2>2. PICK p \in rows : p.file = g
    BY <2>1 DEF ChainInv, FilesInv, RowsAreMade
  <2>3. p.version = next[g] /\ ~ p.latest
    BY <1>3, <1>5, <1>7, <2>2 DEF ChainInv, FilesInv, FlagsTell
  <2>4. \A q \in rows : q.version <= next[g]
    <3>1. SUFFICES ASSUME NEW q \in rows, q.version > next[g]
                   PROVE  FALSE
      BY <1>5, <2>1
    <3>2. next[f] \in 1 .. q.version
      BY <1>5, <2>1, <3>1
    <3> QED BY <1>3, <3>2 DEF ChainInv, Consecutive
  <2>5. Latest = {}
    <3>1. SUFFICES ASSUME NEW r \in rows, r.latest
                   PROVE  FALSE
      BY DEF Latest
    <3>2. p.version <= r.version
      BY <3>1, <2>2 DEF ChainInv, LatestIsTop, Latest
    <3>3. r.version = p.version
      BY <1>5, <2>1, <2>3, <2>4, <3>2
    <3> QED BY <2>2, <2>3, <3>1, <3>3 DEF ChainInv, FilesInv, RowsAreMade
  <2>6. \A q \in rows : q.version <= n.version
    BY <1>1, <1>5, <2>1, <2>4
  <2>7. LatestIsTop'
    <3>1. \A r \in rows' : r.latest => r = n
      BY <1>2, <2>5 DEF Latest
    <3>2. \A q \in rows' : q.version <= n.version
      BY <1>1, <1>2, <1>3, <2>6
    <3> QED BY <3>1, <3>2 DEF LatestIsTop, Latest
  <2>8. Consecutive'
    <3>1. ASSUME NEW v \in 1 .. n.version
          PROVE  v \in Versions \/ v = next[f]
      <4>1. CASE v = next[f]
        BY <4>1
      <4>2. CASE v # next[f]
        <5>1. v \in 1 .. p.version
          BY <1>1, <2>1, <2>3, <4>2
        <5> QED BY <5>1, <2>2 DEF ChainInv, Consecutive
      <4> QED BY <4>1, <4>2
    <3>2. \A q \in rows : \A v \in 1 .. q.version : v \in Versions
      BY DEF ChainInv, Consecutive
    <3> QED BY <1>2, <1>4, <3>1, <3>2 DEF Consecutive
  <2> QED BY <2>7, <2>8
<1> QED BY <1>6, <1>7

LEMMA UnflagKeepsChain ==
  ASSUME ChainInv, NEW f \in File, unflagLatest(f), NothingRemoved
  PROVE  Consecutive' /\ LatestIsTop'
<1>1. PICK r \in rows : r.file = seen[f] /\ rows' = (rows \ {r}) \cup {Unflag(r)}
  BY DEF unflagLatest
<1> DEFINE u == Unflag(r)
<1>2. u.version = r.version /\ u.latest = FALSE
  BY DEF Unflag, ChainInv, FilesInv, FilesTypeOK, FileRow
<1> HIDE DEF u
<1>3. rows' = (rows \ {r}) \cup {u}
  BY <1>1 DEF u
<1>4. Versions' = Versions
  <2>1. \A v : v \in Versions' <=> v \in Versions
    BY <1>2, <1>3 DEF Versions
  <2> QED BY <2>1
<1>5. Consecutive'
  BY <1>2, <1>3, <1>4 DEF ChainInv, Consecutive
<1>6. LatestIsTop'
  <2>1. \A p \in Latest' : p \in Latest
    BY <1>2, <1>3 DEF Latest
  <2>2. \A q \in rows' : \E p \in rows : p.version = q.version
    BY <1>2, <1>3
  <2> QED BY <2>1, <2>2 DEF ChainInv, LatestIsTop
<1> QED BY <1>5, <1>6

LEMMA ChainStep == ChainInv /\ [DocumentsNext]_allVars => ChainInv'
<1> SUFFICES ASSUME ChainInv, [DocumentsNext]_allVars PROVE ChainInv'
  OBVIOUS
<1>1. FilesInv /\ FilesInv'
  BY FilesStep DEF ChainInv
<1>2. CASE UNCHANGED rows /\ (NothingRemoved' => NothingRemoved)
  BY <1>1, <1>2 DEF ChainInv, Consecutive, LatestIsTop, Versions, Latest
<1>3. ASSUME NEW f \in File, findLatest(f) \/ uploadFails(f)
      PROVE  UNCHANGED rows /\ (NothingRemoved' => NothingRemoved)
  BY <1>1, <1>3 DEF findLatest, uploadFails, NothingRemoved, FilesInv, FilesTypeOK
<1>4. ASSUME NEW f \in File, unflagLatest(f)
      PROVE  ChainInv'
  <2>1. NothingRemoved' => NothingRemoved
    BY <1>1, <1>4 DEF unflagLatest, NothingRemoved, FilesInv, FilesTypeOK
  <2> QED BY <1>1, <1>4, <2>1, UnflagKeepsChain DEF ChainInv
<1>5. ASSUME NEW f \in File, createRow(f)
      PROVE  ChainInv'
  <2>1. NothingRemoved' => NothingRemoved
    BY <1>1, <1>5 DEF createRow, ReadyToCreate, NothingRemoved, FilesInv, FilesTypeOK
  <2> QED BY <1>1, <1>5, <2>1, CreateKeepsChain DEF ChainInv
<1>6. ASSUME NEW f \in File, remove(f)
      PROVE  ChainInv'
  <2>1. ~ NothingRemoved'
    BY <1>1, <1>6 DEF remove, NothingRemoved, FilesInv, FilesTypeOK
  <2> QED BY <1>1, <2>1 DEF ChainInv
<1>7. CASE UNCHANGED fileVars
  BY <1>2, <1>7, StillFiles DEF fileVars
<1> QED BY <1>2, <1>3, <1>4, <1>5, <1>6, <1>7, Steps, DeliveryLeavesFiles DEF allVars

\* While nothing is removed, the current version of a document is the one with
\* the highest number, and there is one at most.
THEOREM OneCurrentVersion == DocumentsSpec => []LatestIsNewest
<1>1. ChainInv => LatestIsNewest
  <2> SUFFICES ASSUME ChainInv, NothingRemoved,
                      NEW r \in Latest, NEW q \in rows, q.version >= r.version
               PROVE  q = r
    BY DEF LatestIsNewest
  <2>1. r \in rows /\ q.version <= r.version
    BY DEF ChainInv, LatestIsTop, Latest
  <2>2. q.version = r.version
    BY <2>1 DEF ChainInv, FilesInv, FilesTypeOK, FileRow
  <2> QED BY <2>1, <2>2 DEF ChainInv, FilesInv, RowsAreMade
<1> QED BY <1>1, ChainInit, ChainStep, PTL DEF DocumentsSpec

=============================================================================
