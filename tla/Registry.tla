------------------------------ MODULE Registry ------------------------------
(***************************************************************************)
(* Registration: createIncoming (src/src/incoming/incoming.service.ts) and *)
(* createOutgoing (src/src/outgoing/outgoing.service.ts), each one Read    *)
(* Committed transaction that finds or creates the external party, creates *)
(* a document, numbers it within the year and creates the record.          *)
(*                                                                         *)
(* Incoming numbers are the count of the year's numbers plus one, guarded  *)
(* by the unique constraint on incomingNumber.  Outgoing numbers come from *)
(* a NumberSequence row, which the transaction keeps locked until it ends. *)
(* The distribution createIncoming opens is in module Distribution.        *)
(***************************************************************************)
EXTENDS Naturals, FiniteSets

CONSTANTS
  None,        \* null
  Year,        \* years of the server clock: an interval of naturals
  FirstYear,   \* the year the system starts in
  Name,        \* names of external parties, up to letter case
  Doc,         \* documents: bounds the number of registrations
  Registrar    \* create handlers that can be in progress at once

ASSUME RegistryAssumption ==
  /\ Year \subseteq Nat
  /\ FirstYear \in Year
  /\ None \notin Registrar \cup Name \cup Nat
  /\ IsFiniteSet(Doc)
  /\ IsFiniteSet(Registrar)

VARIABLES
  year,        \* the year of the server clock
  party,       \* how many ExternalParty rows bear a name
  incoming,    \* IncomingRecord rows, each with its Document
  outgoing,    \* OutgoingRecord rows, each with its Document
  lastNumber,  \* NumberSequence.lastNumber of scope OUTGOING_<year>; 0: no row
  holder,      \* the transaction that has locked that row
  reg          \* what the handlers in progress have read and computed

vars == <<year, party, incoming, outgoing, lastNumber, holder, reg>>

Record == [doc : Doc, year : Year, seq : Nat \ {0}]

Progress == [op : {"none", "incoming", "outgoing"}, year : Year, name : Name \cup {None},
             newParty : BOOLEAN, seq : Nat]

Idle == [op |-> "none", year |-> FirstYear, name |-> None, newParty |-> FALSE, seq |-> 0]

OfYear(records, y) == {r \in records : r.year = y}

Numbers(records, y) == {r.seq : r \in OfYear(records, y)}

FreeDocs == Doc \ {r.doc : r \in incoming \cup outgoing}

\* The handlers that did not find the party and will create it.
Creating(n) == {g \in Registrar : reg[g].newParty /\ reg[g].name = n}

----------------------------------------------------------------------------

Init ==
  /\ year = FirstYear
  /\ party = [n \in Name |-> 0]
  /\ incoming = {}
  /\ outgoing = {}
  /\ lastNumber = [y \in Year |-> 0]
  /\ holder = [y \in Year |-> None]
  /\ reg = [g \in Registrar |-> Idle]

\* Fault: the party is created without being looked up.
beginAlwaysCreating(g, op, n) ==
  /\ reg[g].op = "none"
  /\ reg' = [reg EXCEPT ![g] = [op |-> op, year |-> year, name |-> n,
                                newParty |-> TRUE, seq |-> 0]]
  /\ UNCHANGED <<year, party, incoming, outgoing, lastNumber, holder>>

\* The year is read before the transaction; its first query looks the party
\* up, and creates it (seen by nobody else before commit) if it is not there.
begin(g, op, n) ==
  /\ reg[g].op = "none"
  /\ reg' = [reg EXCEPT ![g] = [op |-> op, year |-> year, name |-> n,
                                newParty |-> party[n] = 0, seq |-> 0]]
  /\ UNCHANGED <<year, party, incoming, outgoing, lastNumber, holder>>

\* Fault: counts the records of all years.
generateIncomingNumberAllYears(g) ==
  /\ reg[g].op = "incoming"
  /\ reg[g].seq = 0
  /\ reg' = [reg EXCEPT ![g].seq = Cardinality(incoming) + 1]
  /\ UNCHANGED <<year, party, incoming, outgoing, lastNumber, holder>>

\* The count sees the committed records only.
generateIncomingNumber(g) ==
  /\ reg[g].op = "incoming"
  /\ reg[g].seq = 0
  /\ reg' = [reg EXCEPT ![g].seq = Cardinality(OfYear(incoming, reg[g].year)) + 1]
  /\ UNCHANGED <<year, party, incoming, outgoing, lastNumber, holder>>

\* Fault: the sequence row is that of the clock's year by now.
generateOutgoingNumberThisYear(g) ==
  LET y == reg[g].year
  IN /\ reg[g].op = "outgoing"
     /\ reg[g].seq = 0
     /\ holder[y] = None
     /\ holder' = [holder EXCEPT ![y] = g]
     /\ reg' = [reg EXCEPT ![g].seq = lastNumber[year] + 1]
     /\ UNCHANGED <<year, party, incoming, outgoing, lastNumber>>

\* The upsert waits for the transaction that holds the row.
generateOutgoingNumber(g) ==
  LET y == reg[g].year
  IN /\ reg[g].op = "outgoing"
     /\ reg[g].seq = 0
     /\ holder[y] = None
     /\ holder' = [holder EXCEPT ![y] = g]
     /\ reg' = [reg EXCEPT ![g].seq = lastNumber[y] + 1]
     /\ UNCHANGED <<year, party, incoming, outgoing, lastNumber>>

AddParty(g) ==
  party' = IF reg[g].newParty THEN [party EXCEPT ![reg[g].name] = @ + 1] ELSE party

RecordOf(g) == [doc |-> CHOOSE d \in FreeDocs : TRUE, year |-> reg[g].year, seq |-> reg[g].seq]

\* Fault: the record is written before its number is computed.
commitIncomingEarly(g) ==
  /\ reg[g].op = "incoming"
  /\ FreeDocs # {}
  /\ reg[g].seq \notin Numbers(incoming, reg[g].year)
  /\ incoming' = incoming \cup {RecordOf(g)}
  /\ AddParty(g)
  /\ reg' = [reg EXCEPT ![g] = Idle]
  /\ UNCHANGED <<year, outgoing, lastNumber, holder>>

\* incomingNumber is unique.
commitIncoming(g) ==
  /\ reg[g].op = "incoming"
  /\ reg[g].seq # 0
  /\ FreeDocs # {}
  /\ reg[g].seq \notin Numbers(incoming, reg[g].year)
  /\ incoming' = incoming \cup {RecordOf(g)}
  /\ AddParty(g)
  /\ reg' = [reg EXCEPT ![g] = Idle]
  /\ UNCHANGED <<year, outgoing, lastNumber, holder>>

\* outgoingNumber is unique too.
commitOutgoing(g) ==
  LET y == reg[g].year
  IN /\ reg[g].op = "outgoing"
     /\ reg[g].seq # 0
     /\ FreeDocs # {}
     /\ reg[g].seq \notin Numbers(outgoing, y)
     /\ outgoing' = outgoing \cup {RecordOf(g)}
     /\ lastNumber' = [lastNumber EXCEPT ![y] = reg[g].seq]
     /\ holder' = [holder EXCEPT ![y] = None]
     /\ AddParty(g)
     /\ reg' = [reg EXCEPT ![g] = Idle]
     /\ UNCHANGED <<year, incoming>>

\* A failed statement (the unique constraint of incomingNumber among them), a
\* lost connection or the death of the process: everything is rolled back.
rollback(g) ==
  /\ reg[g].op # "none"
  /\ holder' = [y \in Year |-> IF holder[y] = g THEN None ELSE holder[y]]
  /\ reg' = [reg EXCEPT ![g] = Idle]
  /\ UNCHANGED <<year, party, incoming, outgoing, lastNumber>>

newYear ==
  /\ year + 1 \in Year
  /\ year' = year + 1
  /\ UNCHANGED <<party, incoming, outgoing, lastNumber, holder, reg>>

Next ==
  \/ \E g \in Registrar, n \in Name, op \in {"incoming", "outgoing"} : begin(g, op, n)
  \/ \E g \in Registrar : generateIncomingNumber(g)
  \/ \E g \in Registrar : generateOutgoingNumber(g)
  \/ \E g \in Registrar : commitIncoming(g)
  \/ \E g \in Registrar : commitOutgoing(g)
  \/ \E g \in Registrar : rollback(g)
  \/ newYear

Spec == Init /\ [][Next]_vars

----------------------------------------------------------------------------
(* Safety *)

\* Every variable has its type.
TypeOK ==
  /\ year \in Year
  /\ party \in [Name -> Nat]
  /\ incoming \in SUBSET Record
  /\ outgoing \in SUBSET Record
  /\ lastNumber \in [Year -> Nat]
  /\ holder \in [Year -> Registrar \cup {None}]
  /\ reg \in [Registrar -> Progress]
  /\ \A g \in Registrar : reg[g].op # "none" => reg[g].name \in Name

\* The numbers of a year are 1 .. n for its n records: none twice, none left
\* out, although two registrations may count the same records.
Gapless(records) ==
  \A y \in Year : Numbers(records, y) = 1 .. Cardinality(OfYear(records, y))

IncomingGapless == Gapless(incoming)

\* Likewise for outgoing records, and the NumberSequence row stands at the
\* last number: a rolled-back registration leaves no gap.
OutgoingGapless ==
  /\ Gapless(outgoing)
  /\ \A y \in Year : lastNumber[y] = Cardinality(OfYear(outgoing, y))

\* Find-or-create is not atomic: concurrent registrations may each create the
\* same party.  There are never more copies than handlers at once.
PartyCopiesBounded ==
  \A n \in Name : party[n] + Cardinality(Creating(n)) <= Cardinality(Registrar)

----------------------------------------------------------------------------
(* Both registers keep the promise of NumberBook. *)

IncomingBook == INSTANCE NumberBook WITH issued <- [y \in Year |-> Numbers(incoming, y)]
OutgoingBook == INSTANCE NumberBook WITH issued <- [y \in Year |-> Numbers(outgoing, y)]

\* Every committed createIncoming issues the next incoming number of its year.
ImplementsIncomingBook == IncomingBook!Spec

\* Every committed createOutgoing issues the next outgoing number of its year.
ImplementsOutgoingBook == OutgoingBook!Spec

=============================================================================
