----------------------------- MODULE NumberBook -----------------------------
(***************************************************************************)
(* What an annual register promises: the numbers of a year are given out   *)
(* one by one, in order, each once and none left out.                      *)
(***************************************************************************)
EXTENDS Naturals, FiniteSets

CONSTANT Year

VARIABLE issued   \* the numbers given out, by year

Init == issued = [y \in Year |-> {}]

Issue(y) == issued' = [issued EXCEPT ![y] = @ \cup {Cardinality(@) + 1}]

Next == \E y \in Year : Issue(y)

Spec == Init /\ [][Next]_issued

=============================================================================
