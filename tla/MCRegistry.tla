---------------------------- MODULE MCRegistry ----------------------------
(* A small instance of Registry for TLC. *)
EXTENDS Registry

TwoYears == 1 .. 2

=============================================================================
