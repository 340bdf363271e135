----------------------------- MODULE MCCarpool -----------------------------
(* Carpool for TLC.  Riders, and drivers, are interchangeable: no          *)
(* definition tells one from another.                                      *)
EXTENDS Carpool, TLC

Identities == Permutations(Drivers) \union Permutations(Riders)
=============================================================================
