-------------------------- MODULE MCDatabaseClient --------------------------
(* DatabaseClient for TLC: every kind of write, on one child or on all;    *)
(* and two shapes of them for liveness, where symmetry is not sound.       *)
EXTENDS DatabaseClient, TLC

OneOrAll == {shape \in Shapes : shape.kind # "merge" \/ shape.keys = Keys}

Aside == CHOOSE k \in Keys : TRUE
SetAndChild ==
  {shape \in Shapes : shape.kind = "set" \/ (shape.kind = "child" /\ Aside \notin shape.keys)}

Children == Permutations(Keys)
=============================================================================
