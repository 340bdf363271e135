--------------------------- MODULE DatabaseValues ---------------------------
(***************************************************************************)
(* A node of the realtime database with a child at each of Keys, and the   *)
(* writes an app makes to it.  The value of a write is its number, of a    *)
(* removal Absent, of a state another client left a negative number.       *)
(***************************************************************************)
EXTENDS Integers, Sequences, SequencesExt

CONSTANTS
  Keys,         \* the children of the node
  WriteShapes,  \* the writes made: of which kind, to which children
  MaxWrites,    \* bound: writes made by the app
  MaxForeign    \* bound: states other clients put the node into

(* setValue on the node, setValue on a child, updateChildValues on the     *)
(* node.                                                                   *)
Shapes ==
  [kind : {"set"}, keys : {Keys}]
    \union [kind : {"child"}, keys : {{k} : k \in Keys}]
    \union [kind : {"merge"}, keys : SUBSET Keys \ {{}}]

ASSUME DatabaseValuesAssumption ==
  /\ WriteShapes \subseteq Shapes
  /\ MaxWrites \in Nat /\ MaxForeign \in Nat

Absent    == 0
Values    == (0 - MaxForeign)..MaxWrites
Node      == [Keys -> Values]
EmptyNode == [k \in Keys |-> Absent]

Over(upper, lower) ==
  [k \in DOMAIN upper \union DOMAIN lower |->
     IF k \in DOMAIN upper THEN upper[k] ELSE lower[k]]

(* A write of nothing is a removal.                                        *)
Writes(id) ==
  {[id |-> id, kind |-> shape.kind, value |-> [k \in shape.keys |-> v]] :
     shape \in WriteShapes, v \in {id, Absent}}

ApplyWrite(node, w) == Over(w.value, node)

(* A node under a sequence of writes, and the value of an observer that    *)
(* has heard none.                                                         *)
Under(node, writes) == FoldLeft(ApplyWrite, node, writes)
Nothing == [k \in {} |-> Absent]
=============================================================================
