---------------------------- MODULE CarpoolData ----------------------------
(***************************************************************************)
(* The values the two sides of a carpool exchange through the realtime     *)
(* database, and the pure operators on them.                               *)
(*                                                                         *)
(* A trip (pick-up and drop-off coordinates) is identified with the rider  *)
(* who asked for it, and a driver's route with the rider it makes a detour *)
(* for: NoRider is the route the driver started with.                      *)
(***************************************************************************)
EXTENDS Naturals, Sequences

CONSTANTS
  Drivers,    \* user ids that drive
  Riders,     \* user ids that look for a ride
  NoDriver,   \* nil, where a driver's id could stand
  NoRider,    \* nil, where a rider's id could stand
  NoRoute,    \* no value at DriverRoutes/<driver>
  Unbounded   \* in place of a bound: nothing is bounded

ASSUME IdentityAssumption ==
  /\ NoDriver \notin Drivers
  /\ NoRider \notin Riders
  /\ NoRoute \notin Riders \union {NoRider}

(* The bounds that keep an instance finite.  The proofs need none of them. *)
ASSUME BoundAssumption == Unbounded \notin Nat

Bounds == Nat \union {Unbounded}

n \prec bound == bound = Unbounded \/ n < bound

NoStatus == "none"

(* The raw values of the two status enumerations. *)
CarpoolRequestStatus ==
  {"requested", "accepted", "riderCancelled", "confirmed", "cancelled", "deleted"}
CarpoolAcceptStatus == {"accepted", "rejected", "confirmed", "arrived"}

OptionalDriver == Drivers \union {NoDriver}
OptionalRider  == Riders \union {NoRider}
Routes         == OptionalRider

(***************************************************************************)
(* A node RouteRequests/<driver>.  RiderID, RLoc and RDrop are written and *)
(* removed together, so one field stands for the three.  A status written  *)
(* below a missing node creates a node with nothing but the status.        *)
(***************************************************************************)
RequestNode == [status : CarpoolRequestStatus \union {NoStatus}, rider : OptionalRider]
NoRequest   == [status |-> NoStatus, rider |-> NoRider]

RequestFrom(r)        == [status |-> "requested", rider |-> r]
WithStatus(node, s)   == [node EXCEPT !.status = s]

(***************************************************************************)
(* What the observer of RouteRequests/<driver> does with a snapshot before *)
(* it calls back: a missing node is not a dictionary, and two kinds of     *)
(* bare node are filtered out.  Any other bare node fails the forced cast  *)
(* of RiderID.                                                             *)
(***************************************************************************)
IsFiltered(node) ==
  \/ node = NoRequest
  \/ node.rider = NoRider /\ node.status \in {"riderCancelled", "accepted"}

FailsForcedCast(node) == ~IsFiltered(node) /\ node.rider = NoRider

(***************************************************************************)
(* A node RideAccepts/<rider>.  Every write replaces the whole node by one *)
(* driver's key, so it never holds more than one answer.                   *)
(***************************************************************************)
Answer   == [driver : Drivers, status : CarpoolAcceptStatus]
NoAnswer == [driver |-> NoDriver, status |-> NoStatus]
=============================================================================
