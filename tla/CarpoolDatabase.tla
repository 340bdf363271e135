-------------------------- MODULE CarpoolDatabase --------------------------
(***************************************************************************)
(* The part of the Firebase realtime database the carpool protocol lives   *)
(* in, with the observers the apps keep on it, and the operations of       *)
(* DriverDataManager and RiderDataManager that write it.                   *)
(*                                                                         *)
(* A write commits at once and puts a snapshot in the queue of every       *)
(* observer of the node; observers run later, one snapshot at a time, in   *)
(* the order of the writes.  An observer is never removed, so each         *)
(* registration adds one more copy of every later event.                   *)
(***************************************************************************)
EXTENDS CarpoolData

CONSTANT MaxEvents   \* bound: undelivered snapshots when a user taps

ASSUME EventBoundAssumption == MaxEvents \in Bounds

VARIABLES
  RouteRequests,      \* [Drivers -> RequestNode]
  RideAccepts,        \* [Riders -> Answer or NoAnswer]
  DriverRoutes,       \* [Drivers -> Routes or NoRoute]
  DriverLocations,    \* the drivers with a value at DriverLocations/<driver>
  requestObservers,   \* [Drivers -> Nat]: registrations on the driver's own node
  requestEvents,      \* [Drivers -> Seq(RequestNode)]: their undelivered snapshots
  acceptObservers,    \* [Riders -> Seq(Drivers)]: the driver each registration captured
  acceptEvents,       \* [Riders -> Seq(AcceptEvents)]: what the rider's app has yet to hear
  asked               \* history: the pairs <<rider, driver>> of all requests made

dbVars == <<RouteRequests, RideAccepts, DriverRoutes, DriverLocations,
            requestObservers, requestEvents, acceptObservers, acceptEvents,
            asked>>

(* An undelivered answer, with the driver its observer captured; or, with  *)
(* no answer, the completion of a denied removal at that driver.  Empty    *)
(* snapshots are not queued, as the observer drops them.                   *)
AcceptEvents == [captured : Drivers, answer : Answer \union {NoAnswer}]

DatabaseTypeOK ==
  /\ RouteRequests \in [Drivers -> RequestNode]
  /\ RideAccepts \in [Riders -> Answer \union {NoAnswer}]
  /\ DriverRoutes \in [Drivers -> Routes \union {NoRoute}]
  /\ DriverLocations \subseteq Drivers
  /\ requestObservers \in [Drivers -> Nat]
  /\ requestEvents \in [Drivers -> Seq(RequestNode)]
  /\ acceptObservers \in [Riders -> Seq(Drivers)]
  /\ acceptEvents \in [Riders -> Seq(AcceptEvents)]
  /\ asked \subseteq Riders \X Drivers

DatabaseInit ==
  /\ RouteRequests = [d \in Drivers |-> NoRequest]
  /\ RideAccepts = [r \in Riders |-> NoAnswer]
  /\ DriverRoutes = [d \in Drivers |-> NoRoute]
  /\ DriverLocations = {}
  /\ requestObservers = [d \in Drivers |-> 0]
  /\ requestEvents = [d \in Drivers |-> <<>>]
  /\ acceptObservers = [r \in Riders |-> <<>>]
  /\ acceptEvents = [r \in Riders |-> <<>>]
  /\ asked = {}

(* The bound on the queues of snapshots, in the guards of their sources.   *)
HasRoom(d) ==
  /\ Len(requestEvents[d]) \prec MaxEvents
  /\ \A r \in Riders : Len(acceptEvents[r]) \prec MaxEvents

-----------------------------------------------------------------------------
(* Snapshots. *)

(* One copy of the snapshot for each of n registrations; none when the     *)
(* callback would drop it anyway.                                          *)
RequestSnapshots(n, node) ==
  IF IsFiltered(node) THEN <<>> ELSE [i \in 1..n |-> node]

AcceptSnapshots(observers, answer) ==
  [i \in 1..Len(observers) |-> [captured |-> observers[i], answer |-> answer]]

(* The effect of one write to RouteRequests/d: an unchanged node raises no *)
(* event.                                                                  *)
WriteRequest(d, node) ==
  /\ RouteRequests' = [RouteRequests EXCEPT ![d] = node]
  /\ requestEvents' = IF node = RouteRequests[d] THEN requestEvents
                      ELSE [requestEvents EXCEPT
                              ![d] = @ \o RequestSnapshots(requestObservers[d], node)]

-----------------------------------------------------------------------------
(* DriverDataManager. *)

(* Mutant: the answer is written to the parent node, for every rider.      *)
setRideAcceptForAll(d, r, s) ==
  LET answer == [driver |-> d, status |-> s] IN
  /\ RideAccepts' = [x \in Riders |-> answer]
  /\ acceptEvents' = [x \in Riders |->
                       acceptEvents[x] \o AcceptSnapshots(acceptObservers[x], answer)]

(* Every answer carries the time it was written at, so that every write is *)
(* a change and raises an event.                                           *)
setRideAccept(d, r, s) ==
  /\ RideAccepts' = [RideAccepts EXCEPT ![r] = [driver |-> d, status |-> s]]
  /\ acceptEvents' = [acceptEvents EXCEPT
       ![r] = @ \o AcceptSnapshots(acceptObservers[r], [driver |-> d, status |-> s])]

setRouteRequest(d, s) == WriteRequest(d, WithStatus(RouteRequests[d], s))

(* setRouteRequest(.deleted) and deleteRouteRequest, always called in this *)
(* order: the first write is seen by the observers, the removal is not.    *)
markAndDeleteRouteRequest(d) ==
  /\ RouteRequests' = [RouteRequests EXCEPT ![d] = NoRequest]
  /\ requestEvents' = [requestEvents EXCEPT
       ![d] = @ \o RequestSnapshots(requestObservers[d],
                                    WithStatus(RouteRequests[d], "deleted"))]

(* A new registration first hears the value the node has. *)
observeCarpoolRequestForMyDriverID(d) ==
  /\ requestObservers' = [requestObservers EXCEPT ![d] = @ + 1]
  /\ requestEvents' = [requestEvents EXCEPT ![d] = @ \o RequestSnapshots(1, RouteRequests[d])]

setRoute(d, route) == DriverRoutes' = [DriverRoutes EXCEPT ![d] = route]

(* Mutant: the last position stays.                                        *)
removeRouteKeepingLocation(d) ==
  /\ DriverRoutes' = [DriverRoutes EXCEPT ![d] = NoRoute]
  /\ UNCHANGED DriverLocations

removeRoute(d) ==
  /\ DriverLocations' = DriverLocations \ {d}
  /\ DriverRoutes' = [DriverRoutes EXCEPT ![d] = NoRoute]

setCurrentLocation(d) == DriverLocations' = DriverLocations \union {d}

-----------------------------------------------------------------------------
(* RiderDataManager. *)

requestCarpool(r, d) ==
  /\ WriteRequest(d, RequestFrom(r))
  /\ asked' = asked \union {<<r, d>>}

startObservingRideAcceptForMyRiderID(r, d) ==
  /\ acceptObservers' = [acceptObservers EXCEPT ![r] = Append(@, d)]
  /\ acceptEvents' = IF RideAccepts[r] = NoAnswer THEN acceptEvents
                     ELSE [acceptEvents EXCEPT
                             ![r] = @ \o AcceptSnapshots(<<d>>, RideAccepts[r])]

(* The first write of cancelCarpool and of clearCarpoolData: neither looks *)
(* at whose request the driver's node holds.                               *)
cancelRouteRequest(d) == setRouteRequest(d, "riderCancelled")
removeRouteRequest(d) == WriteRequest(d, NoRequest)

(* Mutant: the second write is forgotten.                                  *)
keepRideAccept(r, d) == UNCHANGED <<RideAccepts, acceptEvents>>

(* Their second write, made when the first has completed: the observer     *)
(* returns early on the empty snapshot it raises.                          *)
removeRideAccept(r, d) ==
  /\ RideAccepts' = IF RideAccepts[r].driver = d
                    THEN [RideAccepts EXCEPT ![r] = NoAnswer] ELSE RideAccepts
  /\ UNCHANGED acceptEvents

RemovalCompletion(d) == <<[captured |-> d, answer |-> NoAnswer]>>

(* The second write denied: what was removed locally is put back, so that  *)
(* its answer is raised once more, and then the completion is called.      *)
removeRideAcceptDenied(r, d) ==
  LET restored == IF RideAccepts[r].driver = d
                  THEN AcceptSnapshots(acceptObservers[r], RideAccepts[r]) ELSE <<>> IN
  /\ acceptEvents' = [acceptEvents EXCEPT ![r] = @ \o restored \o RemovalCompletion(d)]
  /\ UNCHANGED RideAccepts

-----------------------------------------------------------------------------
(* The end of an app's process takes its observers with it and leaves the  *)
(* nodes as they are: no onDisconnect operation is registered anywhere.    *)
dropRequestObservers(d) ==
  /\ requestObservers' = [requestObservers EXCEPT ![d] = 0]
  /\ requestEvents' = [requestEvents EXCEPT ![d] = <<>>]

dropAcceptObservers(r) ==
  /\ acceptObservers' = [acceptObservers EXCEPT ![r] = <<>>]
  /\ acceptEvents' = [acceptEvents EXCEPT ![r] = <<>>]
=============================================================================
