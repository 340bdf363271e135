---------------------------- MODULE DriverClient ----------------------------
(***************************************************************************)
(* The driver's app during a carpool: CarpoolAcceptManager, the part of    *)
(* DriverViewController that starts, follows and ends a navigation, and    *)
(* the observer of DriverDataManager that feeds requests to them.          *)
(*                                                                         *)
(* All handlers run on the main queue, one at a time.  Between them any    *)
(* other handler may run: calls to the details store and to the routing    *)
(* service answer at any later time and in any order, and read the         *)
(* manager's fields as they are then.                                      *)
(***************************************************************************)
EXTENDS CarpoolDatabase

CONSTANTS
  DetailsOutcomes,  \* how getUserDetails may end: see DetailsFetched
  RoutingOutcomes,  \* whether a call to the routing service may succeed or fail
  DriverLifecycle,  \* may the app be quit, and launched again after its end?
  OtherStatuses,    \* the statuses a rider's app on another platform writes
  MaxStarts,        \* bound: navigations started in one life of the app
  MaxCalls          \* bound: calls of one kind in flight for one driver

ASSUME DriverOutcomeAssumption ==
  /\ DetailsOutcomes \subseteq {"complete", "incomplete", "error"}
  /\ RoutingOutcomes \subseteq BOOLEAN
  /\ DriverLifecycle \subseteq {"quit", "launch"}
  /\ OtherStatuses \subseteq {"confirmed", "cancelled"}
  /\ MaxStarts \in Bounds /\ MaxCalls \in Bounds

VARIABLE driver   \* [Drivers -> DriverMemory]

driverVars == <<driver, dbVars>>

(***************************************************************************)
(* The volatile memory of the app.                                         *)
(*   original   originalRoute is set                                       *)
(*   route      the route the navigation follows                           *)
(*   request    currentCarpoolRequest: the rider its pick-up belongs to,   *)
(*              the rider its details are of (NoRider: nil or unusable),   *)
(*              whether the time to the pick-up is known                   *)
(*   riderID    currentCarpoolRequestRiderID                               *)
(*   legTime    routeCurrentLegtimeRemaining is set                        *)
(*   alert      the request alert on screen and the rider it names; an     *)
(*              "orphaned" alert is one the manager no longer refers to    *)
(*   badge      the badge on screen; "pickUp" has the cancel button        *)
(*   calls      the calls in flight, by kind                               *)
(***************************************************************************)
S1CCarpoolRequest ==
  [status : CarpoolRequestStatus \union {NoStatus}, rider : OptionalRider,
   details : OptionalRider, time : BOOLEAN]

DriverAlert == [state : {"none", "shown", "orphaned"}, names : OptionalRider]
NoAlert     == [state |-> "none", names |-> NoRider]

DriverCalls ==
  [details : [Riders -> Nat], time : Nat, distance : Nat, accept : [Riders -> Nat]]

DriverMemory ==
  [app : {"running", "quit", "crashed"}, navigating : BOOLEAN, original : BOOLEAN,
   route : Routes, request : S1CCarpoolRequest, riderID : OptionalRider,
   legTime : BOOLEAN, alert : DriverAlert, badge : {"none", "pickUp", "notice"},
   calls : DriverCalls]

NoCarpoolRequest ==
  [status |-> NoStatus, rider |-> NoRider, details |-> NoRider, time |-> FALSE]

NewCarpoolRequest(node) ==
  [NoCarpoolRequest EXCEPT !.status = node.status, !.rider = node.rider]

FreshMemory(app) ==
  [app |-> app, navigating |-> FALSE, original |-> FALSE, route |-> NoRider,
   request |-> NoCarpoolRequest, riderID |-> NoRider, legTime |-> FALSE,
   alert |-> NoAlert, badge |-> "none",
   calls |-> [details |-> [r \in Riders |-> 0], time |-> 0, distance |-> 0,
              accept |-> [r \in Riders |-> 0]]]

DriverInit == DatabaseInit /\ driver = [d \in Drivers |-> FreshMemory("running")]

Running(d) == driver[d].app = "running"

(* The end of the process. *)
EndDriverApp(d, how) ==
  /\ driver' = [driver EXCEPT ![d] = FreshMemory(how)]
  /\ dropRequestObservers(d)
  /\ UNCHANGED <<RouteRequests, RideAccepts, DriverRoutes, DriverLocations,
                 acceptObservers, acceptEvents, asked>>

DriverCrashes(d) == EndDriverApp(d, "crashed")

-----------------------------------------------------------------------------
(* Navigation. *)

StartCarpool(d) ==
  /\ Running(d) /\ ~driver[d].navigating /\ driver[d].alert = NoAlert
  /\ requestObservers[d] \prec MaxStarts
  /\ driver' = [driver EXCEPT ![d].navigating = TRUE, ![d].original = TRUE,
                              ![d].route = NoRider]
  /\ observeCarpoolRequestForMyDriverID(d)
  /\ setRoute(d, NoRider)
  /\ UNCHANGED <<RouteRequests, RideAccepts, DriverLocations,
                 acceptObservers, acceptEvents, asked>>

(* The alert covers the navigation's cancel button. *)
DismissNavigation(d) ==
  /\ Running(d) /\ driver[d].navigating /\ driver[d].alert = NoAlert
  /\ driver' = [driver EXCEPT ![d].navigating = FALSE]
  /\ removeRoute(d)
  /\ UNCHANGED <<RouteRequests, RideAccepts, requestObservers, requestEvents,
                 acceptObservers, acceptEvents, asked>>

(* Mutant: the navigation service is not stopped when the driver leaves.   *)
ProgressWithoutNavigation(d, lastMinute) ==
  /\ Running(d)
  /\ driver' = [driver EXCEPT ![d].legTime = TRUE]
  /\ setCurrentLocation(d)
  /\ UNCHANGED <<RouteRequests, RideAccepts, DriverRoutes, requestObservers,
                 requestEvents, acceptObservers, acceptEvents, asked>>

(* In the last minute before the end of a leg the badge goes. *)
NavigationProgress(d, lastMinute) ==
  /\ Running(d) /\ driver[d].navigating
  /\ driver' = [driver EXCEPT
       ![d].legTime = TRUE,
       ![d].badge = IF /\ driver[d].request.status = "accepted"
                       /\ driver[d].request.details # NoRider
                       /\ lastMinute
                    THEN "none" ELSE @]
  /\ setCurrentLocation(d)
  /\ UNCHANGED <<RouteRequests, RideAccepts, DriverRoutes, requestObservers,
                 requestEvents, acceptObservers, acceptEvents, asked>>

(* The confirmation alert of the pick-up is made without a subtitle, which *)
(* its view unwraps: showing it ends the app.                              *)
ArriveAtPickUp(d) ==
  /\ Running(d) /\ driver[d].navigating /\ driver[d].route \in Riders
  /\ DriverCrashes(d)

-----------------------------------------------------------------------------
(* Answers of the user. *)

(* Only an alert the manager still refers to is dismissed. *)
Dismissed(alert) == IF alert.state = "shown" THEN NoAlert ELSE alert

(* resetToOriginalRoute: the navigation, then the published route. *)
NavigatedAfterReset(d) == IF driver[d].original THEN NoRider ELSE driver[d].route

(* Mutant: only the navigation is reset.                                   *)
StillPublished(d) == DriverRoutes

PublishedAfterReset(d) ==
  IF driver[d].original THEN [DriverRoutes EXCEPT ![d] = NoRider] ELSE DriverRoutes

rejectCarpoolRequest(d) ==
  /\ IF driver[d].riderID = NoRider
     THEN UNCHANGED <<RideAccepts, acceptEvents, RouteRequests, requestEvents>>
     ELSE /\ setRideAccept(d, driver[d].riderID, "rejected")
          /\ markAndDeleteRouteRequest(d)
  /\ DriverRoutes' = PublishedAfterReset(d)
  /\ UNCHANGED <<DriverLocations, requestObservers, acceptObservers, asked>>

TapReject(d) ==
  /\ Running(d) /\ driver[d].alert # NoAlert /\ HasRoom(d)
  /\ driver' = [driver EXCEPT ![d].alert = Dismissed(@),
                              ![d].route = NavigatedAfterReset(d)]
  /\ rejectCarpoolRequest(d)

(* A tap on the badge's button also fades the badge out. *)
TapCancelOnBadge(d) ==
  /\ Running(d) /\ driver[d].badge = "pickUp" /\ HasRoom(d)
  /\ driver' = [driver EXCEPT ![d].badge = "none", ![d].route = NavigatedAfterReset(d)]
  /\ rejectCarpoolRequest(d)

(* The handler asks for the detour, then shows a badge with the rider's    *)
(* name and the leg's remaining time.                                      *)
TapAccept(d) ==
  LET request == driver[d].request IN
  /\ Running(d) /\ driver[d].alert # NoAlert /\ HasRoom(d)
  /\ \/ /\ request.rider = NoRider \/ request.details = NoRider \/ ~driver[d].legTime
        /\ DriverCrashes(d)
     \/ /\ request.rider # NoRider /\ request.details # NoRider /\ driver[d].legTime
        /\ driver[d].calls.accept[request.rider] \prec MaxCalls
        /\ driver' = [driver EXCEPT ![d].calls.accept[request.rider] = @ + 1,
                                    ![d].badge = "pickUp",
                                    ![d].alert = Dismissed(@)]
        /\ UNCHANGED dbVars

(* Mutant: the rider is not answered.                                      *)
DetourWithoutAnswer(d, p) ==
  /\ Running(d) /\ driver[d].calls.accept[p] > 0
  /\ TRUE \in RoutingOutcomes
  /\ driver' = [driver EXCEPT ![d].calls.accept[p] = @ - 1, ![d].route = p]
  /\ setRouteRequest(d, "accepted")
  /\ setRoute(d, p)
  /\ UNCHANGED <<RideAccepts, acceptEvents, DriverLocations, requestObservers,
                 acceptObservers, asked>>

(* Mutant: the detour is not published.                                    *)
AnswerWithoutRoute(d, p) ==
  /\ Running(d) /\ driver[d].calls.accept[p] > 0
  /\ TRUE \in RoutingOutcomes
  /\ driver' = [driver EXCEPT ![d].calls.accept[p] = @ - 1, ![d].route = p]
  /\ setRideAccept(d, driver[d].riderID, "accepted")
  /\ setRouteRequest(d, "accepted")
  /\ UNCHANGED <<DriverRoutes, DriverLocations, requestObservers, acceptObservers, asked>>

(* The detour for rider p is there.  The answer goes to the rider of the   *)
(* last snapshot heard, whoever the detour is for.                         *)
AcceptRouteReady(d, p) ==
  /\ Running(d) /\ driver[d].calls.accept[p] > 0
  /\ TRUE \in RoutingOutcomes
  /\ driver' = [driver EXCEPT ![d].calls.accept[p] = @ - 1, ![d].route = p]
  /\ setRideAccept(d, driver[d].riderID, "accepted")
  /\ setRouteRequest(d, "accepted")
  /\ setRoute(d, p)
  /\ UNCHANGED <<DriverLocations, requestObservers, acceptObservers, asked>>

AcceptRouteFails(d, p) ==
  /\ Running(d) /\ driver[d].calls.accept[p] > 0
  /\ FALSE \in RoutingOutcomes
  /\ driver' = [driver EXCEPT ![d].calls.accept[p] = @ - 1]
  /\ UNCHANGED dbVars

-----------------------------------------------------------------------------
(* Snapshots of RouteRequests/<driver>. *)

dropRequestEvent(d) ==
  /\ requestEvents' = [requestEvents EXCEPT ![d] = Tail(@)]
  /\ UNCHANGED <<RouteRequests, RideAccepts, DriverLocations, requestObservers,
                 acceptObservers, acceptEvents, asked>>

(* Mutant: a request is prepared though another one is being prepared.     *)
HearEveryRequest(d, node) ==
  /\ node.status = "requested"
  /\ driver' = [driver EXCEPT ![d].riderID = node.rider,
                              ![d].request = NewCarpoolRequest(node),
                              ![d].calls.details[node.rider] = @ + 1]
  /\ UNCHANGED DriverRoutes
  /\ dropRequestEvent(d)

HearRequested(d, node) ==
  /\ node.status = "requested" /\ driver[d].request.status # "requested"
  /\ driver' = [driver EXCEPT ![d].riderID = node.rider,
                              ![d].request = NewCarpoolRequest(node),
                              ![d].calls.details[node.rider] = @ + 1]
  /\ UNCHANGED DriverRoutes
  /\ dropRequestEvent(d)

HearAcceptedOrConfirmed(d, node) ==
  /\ node.status \in {"accepted", "confirmed"} /\ driver[d].request.status # node.status
  /\ driver' = [driver EXCEPT ![d].riderID = node.rider, ![d].request.status = node.status]
  /\ UNCHANGED DriverRoutes
  /\ dropRequestEvent(d)

HearRiderCancelled(d, node) ==
  /\ node.status = "riderCancelled" /\ driver[d].request.status # "riderCancelled"
  /\ driver' = [driver EXCEPT ![d].riderID = node.rider,
                              ![d].request = NewCarpoolRequest(node),
                              ![d].route = NavigatedAfterReset(d),
                              ![d].badge = "notice",
                              ![d].alert = Dismissed(@)]
  /\ DriverRoutes' = PublishedAfterReset(d)
  /\ dropRequestEvent(d)

HearCancelled(d, node) ==
  /\ node.status = "cancelled" /\ driver[d].request.status # "cancelled"
  /\ driver' = [driver EXCEPT ![d].riderID = node.rider, ![d].badge = "notice",
                              ![d].alert = Dismissed(@)]
  /\ UNCHANGED DriverRoutes
  /\ dropRequestEvent(d)

(* Mutant: every snapshot replaces the current request.                    *)
HearAndReplace(d, node) ==
  /\ node.status \in {"deleted", driver[d].request.status}
  /\ driver' = [driver EXCEPT ![d].riderID = node.rider, ![d].request.rider = node.rider]
  /\ UNCHANGED DriverRoutes
  /\ dropRequestEvent(d)

HearNothingNew(d, node) ==
  /\ node.status \in {"deleted", driver[d].request.status}
  /\ driver' = [driver EXCEPT ![d].riderID = node.rider]
  /\ UNCHANGED DriverRoutes
  /\ dropRequestEvent(d)

RequestEvent(d) ==
  /\ Running(d) /\ requestEvents[d] # <<>>
  /\ LET node == Head(requestEvents[d]) IN
     \/ FailsForcedCast(node) /\ DriverCrashes(d)
     \/ /\ ~FailsForcedCast(node)
        /\ \/ HearRequested(d, node)
           \/ HearAcceptedOrConfirmed(d, node)
           \/ HearRiderCancelled(d, node)
           \/ HearCancelled(d, node)
           \/ HearNothingNew(d, node)

-----------------------------------------------------------------------------
(* The chain of calls that prepares the request alert. *)

(* "complete": the details of rider r; "incomplete": no details, or none   *)
(* with a photo, which the alert unwraps; "error": the chain ends.         *)
DetailsFetched(d, r, outcome) ==
  /\ Running(d) /\ driver[d].calls.details[r] > 0
  /\ IF outcome = "error"
     THEN driver' = [driver EXCEPT ![d].calls.details[r] = @ - 1]
     ELSE driver' = [driver EXCEPT
            ![d].calls.details[r] = @ - 1,
            ![d].calls.time = @ + 1,
            ![d].request.details = IF outcome = "complete" THEN r ELSE NoRider]
  /\ UNCHANGED dbVars

(* Mutants: the call answers once more than it was made; the chain ends    *)
(* with the time.                                                          *)
TimeFetchedAgain(d, found) ==
  /\ Running(d) /\ driver[d].request.details # NoRider
  /\ driver' = [driver EXCEPT ![d].calls.time = @ - 1, ![d].request.time = found]
  /\ UNCHANGED dbVars

TimeFetchedOnly(d, found) ==
  /\ Running(d) /\ driver[d].calls.time > 0
  /\ driver' = [driver EXCEPT ![d].calls.time = @ - 1, ![d].request.time = found]
  /\ UNCHANGED dbVars

(* A failed call stores nil and the chain goes on. *)
TimeFetched(d, found) ==
  /\ Running(d) /\ driver[d].calls.time > 0
  /\ driver' = [driver EXCEPT ![d].calls.time = @ - 1,
                              ![d].calls.distance = @ + 1,
                              ![d].request.time = found]
  /\ UNCHANGED dbVars

(* showCarpoolRequest, of the request as it is now.  Nothing is presented  *)
(* above a navigation that left the screen, nor above another alert.       *)
DistanceFetched(d, found) ==
  LET request == driver[d].request
      complete == found /\ request.time /\ request.details # NoRider IN
  /\ Running(d) /\ driver[d].calls.distance > 0
  /\ \/ ~complete /\ DriverCrashes(d)
     \/ /\ complete
        /\ driver' = [driver EXCEPT
             ![d].calls.distance = @ - 1,
             ![d].alert = CASE ~driver[d].navigating -> @
                            [] driver[d].navigating /\ @ = NoAlert ->
                                 [state |-> "shown", names |-> request.details]
                            [] OTHER -> [@ EXCEPT !.state = "orphaned"]]
        /\ UNCHANGED dbVars

-----------------------------------------------------------------------------
(* The life of the process. *)

QuitDriverApp(d) == "quit" \in DriverLifecycle /\ Running(d) /\ EndDriverApp(d, "quit")

LaunchDriverApp(d) ==
  /\ "launch" \in DriverLifecycle /\ ~Running(d)
  /\ driver' = [driver EXCEPT ![d].app = "running"]
  /\ UNCHANGED dbVars

DriverCallbacks(d) ==
  \/ RequestEvent(d)
  \/ \E r \in Riders, outcome \in DetailsOutcomes : DetailsFetched(d, r, outcome)
  \/ \E found \in RoutingOutcomes : TimeFetched(d, found)
  \/ \E found \in RoutingOutcomes : DistanceFetched(d, found)
  \/ \E p \in Riders : AcceptRouteReady(d, p) \/ AcceptRouteFails(d, p)

DriverStep(d) ==
  \/ StartCarpool(d)
  \/ DismissNavigation(d)
  \/ \E lastMinute \in BOOLEAN : NavigationProgress(d, lastMinute)
  \/ ArriveAtPickUp(d)
  \/ TapReject(d)
  \/ TapCancelOnBadge(d)
  \/ TapAccept(d)
  \/ DriverCallbacks(d)
  \/ QuitDriverApp(d)
  \/ LaunchDriverApp(d)
-----------------------------------------------------------------------------
(***************************************************************************)
(* The riders, as a driver's app sees them: any rider may write what       *)
(* RiderDataManager writes, whenever it likes.  Only the length of the     *)
(* queue and the number of chains in flight bound them.                    *)
(***************************************************************************)
RiderMayWrite(d) ==
  /\ HasRoom(d)
  /\ \A r \in Riders : driver[d].calls.details[r] \prec MaxCalls
  /\ driver[d].calls.time \prec MaxCalls /\ driver[d].calls.distance \prec MaxCalls

AnyRiderRequests(r, d) ==
  /\ RiderMayWrite(d)
  /\ requestCarpool(r, d)
  /\ UNCHANGED <<driver, RideAccepts, DriverRoutes, DriverLocations, requestObservers,
                 acceptObservers, acceptEvents>>

AnyRiderWritesRequest(d) ==
  /\ RiderMayWrite(d)
  /\ \/ cancelRouteRequest(d)
     \/ removeRouteRequest(d)
     \/ /\ RouteRequests[d].rider # NoRider
        /\ \E s \in OtherStatuses : setRouteRequest(d, s)
  /\ UNCHANGED <<driver, RideAccepts, DriverRoutes, DriverLocations, requestObservers,
                 acceptObservers, acceptEvents, asked>>

AnyRiderRemovesAnswer(r, d) ==
  /\ removeRideAccept(r, d)
  /\ UNCHANGED <<driver, RouteRequests, DriverRoutes, DriverLocations, requestObservers,
                 requestEvents, acceptObservers, acceptEvents, asked>>

RiderSide(d) ==
  \/ AnyRiderWritesRequest(d)
  \/ \E r \in Riders : AnyRiderRequests(r, d) \/ AnyRiderRemovesAnswer(r, d)

DriverNext == \E d \in Drivers : DriverStep(d) \/ RiderSide(d)

DriverSpec == DriverInit /\ [][DriverNext]_driverVars

-----------------------------------------------------------------------------
(***************************************************************************)
(* Fairness: a call to the details store or to the routing service is      *)
(* always answered, and the main queue serves every callback it holds.     *)
(* Users and riders need do nothing.                                       *)
(***************************************************************************)
CallbackFairness(d) ==
  /\ WF_driverVars(RequestEvent(d))
  /\ \A r \in Riders :
       /\ WF_driverVars(\E outcome \in DetailsOutcomes : DetailsFetched(d, r, outcome))
       /\ WF_driverVars(AcceptRouteReady(d, r) \/ AcceptRouteFails(d, r))
  /\ WF_driverVars(\E found \in RoutingOutcomes : TimeFetched(d, found))
  /\ WF_driverVars(\E found \in RoutingOutcomes : DistanceFetched(d, found))

DriverFairSpec == DriverSpec /\ \A d \in Drivers : CallbackFairness(d)

-----------------------------------------------------------------------------
(* Properties. *)

(* The nodes, the queues and the memory of each driver's app have their    *)
(* types.                                                                  *)
DriverTypeOK == DatabaseTypeOK /\ driver \in [Drivers -> DriverMemory]

(* An answer, and a detour on the route a driver follows or publishes,     *)
(* belong to a rider who asked that very driver: nothing rejectCarpool-    *)
(* Request, acceptCarpoolRequest or a late routing call does, with riders  *)
(* overwriting each other's requests, serves anyone else.                  *)
OnlyAskersAreServed ==
  /\ \A r \in Riders : RideAccepts[r] # NoAnswer => <<r, RideAccepts[r].driver>> \in asked
  /\ \A d \in Drivers : {driver[d].route, DriverRoutes[d]} \cap Riders
                           \subseteq {r \in Riders : <<r, d>> \in asked}

(* While a driver navigates, the route at DriverRoutes/<driver> is the one *)
(* it follows, through every detour, reset and late answer of the routing  *)
(* service: setRoute goes with every change of the navigation's route.     *)
PublishedRouteIsDriven ==
  \A d \in Drivers : driver[d].navigating => DriverRoutes[d] = driver[d].route

(* A driver with a position at DriverLocations has a route at DriverRoutes:*)
(* removeRoute takes both, and no progress is reported after it.           *)
LocatedDriverHasRoute == \A d \in DriverLocations : DriverRoutes[d] # NoRoute

(* When a driver leaves a navigation, no position of it stays on the       *)
(* riders' maps, however the calls in flight end later.  An app that is    *)
(* launched again after a crash finds the old one: this is stated of the   *)
(* first life of the app, DriverLifecycle without "launch".                *)
NoPositionAfterNavigation ==
  \A d \in DriverLocations : Running(d) => driver[d].navigating

(* A request whose details are being fetched comes up as an alert, unless  *)
(* the driver leaves the navigation or the app ends.                       *)
RequestReachesTheScreen ==
  \A d \in Drivers, r \in Riders :
    driver[d].calls.details[r] > 0
      ~> driver[d].alert # NoAlert \/ ~driver[d].navigating \/ ~Running(d)

(* A tap on Accept leads to an answer: the detour arrives and some rider   *)
(* is told `accepted'.                                                     *)
AcceptLeadsToAnAnswer ==
  \A d \in Drivers, r \in Riders :
    driver[d].calls.accept[r] > 0
      ~> \/ ~Running(d)
         \/ \E s \in Riders : RideAccepts[s] = [driver |-> d, status |-> "accepted"]
=============================================================================
