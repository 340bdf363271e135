---------------------------- MODULE RiderClient ----------------------------
(***************************************************************************)
(* The rider's app: CarpoolSearchManager, the search of RiderViewController*)
(* and the observers of RiderDataManager, from the search for a driver to  *)
(* the end of the ride.                                                    *)
(*                                                                         *)
(* As in the driver's app, handlers run one at a time on the main queue,   *)
(* and the answer of a call arrives at any later time.  While the progress *)
(* indicator is up it takes every touch but those on alerts and badges.    *)
(***************************************************************************)
EXTENDS CarpoolDatabase

CONSTANTS
  SearchDetails,    \* what getUserDetails may return: see SearchDetailsFetched
  SearchOutcomes,   \* whether a call of the search may succeed or fail
  PlanOutcomes,     \* whether a driver may have a preplanned carpool
  WriteOutcomes,    \* whether the database may grant or deny a write
  PushStatuses,     \* the answers the cloud function pushes to the rider
  OtherAnswers,     \* the answers a driver's app on another platform writes
  RiderLifecycle,   \* may the app be quit, and launched again after its end?
  MaxRequests,      \* bound: requests sent in one life of the app
  MaxWrites         \* bound: equal writes waiting for their completion, when
                    \* the rider taps or something new arrives

ASSUME RiderOutcomeAssumption ==
  /\ SearchDetails \subseteq {"complete", "noPhoto", "noUser", "error"}
  /\ SearchOutcomes \subseteq BOOLEAN /\ PlanOutcomes \subseteq BOOLEAN
  /\ WriteOutcomes \subseteq BOOLEAN
  /\ PushStatuses \subseteq {"accepted", "rejected", "arrived"}
  /\ OtherAnswers \subseteq {"confirmed", "arrived"}
  /\ RiderLifecycle \subseteq {"quit", "launch"}
  /\ MaxRequests \in Bounds /\ MaxWrites \in Bounds

VARIABLES
  rider,   \* [Riders -> RiderMemory]
  pushes   \* [Riders -> SUBSET PushStatuses]: notifications under way

riderVars == <<rider, pushes, dbVars>>

(***************************************************************************)
(* The volatile memory of the app.                                         *)
(*   hud          the progress indicator is up                             *)
(*   search       the call of the search that is in flight                 *)
(*   result       currentCarpoolSearchResult; its pick-up and drop-off are *)
(*                set and cleared with the driver's details, and its       *)
(*                destination is set or not                                *)
(*   status       activeCarpoolAcceptStatus                                *)
(*   didShow      didShowCarpoolPickUpAlert                                *)
(*   page         the bulletin on screen; the manager no longer refers to  *)
(*                an orphaned one                                          *)
(*   hasBulletin  bulletinManager is set                                   *)
(*   badge        the badge on screen; "cancel" has the cancel button      *)
(*   writes       first writes of a cancellation or a clearance waiting    *)
(*                for their completion, by driver and outcome              *)
(*   mapRoutes, mapLocations   the drivers on the rider's map              *)
(***************************************************************************)
SearchStages == {"idle", "details", "plan", "route", "walk", "distance"}
Search  == [stage : SearchStages, driver : OptionalDriver, usable : BOOLEAN]
NoSearch == [stage |-> "idle", driver |-> NoDriver, usable |-> FALSE]

S1CCarpoolSearchResult ==
  [driver : OptionalDriver, destination : BOOLEAN, usable : BOOLEAN,
   riderTime : BOOLEAN, driverTime : BOOLEAN, distance : BOOLEAN]
NoResult ==
  [driver |-> NoDriver, destination |-> FALSE, usable |-> FALSE,
   riderTime |-> FALSE, driverTime |-> FALSE, distance |-> FALSE]

filled(result) ==
  /\ result.driver # NoDriver /\ result.usable
  /\ result.riderTime /\ result.driverTime

Page   == [kind : {"none", "suggestion", "rejected", "proximity"}, orphaned : BOOLEAN]
NoPage == [kind |-> "none", orphaned |-> FALSE]

RiderMemory ==
  [app : {"running", "quit", "crashed"}, hud : BOOLEAN, search : Search,
   result : S1CCarpoolSearchResult, status : CarpoolAcceptStatus \union {NoStatus},
   didShow : BOOLEAN, page : Page, hasBulletin : BOOLEAN,
   badge : {"none", "cancel", "notice"}, writes : [Drivers \X BOOLEAN -> Nat],
   mapRoutes : SUBSET Drivers, mapLocations : SUBSET Drivers]

FreshRider(app) ==
  [app |-> app, hud |-> FALSE, search |-> NoSearch, result |-> NoResult,
   status |-> NoStatus, didShow |-> FALSE, page |-> NoPage, hasBulletin |-> FALSE,
   badge |-> "none", writes |-> [w \in Drivers \X BOOLEAN |-> 0],
   mapRoutes |-> {}, mapLocations |-> {}]

RiderInit ==
  /\ DatabaseInit
  /\ rider = [r \in Riders |-> FreshRider("running")]
  /\ pushes = [r \in Riders |-> {}]

RiderRuns(r) == rider[r].app = "running"

EndRiderApp(r, how) ==
  /\ rider' = [rider EXCEPT ![r] = FreshRider(how)]
  /\ dropAcceptObservers(r)
  /\ UNCHANGED <<pushes, RouteRequests, RideAccepts, DriverRoutes, DriverLocations,
                 requestObservers, requestEvents, asked>>

RiderCrashes(r) == EndRiderApp(r, "crashed")

(* A step that changes nothing but the app's own memory. *)
OnlyMemory(r, memory) ==
  /\ rider' = [rider EXCEPT ![r] = memory]
  /\ UNCHANGED <<pushes, dbVars>>

(* showBulletin of a new manager: nothing is presented above another page, *)
(* and the manager of that page is forgotten.                              *)
Present(page, kind) ==
  IF page = NoPage THEN [kind |-> kind, orphaned |-> FALSE]
                   ELSE [page EXCEPT !.orphaned = TRUE]

(* push on the page the manager shows, or showBulletin when it shows none. *)
PushOrPresent(page, kind) ==
  IF page.orphaned THEN page ELSE [kind |-> kind, orphaned |-> FALSE]

DismissedPage(page) == IF page.orphaned THEN page ELSE NoPage

-----------------------------------------------------------------------------
(* The rider's map. *)

(* Drawing the route of the result's driver unwraps the destination, which *)
(* a clean-up in the middle of a search has taken.                         *)
CannotDraw(r, published) ==
  rider[r].result.driver \in published /\ ~rider[r].result.destination

(* A change of DriverRoutes.  The memory keeps the drivers and not their   *)
(* courses, and a new course is an event too: drawing may end the app at   *)
(* any time at which it cannot be done.                                    *)
MapRoutesEvent(r) ==
  LET published == {d \in Drivers : DriverRoutes[d] # NoRoute} IN
  /\ RiderRuns(r)
  /\ \/ CannotDraw(r, published) /\ RiderCrashes(r)
     \/ /\ ~CannotDraw(r, published) /\ rider[r].mapRoutes # published
        /\ OnlyMemory(r, [rider[r] EXCEPT !.mapRoutes = published])

(* What showProximityAlert unwraps. *)
CanShowProximityAlert(m) ==
  m.result.distance /\ m.result.driver # NoDriver /\ m.result.usable /\ m.hasBulletin

(* Mutant: the badge goes before the alert is there.                       *)
WithoutBadge(m) == [m EXCEPT !.badge = "none"]

WithProximityAlert(m) ==
  [m EXCEPT !.badge = "none", !.page = PushOrPresent(@, "proximity")]

(* A change of DriverLocations.  The first time the accepting driver is    *)
(* near, the pick-up alert comes up.                                       *)
MapLocationsEvent(r, near) ==
  LET m == [rider[r] EXCEPT !.mapLocations = DriverLocations]
      meets == /\ near /\ ~m.didShow /\ m.status = "accepted" /\ filled(m.result)
               /\ m.result.driver \in DriverLocations IN
  /\ RiderRuns(r)
  /\ \/ ~meets /\ OnlyMemory(r, m)
     \/ meets /\ ~CanShowProximityAlert(m) /\ RiderCrashes(r)
     \/ /\ meets /\ CanShowProximityAlert(m)
        /\ OnlyMemory(r, WithProximityAlert([m EXCEPT !.didShow = TRUE]))

-----------------------------------------------------------------------------
(* The search. *)

(* findCarpool, with the early return that leaves the indicator up.  The   *)
(* driver is any one on the map in range of the rider.  Bound: one search  *)
(* at a time, which the indicator ensures but after a cancelled pick-up.   *)
FindCarpool(r) ==
  LET m == [rider[r] EXCEPT !.hud = TRUE, !.result.destination = TRUE] IN
  /\ RiderRuns(r) /\ ~rider[r].hud /\ rider[r].page = NoPage
  /\ Len(acceptObservers[r]) \prec MaxRequests /\ rider[r].search = NoSearch
  /\ \/ m.status \notin {NoStatus, "rejected"} /\ OnlyMemory(r, m)
     \/ /\ m.status \in {NoStatus, "rejected"}
        /\ OnlyMemory(r, [m EXCEPT !.hud = FALSE])
     \/ /\ m.status = NoStatus
        /\ \E d \in m.mapRoutes : OnlyMemory(r,
             [m EXCEPT !.search = [stage |-> "details", driver |-> d, usable |-> FALSE]])

Searching(r, stage) == RiderRuns(r) /\ rider[r].search.stage = stage

(* "noPhoto" calls back twice, first with an error that is dropped, then   *)
(* with the details; "noUser" calls back with nil details, which the next  *)
(* step unwraps; "error" drops the search with the indicator up.           *)
SearchDetailsFetched(r, outcome) ==
  /\ Searching(r, "details")
  /\ OnlyMemory(r, CASE outcome = "error" -> [rider[r] EXCEPT !.search = NoSearch]
                     [] outcome = "noUser" ->
                          [rider[r] EXCEPT !.search.stage = "plan",
                                           !.search.driver = NoDriver]
                     [] OTHER ->
                          [rider[r] EXCEPT !.search.stage = "plan",
                                           !.search.usable = outcome = "complete"])

(* Mutant: the driver of an earlier result stays.                          *)
PlanFetchedForOldResult(r, planned) ==
  /\ Searching(r, "plan")
  /\ OnlyMemory(r, [rider[r] EXCEPT
       !.result.driver = IF @ = NoDriver THEN rider[r].search.driver ELSE @,
       !.result.usable = rider[r].search.usable,
       !.search.stage = "route"])

(* A driver with a preplanned carpool is suggested at once.  For another   *)
(* one the search goes on from its last location, which is unwrapped.      *)
PlanFetched(r, planned) ==
  LET search == rider[r].search
      known == [rider[r] EXCEPT !.result.driver = search.driver,
                                !.result.usable = search.usable] IN
  /\ Searching(r, "plan")
  /\ \/ /\ planned /\ search.usable
        /\ OnlyMemory(r, [known EXCEPT !.search = NoSearch,
                                       !.result.distance = TRUE,
                                       !.result.riderTime = TRUE,
                                       !.page = Present(@, "suggestion"),
                                       !.hasBulletin = TRUE])
     \/ /\ ~planned /\ search.driver \in rider[r].mapLocations
        /\ OnlyMemory(r, [known EXCEPT !.search.stage = "route"])
     \/ /\ IF planned THEN ~search.usable
                      ELSE search.driver \notin rider[r].mapLocations
        /\ RiderCrashes(r)

(* A failed call shows the error, and takes the indicator down. *)
SearchFails(r) == OnlyMemory(r, [rider[r] EXCEPT !.hud = FALSE, !.search = NoSearch])

DriverRouteFetched(r, found) ==
  /\ Searching(r, "route")
  /\ IF found
     THEN OnlyMemory(r, [rider[r] EXCEPT !.result.driverTime = TRUE,
                                         !.search.stage = "walk"])
     ELSE SearchFails(r)

(* The next call unwraps the drop-off, which a clean-up may have taken.    *)
WalkingRouteFetched(r, found) ==
  /\ Searching(r, "walk")
  /\ \/ ~found /\ SearchFails(r)
     \/ found /\ rider[r].result.driver = NoDriver /\ RiderCrashes(r)
     \/ /\ found /\ rider[r].result.driver # NoDriver
        /\ OnlyMemory(r, [rider[r] EXCEPT !.result.riderTime = TRUE,
                                          !.search.stage = "distance"])

(* The error of the last call is not looked at; a result that is not       *)
(* filled is dropped with the indicator up.                                *)
RideDistanceFetched(r, found) ==
  LET m == [rider[r] EXCEPT !.search = NoSearch, !.result.distance = @ \/ found] IN
  /\ Searching(r, "distance")
  /\ \/ ~filled(m.result) /\ OnlyMemory(r, m)
     \/ filled(m.result) /\ ~m.result.distance /\ RiderCrashes(r)
     \/ /\ filled(m.result) /\ m.result.distance
        /\ OnlyMemory(r, [m EXCEPT !.page = Present(@, "suggestion"),
                                   !.hasBulletin = TRUE])

-----------------------------------------------------------------------------
(* Answers of the user. *)

(* The waiting page comes and goes with the suggestion's bulletin. *)
TapSend(r) ==
  LET d == rider[r].result.driver IN
  /\ RiderRuns(r) /\ rider[r].page.kind = "suggestion"
  /\ Len(acceptObservers[r]) \prec MaxRequests
  /\ \/ d = NoDriver /\ RiderCrashes(r)
     \/ /\ d # NoDriver /\ HasRoom(d)
        /\ rider' = [rider EXCEPT ![r].hud = FALSE, ![r].page = DismissedPage(@)]
        /\ requestCarpool(r, d)
        /\ startObservingRideAcceptForMyRiderID(r, d)
        /\ UNCHANGED <<pushes, RideAccepts, DriverRoutes, DriverLocations,
                       requestObservers>>

(* Mutant: the second write does not wait for the first.                   *)
CancelBothNodes(r, m) ==
  LET d == rider[r].result.driver IN
  \/ rider[r].status \in {NoStatus, "rejected"} /\ OnlyMemory(r, m)
  \/ /\ rider[r].status \notin {NoStatus, "rejected"} /\ d # NoDriver /\ HasRoom(d)
     /\ rider' = [rider EXCEPT ![r] = m]
     /\ cancelRouteRequest(d) /\ removeRideAccept(r, d)
     /\ UNCHANGED <<pushes, DriverRoutes, DriverLocations,
                    requestObservers, acceptObservers, asked>>

(* cancelCarpool, in a handler that leaves the memory m.  Without an       *)
(* active answer it returns at once.                                       *)
CancelCarpool(r, m) ==
  LET d == rider[r].result.driver IN
  \/ rider[r].status \in {NoStatus, "rejected"} /\ OnlyMemory(r, m)
  \/ /\ rider[r].status \notin {NoStatus, "rejected"} /\ d = NoDriver
     /\ RiderCrashes(r)
  \/ /\ rider[r].status \notin {NoStatus, "rejected"} /\ d # NoDriver /\ HasRoom(d)
     /\ \E granted \in WriteOutcomes :
          /\ rider[r].writes[<<d, granted>>] \prec MaxWrites
          /\ rider' = [rider EXCEPT ![r] = [m EXCEPT !.writes[<<d, granted>>] = @ + 1]]
          /\ IF granted THEN cancelRouteRequest(d)
                        ELSE UNCHANGED <<RouteRequests, requestEvents>>
     /\ UNCHANGED <<pushes, RideAccepts, DriverRoutes, DriverLocations,
                    requestObservers, acceptObservers, acceptEvents, asked>>

TapCancelSuggestion(r) ==
  /\ RiderRuns(r) /\ rider[r].page.kind = "suggestion"
  /\ CancelCarpool(r, [rider[r] EXCEPT !.page = DismissedPage(@), !.hud = FALSE])

TapCancelRide(r) ==
  /\ RiderRuns(r) /\ rider[r].badge = "cancel"
  /\ CancelCarpool(r, [rider[r] EXCEPT !.badge = "none"])

TapConfirmProximity(r) ==
  /\ RiderRuns(r) /\ rider[r].page.kind = "proximity"
  /\ OnlyMemory(r, [rider[r] EXCEPT !.page = DismissedPage(@), !.badge = "notice"])

TapCancelProximity(r) ==
  /\ RiderRuns(r) /\ rider[r].page.kind = "proximity"
  /\ CancelCarpool(r, [rider[r] EXCEPT !.page = DismissedPage(@), !.hud = FALSE])

(* The page of a rejection has no button; a swipe takes it away.           *)
DismissRejection(r) ==
  /\ RiderRuns(r) /\ rider[r].page.kind = "rejected"
  /\ OnlyMemory(r, [rider[r] EXCEPT !.page = NoPage])

-----------------------------------------------------------------------------
(* Answers of the driver: processStatus, fed by the observers and by       *)
(* notifications.  The event queue of the rider is `rest' afterwards.      *)

UnchangedButAnswers ==
  UNCHANGED <<pushes, RideAccepts, DriverRoutes, DriverLocations, requestObservers,
              acceptObservers, asked>>

(* What remains of a step that processes an answer and ends in memory m.   *)
Processed(r, m, rest) ==
  /\ rider' = [rider EXCEPT ![r] = m]
  /\ acceptEvents' = [acceptEvents EXCEPT ![r] = rest]
  /\ UnchangedButAnswers

ProcessAccepted(r, rest) ==
  /\ rider[r].status # "accepted"
  /\ Processed(r, [rider[r] EXCEPT !.status = "accepted", !.badge = "cancel",
                                   !.page = DismissedPage(@)], rest)
  /\ UNCHANGED <<RouteRequests, requestEvents>>

(* Mutant: nothing is cleaned up when there is no request to clear.        *)
ProcessRejectedOnly(r, rest) ==
  /\ rider[r].status # "rejected"
  /\ Processed(r, [rider[r] EXCEPT !.status = "rejected", !.badge = "none"], rest)
  /\ UNCHANGED <<RouteRequests, requestEvents>>

(* The request that is cleared is the one at the driver of the result.     *)
ProcessRejected(r, rest) ==
  LET d == rider[r].result.driver
      shown == [rider[r] EXCEPT !.status = "rejected", !.badge = "none",
                                !.page = PushOrPresent(@, "rejected")] IN
  /\ rider[r].status # "rejected"
  /\ \/ ~rider[r].hasBulletin /\ RiderCrashes(r)
     \/ /\ rider[r].hasBulletin /\ d = NoDriver
        /\ Processed(r, [shown EXCEPT !.status = NoStatus, !.didShow = FALSE,
                                      !.result = NoResult], rest)
        /\ UNCHANGED <<RouteRequests, requestEvents>>
     \/ /\ rider[r].hasBulletin /\ d # NoDriver
        /\ \E granted \in WriteOutcomes :
             /\ Processed(r, [shown EXCEPT !.writes[<<d, granted>>] = @ + 1], rest)
             /\ IF granted THEN removeRouteRequest(d)
                           ELSE UNCHANGED <<RouteRequests, requestEvents>>

ProcessConfirmed(r, rest) ==
  LET m == [rider[r] EXCEPT !.status = "confirmed"] IN
  /\ rider[r].status # "confirmed"
  /\ \/ ~CanShowProximityAlert(m) /\ RiderCrashes(r)
     \/ /\ CanShowProximityAlert(m)
        /\ Processed(r, WithProximityAlert(m), rest)
        /\ UNCHANGED <<RouteRequests, requestEvents>>

ProcessArrived(r, rest) ==
  /\ rider[r].status # "arrived"
  /\ Processed(r, [rider[r] EXCEPT !.status = "arrived", !.badge = "notice"], rest)
  /\ UNCHANGED <<RouteRequests, requestEvents>>

ProcessKnown(r, s, rest) ==
  /\ rider[r].status = s
  /\ Processed(r, rider[r], rest)
  /\ UNCHANGED <<RouteRequests, requestEvents>>

ProcessStatus(r, s, rest) ==
  \/ s = "accepted" /\ ProcessAccepted(r, rest)
  \/ s = "rejected" /\ ProcessRejected(r, rest)
  \/ s = "confirmed" /\ ProcessConfirmed(r, rest)
  \/ s = "arrived" /\ ProcessArrived(r, rest)
  \/ ProcessKnown(r, s, rest)

(* A registration looks for the key of the driver it captured.             *)
AcceptEvent(r) ==
  /\ RiderRuns(r) /\ acceptEvents[r] # <<>> /\ Head(acceptEvents[r]).answer # NoAnswer
  /\ LET event == Head(acceptEvents[r]) IN
     \/ event.answer.driver # event.captured /\ RiderCrashes(r)
     \/ /\ event.answer.driver = event.captured
        /\ ProcessStatus(r, event.answer.status, Tail(acceptEvents[r]))

(* Bounds: something new arrives while little waits to be handled.         *)
WritesAreFew(r) == \A w \in Drivers \X BOOLEAN : rider[r].writes[w] \prec MaxWrites

(* A notification names no driver; it may come late, again, or never.      *)
PushReceived(r, s) ==
  /\ RiderRuns(r) /\ s \in pushes[r]
  /\ WritesAreFew(r) /\ Len(acceptEvents[r]) \prec MaxEvents
  /\ ProcessStatus(r, s, acceptEvents[r])

(* cleanup.                                                                *)
CleanedUp(m) ==
  [m EXCEPT !.status = NoStatus, !.didShow = FALSE, !.result = NoResult]

UnchangedByCompletion ==
  UNCHANGED <<pushes, RouteRequests, DriverRoutes, DriverLocations, requestObservers,
              requestEvents, acceptObservers, asked>>

(* The second write of a cancellation or clearance, made once the first is *)
(* granted.                                                                *)
SecondWrite(r, d) ==
  \E granted \in WriteOutcomes :
    IF granted THEN removeRideAccept(r, d) ELSE removeRideAcceptDenied(r, d)

(* Mutant: the completion is called once more after a denied first write.  *)
CompletesTwice(r, d, granted) ==
  LET calls == IF granted THEN 1 ELSE 2 IN
  /\ RiderRuns(r) /\ rider[r].writes[<<d, granted>>] > 0
  /\ rider' = [rider EXCEPT ![r] =
       CleanedUp([rider[r] EXCEPT !.writes[<<d, granted>>] = @ - calls])]
  /\ IF granted THEN SecondWrite(r, d) ELSE UNCHANGED <<RideAccepts, acceptEvents>>
  /\ UnchangedByCompletion

(* The first write of cancelCarpool or clearCarpoolData is complete: the   *)
(* removal of the answer of that driver is written, unless the write was   *)
(* denied, and the manager is cleaned up without waiting for it.           *)
WriteCompletes(r, d, granted) ==
  /\ RiderRuns(r) /\ rider[r].writes[<<d, granted>>] > 0
  /\ rider' = [rider EXCEPT ![r] =
       CleanedUp([rider[r] EXCEPT !.writes[<<d, granted>>] = @ - 1])]
  /\ IF granted THEN SecondWrite(r, d) ELSE UNCHANGED <<RideAccepts, acceptEvents>>
  /\ UnchangedByCompletion

(* Mutant: the completion is called once for the two writes.               *)
DenialIsIgnored(r) ==
  /\ RiderRuns(r) /\ acceptEvents[r] # <<>> /\ Head(acceptEvents[r]).answer = NoAnswer
  /\ acceptEvents' = [acceptEvents EXCEPT ![r] = Tail(@)]
  /\ UNCHANGED <<rider, RideAccepts>>
  /\ UnchangedByCompletion

(* The removal was denied: the completion is called a second time and      *)
(* cleans up again, whatever the rider has begun since.                    *)
RemovalIsDenied(r) ==
  /\ RiderRuns(r) /\ acceptEvents[r] # <<>> /\ Head(acceptEvents[r]).answer = NoAnswer
  /\ rider' = [rider EXCEPT ![r] = CleanedUp(@)]
  /\ acceptEvents' = [acceptEvents EXCEPT ![r] = Tail(@)]
  /\ UNCHANGED RideAccepts
  /\ UnchangedByCompletion

-----------------------------------------------------------------------------
(* The life of the process, and the cloud function. *)

QuitRiderApp(r) ==
  "quit" \in RiderLifecycle /\ RiderRuns(r) /\ EndRiderApp(r, "quit")

LaunchRiderApp(r) ==
  /\ "launch" \in RiderLifecycle /\ ~RiderRuns(r)
  /\ OnlyMemory(r, [rider[r] EXCEPT !.app = "running"])

SendPush(r) ==
  /\ RideAccepts[r].status \in PushStatuses \ pushes[r]
  /\ pushes' = [pushes EXCEPT ![r] = @ \union {RideAccepts[r].status}]
  /\ UNCHANGED <<rider, dbVars>>

SearchStep(r) ==
  \/ \E outcome \in SearchDetails : SearchDetailsFetched(r, outcome)
  \/ \E planned \in PlanOutcomes : PlanFetched(r, planned)
  \/ \E found \in SearchOutcomes :
       DriverRouteFetched(r, found) \/ WalkingRouteFetched(r, found)
         \/ RideDistanceFetched(r, found)

RiderCompletion(r) ==
  \/ \E d \in Drivers, granted \in BOOLEAN : WriteCompletes(r, d, granted)
  \/ RemovalIsDenied(r)

RiderStep(r) ==
  \/ MapRoutesEvent(r)
  \/ \E near \in BOOLEAN : MapLocationsEvent(r, near)
  \/ FindCarpool(r)
  \/ SearchStep(r)
  \/ TapSend(r)
  \/ TapCancelSuggestion(r)
  \/ TapCancelRide(r)
  \/ TapConfirmProximity(r)
  \/ TapCancelProximity(r)
  \/ DismissRejection(r)
  \/ AcceptEvent(r)
  \/ \E s \in PushStatuses : PushReceived(r, s)
  \/ RiderCompletion(r)
  \/ QuitRiderApp(r)
  \/ LaunchRiderApp(r)
  \/ SendPush(r)
-----------------------------------------------------------------------------
(***************************************************************************)
(* The drivers, as a rider's app sees them: any driver may be under way,   *)
(* and may answer a rider who asked it, whenever it likes.                 *)
(***************************************************************************)
DriverMayWrite(d) ==
  /\ HasRoom(d) /\ \A r \in Riders : WritesAreFew(r)
  /\ UNCHANGED <<rider, pushes, acceptObservers, asked>>

AnyDriverAccepts(r, d) ==
  /\ <<r, d>> \in asked
  /\ DriverMayWrite(d)
  /\ setRideAccept(d, r, "accepted")
  /\ setRouteRequest(d, "accepted")
  /\ \E p \in Riders : setRoute(d, p)
  /\ UNCHANGED <<DriverLocations, requestObservers>>

AnyDriverRejects(r, d) ==
  /\ <<r, d>> \in asked
  /\ DriverMayWrite(d)
  /\ setRideAccept(d, r, "rejected")
  /\ markAndDeleteRouteRequest(d)
  /\ setRoute(d, NoRider)
  /\ UNCHANGED <<DriverLocations, requestObservers>>

AnyDriverAnswersOtherwise(r, d) ==
  /\ <<r, d>> \in asked
  /\ DriverMayWrite(d)
  /\ \E s \in OtherAnswers : setRideAccept(d, r, s)
  /\ UNCHANGED <<RouteRequests, requestEvents, DriverRoutes, DriverLocations,
                 requestObservers>>

AnyDriverDrives(d) ==
  /\ DriverMayWrite(d)
  /\ \/ setRoute(d, NoRider) /\ UNCHANGED DriverLocations
     \/ setCurrentLocation(d) /\ UNCHANGED DriverRoutes
     \/ removeRoute(d)
  /\ UNCHANGED <<RouteRequests, RideAccepts, requestObservers, requestEvents, acceptEvents>>

DriverSide(d) ==
  \/ AnyDriverDrives(d)
  \/ \E r \in Riders : \/ AnyDriverAccepts(r, d)
                       \/ AnyDriverRejects(r, d)
                       \/ AnyDriverAnswersOtherwise(r, d)

RiderNext == (\E r \in Riders : RiderStep(r)) \/ (\E d \in Drivers : DriverSide(d))

RiderSpec == RiderInit /\ [][RiderNext]_riderVars

-----------------------------------------------------------------------------
(***************************************************************************)
(* Fairness: calls are always answered, writes always complete, and the    *)
(* main queue serves every callback it holds.                              *)
(***************************************************************************)
RiderFairness(r) ==
  /\ WF_riderVars(SearchStep(r))
  /\ WF_riderVars(AcceptEvent(r)) /\ WF_riderVars(RemovalIsDenied(r))
  /\ \A d \in Drivers, granted \in BOOLEAN : WF_riderVars(WriteCompletes(r, d, granted))

RiderFairSpec == RiderSpec /\ \A r \in Riders : RiderFairness(r)

-----------------------------------------------------------------------------
(* Properties. *)

(* The nodes, the queues and the memory of each rider's app have their     *)
(* types.                                                                  *)
RiderTypeOK ==
  /\ DatabaseTypeOK
  /\ rider \in [Riders -> RiderMemory]
  /\ pushes \in [Riders -> SUBSET PushStatuses]

(* The calls of a search fill in the result of the driver it is about,     *)
(* though a cancelled or rejected ride may clear the result under it.      *)
SearchFillsItsOwnResult ==
  \A r \in Riders :
    rider[r].search.stage \in {"route", "walk", "distance"}
      => rider[r].result.driver \in {rider[r].search.driver, NoDriver}

(* A rider whose ride was accepted has a control to cancel it by, until it *)
(* has confirmed the pick-up or has cancelled already: badges and pages    *)
(* that replace each other as answers, positions and taps come in never    *)
(* leave it without one.  This is stated of the first request of an app's  *)
(* life, without notifications: a rejection that comes during a second     *)
(* search, or a late notification of one, leaves a page that no manager    *)
(* refers to, and the pick-up alert is then never shown.                   *)
HasCancelControl(r) ==
  rider[r].badge = "cancel" \/ rider[r].page.kind \in {"proximity", "suggestion"}

AcceptedRideCanBeCancelled ==
  \A r \in Riders :
    rider[r].status = "accepted" =>
      \/ HasCancelControl(r)
      \/ rider[r].badge = "notice"
      \/ \E w \in Drivers \X BOOLEAN : rider[r].writes[w] > 0

(* A rejection does not keep the rider from a new search for ever: the     *)
(* status is cleared, whether or not the clearing write is granted and     *)
(* whatever the observers and late notifications say meanwhile.            *)
RejectionEndsTheRide ==
  \A r \in Riders : rider[r].status = "rejected" ~> rider[r].status # "rejected"

(* A cancellation or clearance ends in a clean manager, though the         *)
(* database denies either of its writes, an answer that could not be       *)
(* removed is heard again, and more answers come in meanwhile.             *)
IsClearing(r) ==
  \/ \E w \in Drivers \X BOOLEAN : rider[r].writes[w] > 0
  \/ \E i \in DOMAIN acceptEvents[r] : acceptEvents[r][i].answer = NoAnswer

CancellationEndsTheRide ==
  \A r \in Riders : IsClearing(r) ~> rider[r].status = NoStatus
=============================================================================
