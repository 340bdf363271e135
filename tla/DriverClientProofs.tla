------------------------- MODULE DriverClientProofs -------------------------
(***************************************************************************)
(* Proofs about the driver's app, for any drivers, riders and outcomes,    *)
(* and any riders' side.                                                   *)
(***************************************************************************)
EXTENDS DriverClient, CarpoolDatabaseProofs

-----------------------------------------------------------------------------
(* The memory of the app. *)

(* An app that starts or ends has a typed memory. *)
LEMMA FreshMemoryType ==
  ASSUME NEW app \in {"running", "quit", "crashed"}
  PROVE  FreshMemory(app) \in DriverMemory
<1>1. NoCarpoolRequest \in S1CCarpoolRequest
  BY DEF NoCarpoolRequest, S1CCarpoolRequest, NoStatus, OptionalRider
<1>2. NoAlert \in DriverAlert
  BY DEF NoAlert, DriverAlert, OptionalRider
<1>3. FreshMemory(app).calls \in DriverCalls
  BY DEF FreshMemory, DriverCalls
<1> QED
  BY <1>1, <1>2, <1>3 DEF FreshMemory, DriverMemory, DriverCalls, Routes, OptionalRider

LEMMA EndDriverAppType ==
  ASSUME DriverTypeOK, NEW d \in Drivers, NEW how \in {"quit", "crashed"},
         EndDriverApp(d, how)
  PROVE  DriverTypeOK'
<1>1. driver' \in [Drivers -> DriverMemory]
  BY FreshMemoryType DEF EndDriverApp, DriverTypeOK
<1>2. DatabaseTypeOK'
  BY DEF EndDriverApp, dropRequestObservers, DriverTypeOK, DatabaseTypeOK
<1> QED
  BY <1>1, <1>2 DEF DriverTypeOK

(* What an alert, and the route after a reset, become. *)
LEMMA ResetType ==
  ASSUME DriverTypeOK, NEW d \in Drivers
  PROVE  /\ Dismissed(driver[d].alert) \in DriverAlert
         /\ NavigatedAfterReset(d) \in Routes
         /\ PublishedAfterReset(d) \in [Drivers -> Routes \union {NoRoute}]
<1>1. driver[d].alert \in DriverAlert /\ driver[d].route \in Routes
  BY DEF DriverTypeOK, DriverMemory
<1>2. NoAlert \in DriverAlert /\ NoRider \in Routes
  BY DEF NoAlert, DriverAlert, Routes, OptionalRider
<1> QED
  BY <1>1, <1>2 DEF Dismissed, NavigatedAfterReset, PublishedAfterReset, DriverTypeOK,
     DatabaseTypeOK

-----------------------------------------------------------------------------
(* Navigation keeps the types. *)

LEMMA StartCarpoolType ==
  ASSUME DriverTypeOK, NEW d \in Drivers, StartCarpool(d)
  PROVE  DriverTypeOK'
<1>1. RequestSnapshots(1, RouteRequests[d]) \in Seq(RequestNode)
  BY RequestSnapshotsType DEF DriverTypeOK, DatabaseTypeOK
<1>2. requestEvents[d] \o RequestSnapshots(1, RouteRequests[d]) \in Seq(RequestNode)
  BY <1>1 DEF DriverTypeOK, DatabaseTypeOK
<1>3. [driver[d] EXCEPT !.navigating = TRUE, !.original = TRUE, !.route = NoRider]
        \in DriverMemory
  BY DEF DriverTypeOK, DriverMemory, Routes, OptionalRider
<1>4. driver' \in [Drivers -> DriverMemory]
  BY <1>3 DEF StartCarpool, DriverTypeOK
<1>5. DatabaseTypeOK'
  BY <1>2 DEF StartCarpool, observeCarpoolRequestForMyDriverID, setRoute, DriverTypeOK,
     DatabaseTypeOK, Routes, OptionalRider
<1> QED
  BY <1>4, <1>5 DEF DriverTypeOK

LEMMA DismissNavigationType ==
  ASSUME DriverTypeOK, NEW d \in Drivers, DismissNavigation(d)
  PROVE  DriverTypeOK'
<1>1. [driver[d] EXCEPT !.navigating = FALSE] \in DriverMemory
  BY DEF DriverTypeOK, DriverMemory
<1>2. driver' \in [Drivers -> DriverMemory]
  BY <1>1 DEF DismissNavigation, DriverTypeOK
<1>3. DatabaseTypeOK'
  BY DEF DismissNavigation, removeRoute, DriverTypeOK, DatabaseTypeOK
<1> QED
  BY <1>2, <1>3 DEF DriverTypeOK

LEMMA NavigationProgressType ==
  ASSUME DriverTypeOK, NEW d \in Drivers, NEW lastMinute \in BOOLEAN,
         NavigationProgress(d, lastMinute)
  PROVE  DriverTypeOK'
<1>1. driver[d] \in DriverMemory
  BY DEF DriverTypeOK
<1>2. \E badge \in {"none", driver[d].badge} :
        driver' = [driver EXCEPT ![d].legTime = TRUE, ![d].badge = badge]
  BY DEF NavigationProgress
<1>3. PICK badge \in {"none", driver[d].badge} :
        driver' = [driver EXCEPT ![d].legTime = TRUE, ![d].badge = badge]
  BY <1>2
<1>4. [driver[d] EXCEPT !.legTime = TRUE, !.badge = badge] \in DriverMemory
  BY <1>1, <1>3 DEF DriverMemory
<1>5. driver' \in [Drivers -> DriverMemory]
  BY <1>3, <1>4 DEF DriverTypeOK
<1>6. DatabaseTypeOK'
  BY DEF NavigationProgress, setCurrentLocation, DriverTypeOK, DatabaseTypeOK
<1> QED
  BY <1>5, <1>6 DEF DriverTypeOK

-----------------------------------------------------------------------------
(* The user's answers keep the types. *)

LEMMA RejectType ==
  ASSUME DriverTypeOK, NEW d \in Drivers, rejectCarpoolRequest(d)
  PROVE  DatabaseTypeOK'
<1>1. DriverRoutes' \in [Drivers -> Routes \union {NoRoute}]
  BY ResetType DEF rejectCarpoolRequest
<1>2. /\ RideAccepts' \in [Riders -> Answer \union {NoAnswer}]
      /\ acceptEvents' \in [Riders -> Seq(AcceptEvents)]
      /\ RouteRequests' \in [Drivers -> RequestNode]
      /\ requestEvents' \in [Drivers -> Seq(RequestNode)]
  <2>1. CASE driver[d].riderID = NoRider
    BY <2>1 DEF rejectCarpoolRequest, DriverTypeOK, DatabaseTypeOK
  <2>2. CASE driver[d].riderID # NoRider
    <3>1. /\ setRideAccept(d, driver[d].riderID, "rejected")
          /\ markAndDeleteRouteRequest(d)
      BY <2>2 DEF rejectCarpoolRequest
    <3>2. DatabaseTypeOK /\ "rejected" \in CarpoolAcceptStatus
      BY DEF DriverTypeOK, CarpoolAcceptStatus
    <3> QED
      BY <3>1, <3>2, SetRideAcceptType, MarkAndDeleteType
  <2> QED
    BY <2>1, <2>2
<1> QED
  BY <1>1, <1>2 DEF rejectCarpoolRequest, DriverTypeOK, DatabaseTypeOK

LEMMA TapRejectType ==
  ASSUME DriverTypeOK, NEW d \in Drivers, TapReject(d) \/ TapCancelOnBadge(d)
  PROVE  DriverTypeOK'
<1>1. DatabaseTypeOK'
  BY RejectType DEF TapReject, TapCancelOnBadge
<1>2. [driver[d] EXCEPT !.alert = Dismissed(driver[d].alert), !.route = NavigatedAfterReset(d)]
        \in DriverMemory
  BY ResetType DEF DriverTypeOK, DriverMemory
<1>3. [driver[d] EXCEPT !.badge = "none", !.route = NavigatedAfterReset(d)] \in DriverMemory
  BY ResetType DEF DriverTypeOK, DriverMemory
<1>4. CASE TapReject(d)
  <2>1. driver' \in [Drivers -> DriverMemory]
    BY <1>2, <1>4 DEF TapReject, DriverTypeOK
  <2> QED
    BY <1>1, <2>1 DEF DriverTypeOK
<1>5. CASE TapCancelOnBadge(d)
  <2>1. driver' \in [Drivers -> DriverMemory]
    BY <1>3, <1>5 DEF TapCancelOnBadge, DriverTypeOK
  <2> QED
    BY <1>1, <2>1 DEF DriverTypeOK
<1> QED
  BY <1>4, <1>5

LEMMA TapAcceptType ==
  ASSUME DriverTypeOK, NEW d \in Drivers, TapAccept(d)
  PROVE  DriverTypeOK'
<1> DEFINE p == driver[d].request.rider
           oneMore == [driver[d].calls EXCEPT !.accept[p] = @ + 1]
<1>1. CASE DriverCrashes(d)
  BY <1>1, EndDriverAppType DEF DriverCrashes
<1>2. CASE ~DriverCrashes(d)
  <2>1. /\ driver' = [driver EXCEPT ![d].calls.accept[p] = @ + 1,
                                    ![d].badge = "pickUp",
                                    ![d].alert = Dismissed(@)]
        /\ UNCHANGED dbVars
    BY <1>2 DEF TapAccept
  <2>2. driver[d] \in DriverMemory /\ driver[d].calls \in DriverCalls
    BY DEF DriverTypeOK, DriverMemory
  <2>3. oneMore \in DriverCalls
    BY <2>2 DEF DriverCalls
  <2>4. [driver[d] EXCEPT !.calls = oneMore, !.badge = "pickUp",
                          !.alert = Dismissed(driver[d].alert)] \in DriverMemory
    BY <2>2, <2>3, ResetType DEF DriverMemory
  <2>5. driver' = [driver EXCEPT ![d] =
                    [driver[d] EXCEPT !.calls = oneMore, !.badge = "pickUp",
                                      !.alert = Dismissed(driver[d].alert)]]
    BY <2>1, <2>2 DEF DriverTypeOK, DriverMemory, DriverCalls
  <2>6. driver' \in [Drivers -> DriverMemory]
    BY <2>4, <2>5 DEF DriverTypeOK
  <2>7. DatabaseTypeOK'
    BY <2>1 DEF dbVars, DriverTypeOK, DatabaseTypeOK
  <2> QED
    BY <2>6, <2>7 DEF DriverTypeOK
<1> QED
  BY <1>1, <1>2

LEMMA AcceptRouteType ==
  ASSUME DriverTypeOK, NEW d \in Drivers, NEW p \in Riders,
         AcceptRouteReady(d, p) \/ AcceptRouteFails(d, p)
  PROVE  DriverTypeOK'
<1> DEFINE oneLess == [driver[d].calls EXCEPT !.accept[p] = @ - 1]
<1>1. driver[d] \in DriverMemory /\ driver[d].calls \in DriverCalls
  BY DEF DriverTypeOK, DriverMemory
<1>2. driver[d].calls.accept[p] > 0
  BY DEF AcceptRouteReady, AcceptRouteFails
<1>3. oneLess \in DriverCalls
  BY <1>1, <1>2 DEF DriverCalls
<1>4. /\ [driver[d] EXCEPT !.calls = oneLess] \in DriverMemory
      /\ [driver[d] EXCEPT !.calls = oneLess, !.route = p] \in DriverMemory
  BY <1>1, <1>3 DEF DriverMemory, Routes, OptionalRider
<1>5. CASE AcceptRouteReady(d, p)
  <2>1. driver' \in [Drivers -> DriverMemory]
    BY <1>4, <1>5 DEF AcceptRouteReady, DriverTypeOK
  <2>2. /\ setRideAccept(d, driver[d].riderID, "accepted")
        /\ setRouteRequest(d, "accepted")
        /\ setRoute(d, p)
    BY <1>5 DEF AcceptRouteReady
  <2>3. "accepted" \in CarpoolAcceptStatus /\ "accepted" \in CarpoolRequestStatus
    BY DEF CarpoolAcceptStatus, CarpoolRequestStatus
  <2>4. /\ RideAccepts' \in [Riders -> Answer \union {NoAnswer}]
        /\ acceptEvents' \in [Riders -> Seq(AcceptEvents)]
        /\ RouteRequests' \in [Drivers -> RequestNode]
        /\ requestEvents' \in [Drivers -> Seq(RequestNode)]
    BY <2>2, <2>3, SetRideAcceptType, SetRouteRequestType DEF DriverTypeOK
  <2>5. DriverRoutes' \in [Drivers -> Routes \union {NoRoute}]
    BY <2>2 DEF setRoute, DriverTypeOK, DatabaseTypeOK, Routes, OptionalRider
  <2>6. DatabaseTypeOK'
    BY <1>5, <2>4, <2>5 DEF AcceptRouteReady, DriverTypeOK, DatabaseTypeOK
  <2> QED
    BY <2>1, <2>6 DEF DriverTypeOK
<1>6. CASE AcceptRouteFails(d, p)
  <2>1. driver' \in [Drivers -> DriverMemory]
    BY <1>4, <1>6 DEF AcceptRouteFails, DriverTypeOK
  <2>2. DatabaseTypeOK'
    BY <1>6 DEF AcceptRouteFails, dbVars, DriverTypeOK, DatabaseTypeOK
  <2> QED
    BY <2>1, <2>2 DEF DriverTypeOK
<1> QED
  BY <1>5, <1>6

-----------------------------------------------------------------------------
(* Snapshots and answered calls keep the types. *)

LEMMA DropRequestEventType ==
  ASSUME DriverTypeOK, NEW d \in Drivers, requestEvents[d] # <<>>,
         dropRequestEvent(d),
         DriverRoutes' = DriverRoutes \/ DriverRoutes' = PublishedAfterReset(d)
  PROVE  DatabaseTypeOK'
<1>1. requestEvents[d] \in Seq(RequestNode)
  BY DEF DriverTypeOK, DatabaseTypeOK
<1>2. Tail(requestEvents[d]) \in Seq(RequestNode)
  BY <1>1
<1> QED
  BY <1>2, ResetType DEF dropRequestEvent, DriverTypeOK, DatabaseTypeOK

LEMMA RequestEventType ==
  ASSUME DriverTypeOK, NEW d \in Drivers, RequestEvent(d)
  PROVE  DriverTypeOK'
<1> DEFINE node == Head(requestEvents[d])
<1>1. requestEvents[d] # <<>> /\ requestEvents[d] \in Seq(RequestNode)
  BY DEF RequestEvent, DriverTypeOK, DatabaseTypeOK
<1>2. node \in RequestNode
  BY <1>1
<1>3. node.rider \in OptionalRider /\ node.status \in CarpoolRequestStatus \union {NoStatus}
  BY <1>2 DEF RequestNode
<1> HIDE DEF node
<1>4. NewCarpoolRequest(node) \in S1CCarpoolRequest
  BY <1>3 DEF NewCarpoolRequest, NoCarpoolRequest, S1CCarpoolRequest, OptionalRider
<1>5. /\ driver[d] \in DriverMemory
      /\ driver[d].calls \in DriverCalls
      /\ driver[d].request \in S1CCarpoolRequest
  BY DEF DriverTypeOK, DriverMemory
<1>6. CASE DriverCrashes(d)
  BY <1>6, EndDriverAppType DEF DriverCrashes
<1>7. CASE HearRequested(d, node)
  <2> DEFINE calls == [driver[d].calls EXCEPT !.details[node.rider] = @ + 1]
  <2>1. calls \in DriverCalls
    BY <1>5 DEF DriverCalls
  <2>2. [driver[d] EXCEPT !.riderID = node.rider, !.request = NewCarpoolRequest(node),
                          !.calls = calls] \in DriverMemory
    BY <1>3, <1>4, <1>5, <2>1 DEF DriverMemory
  <2>3. driver' \in [Drivers -> DriverMemory]
    BY <1>7, <2>2 DEF HearRequested, DriverTypeOK
  <2>4. DatabaseTypeOK'
    BY <1>1, <1>7, DropRequestEventType DEF HearRequested
  <2> QED
    BY <2>3, <2>4 DEF DriverTypeOK
<1>8. CASE HearAcceptedOrConfirmed(d, node)
  <2>1. [driver[d].request EXCEPT !.status = node.status] \in S1CCarpoolRequest
    BY <1>3, <1>5 DEF S1CCarpoolRequest
  <2>2. [driver[d] EXCEPT !.riderID = node.rider,
                          !.request = [driver[d].request EXCEPT !.status = node.status]]
          \in DriverMemory
    BY <1>3, <1>5, <2>1 DEF DriverMemory
  <2>3. driver' \in [Drivers -> DriverMemory]
    BY <1>8, <2>2 DEF HearAcceptedOrConfirmed, DriverTypeOK
  <2>4. DatabaseTypeOK'
    BY <1>1, <1>8, DropRequestEventType DEF HearAcceptedOrConfirmed
  <2> QED
    BY <2>3, <2>4 DEF DriverTypeOK
<1>9. CASE HearRiderCancelled(d, node)
  <2>1. [driver[d] EXCEPT !.riderID = node.rider, !.request = NewCarpoolRequest(node),
                          !.route = NavigatedAfterReset(d), !.badge = "notice",
                          !.alert = Dismissed(driver[d].alert)] \in DriverMemory
    BY <1>3, <1>4, <1>5, ResetType DEF DriverMemory
  <2>2. driver' \in [Drivers -> DriverMemory]
    BY <1>9, <2>1 DEF HearRiderCancelled, DriverTypeOK
  <2>3. DatabaseTypeOK'
    BY <1>1, <1>9, DropRequestEventType DEF HearRiderCancelled
  <2> QED
    BY <2>2, <2>3 DEF DriverTypeOK
<1>10. CASE HearCancelled(d, node)
  <2>1. [driver[d] EXCEPT !.riderID = node.rider, !.badge = "notice",
                          !.alert = Dismissed(driver[d].alert)] \in DriverMemory
    BY <1>3, <1>5, ResetType DEF DriverMemory
  <2>2. driver' \in [Drivers -> DriverMemory]
    BY <1>10, <2>1 DEF HearCancelled, DriverTypeOK
  <2>3. DatabaseTypeOK'
    BY <1>1, <1>10, DropRequestEventType DEF HearCancelled
  <2> QED
    BY <2>2, <2>3 DEF DriverTypeOK
<1>11. CASE HearNothingNew(d, node)
  <2>1. [driver[d] EXCEPT !.riderID = node.rider] \in DriverMemory
    BY <1>3, <1>5 DEF DriverMemory
  <2>2. driver' \in [Drivers -> DriverMemory]
    BY <1>11, <2>1 DEF HearNothingNew, DriverTypeOK
  <2>3. DatabaseTypeOK'
    BY <1>1, <1>11, DropRequestEventType DEF HearNothingNew
  <2> QED
    BY <2>2, <2>3 DEF DriverTypeOK
<1> QED
  BY <1>6, <1>7, <1>8, <1>9, <1>10, <1>11 DEF RequestEvent, node

LEMMA PreparationType ==
  ASSUME DriverTypeOK, NEW d \in Drivers,
         \/ \E r \in Riders, outcome \in DetailsOutcomes : DetailsFetched(d, r, outcome)
         \/ \E found \in RoutingOutcomes : TimeFetched(d, found)
         \/ \E found \in RoutingOutcomes : DistanceFetched(d, found)
  PROVE  DriverTypeOK'
<1>1. /\ driver[d] \in DriverMemory
      /\ driver[d].calls \in DriverCalls
      /\ driver[d].request \in S1CCarpoolRequest
      /\ driver[d].alert \in DriverAlert
  BY DEF DriverTypeOK, DriverMemory
<1>2. ASSUME NEW r \in Riders, NEW outcome \in DetailsOutcomes, DetailsFetched(d, r, outcome)
      PROVE  DriverTypeOK'
  <2> DEFINE calls == driver[d].calls
             waiting == [calls.details EXCEPT ![r] = @ - 1]
             fewer == [calls EXCEPT !.details = waiting]
             more == [calls EXCEPT !.details = waiting, !.time = calls.time + 1]
             details == IF outcome = "complete" THEN r ELSE NoRider
  <2>1. fewer \in DriverCalls /\ more \in DriverCalls
    <3>1. calls.details \in [Riders -> Nat] /\ calls.details[r] > 0 /\ calls.time \in Nat
      BY <1>1, <1>2 DEF DetailsFetched, DriverCalls
    <3>2. waiting \in [Riders -> Nat] /\ calls.time + 1 \in Nat
      BY <3>1
    <3> QED
      BY <1>1, <3>2 DEF DriverCalls
  <2>2. [driver[d].request EXCEPT !.details = details] \in S1CCarpoolRequest
    BY <1>1 DEF S1CCarpoolRequest, OptionalRider
  <2>3. /\ [driver[d] EXCEPT !.calls = fewer] \in DriverMemory
        /\ [driver[d] EXCEPT !.calls = more,
                             !.request = [driver[d].request EXCEPT !.details = details]]
             \in DriverMemory
    BY <1>1, <2>1, <2>2 DEF DriverMemory
  <2>4. driver' \in [Drivers -> DriverMemory]
    <3>1. CASE outcome = "error"
      BY <1>2, <2>3, <3>1 DEF DetailsFetched, DriverTypeOK
    <3>2. CASE outcome # "error"
      <4>1. driver' = [driver EXCEPT ![d] =
                        [driver[d] EXCEPT !.calls = more,
                            !.request = [driver[d].request EXCEPT !.details = details]]]
        <5> DEFINE memory == [driver[d] EXCEPT !.calls.details[r] = @ - 1,
                                               !.calls.time = @ + 1,
                                               !.request.details = details]
        <5>1. driver' = [driver EXCEPT ![d] = memory]
          BY <1>2, <3>2 DEF DetailsFetched
        <5>2. memory.calls = more
          BY <1>1 DEF DriverMemory, DriverCalls
        <5>3. memory.request = [driver[d].request EXCEPT !.details = details]
          BY <1>1 DEF DriverMemory, S1CCarpoolRequest
        <5>4. memory = [driver[d] EXCEPT !.calls = memory.calls, !.request = memory.request]
          BY <1>1 DEF DriverMemory
        <5> QED
          BY <5>1, <5>2, <5>3, <5>4
      <4> QED
        BY <2>3, <4>1 DEF DriverTypeOK
    <3> QED
      BY <3>1, <3>2
  <2>5. DatabaseTypeOK'
    BY <1>2 DEF DetailsFetched, dbVars, DriverTypeOK, DatabaseTypeOK
  <2> QED
    BY <2>4, <2>5 DEF DriverTypeOK
<1>3. ASSUME NEW found \in RoutingOutcomes, TimeFetched(d, found)
      PROVE  DriverTypeOK'
  <2> DEFINE calls == driver[d].calls
             next == [calls EXCEPT !.time = calls.time - 1, !.distance = calls.distance + 1]
  <2>1. next \in DriverCalls
    <3>1. calls.time \in Nat /\ calls.time > 0 /\ calls.distance \in Nat
      BY <1>1, <1>3 DEF TimeFetched, DriverCalls
    <3>2. calls.time - 1 \in Nat /\ calls.distance + 1 \in Nat
      BY <3>1
    <3> QED
      BY <1>1, <3>2 DEF DriverCalls
  <2>2. found \in BOOLEAN
    BY DriverOutcomeAssumption
  <2>3. [driver[d].request EXCEPT !.time = found] \in S1CCarpoolRequest
    BY <1>1, <2>2 DEF S1CCarpoolRequest
  <2>4. [driver[d] EXCEPT !.calls = next,
                          !.request = [driver[d].request EXCEPT !.time = found]]
          \in DriverMemory
    BY <1>1, <2>1, <2>3 DEF DriverMemory
  <2>5. driver' = [driver EXCEPT ![d] =
                    [driver[d] EXCEPT !.calls = next,
                                      !.request = [driver[d].request EXCEPT !.time = found]]]
    BY <1>1, <1>3 DEF TimeFetched, DriverTypeOK, DriverMemory
  <2>6. driver' \in [Drivers -> DriverMemory]
    BY <2>4, <2>5 DEF DriverTypeOK
  <2>7. DatabaseTypeOK'
    BY <1>3 DEF TimeFetched, dbVars, DriverTypeOK, DatabaseTypeOK
  <2> QED
    BY <2>6, <2>7 DEF DriverTypeOK
<1>4. ASSUME NEW found \in RoutingOutcomes, DistanceFetched(d, found)
      PROVE  DriverTypeOK'
  <2>1. CASE DriverCrashes(d)
    BY <2>1, EndDriverAppType DEF DriverCrashes
  <2>2. CASE ~DriverCrashes(d)
    <3> DEFINE fewer == [driver[d].calls EXCEPT !.distance = @ - 1]
               named == [state |-> "shown", names |-> driver[d].request.details]
               lost == [driver[d].alert EXCEPT !.state = "orphaned"]
    <3>1. fewer \in DriverCalls
      BY <1>1, <1>4 DEF DistanceFetched, DriverCalls
    <3>2. named \in DriverAlert /\ lost \in DriverAlert
      BY <1>1 DEF DriverAlert, S1CCarpoolRequest
    <3>3. PICK alert \in {driver[d].alert, named, lost} :
            driver' = [driver EXCEPT ![d].calls.distance = @ - 1, ![d].alert = alert]
      BY <1>4, <2>2 DEF DistanceFetched
    <3>4. [driver[d] EXCEPT !.calls = fewer, !.alert = alert] \in DriverMemory
      BY <1>1, <3>1, <3>2, <3>3 DEF DriverMemory
    <3>5. driver' \in [Drivers -> DriverMemory]
      BY <3>3, <3>4 DEF DriverTypeOK
    <3>6. DatabaseTypeOK'
      BY <1>4, <2>2 DEF DistanceFetched, dbVars, DriverTypeOK, DatabaseTypeOK
    <3> QED
      BY <3>5, <3>6 DEF DriverTypeOK
  <2> QED
    BY <2>1, <2>2
<1> QED
  BY <1>2, <1>3, <1>4

LEMMA LifecycleType ==
  ASSUME DriverTypeOK, NEW d \in Drivers,
         ArriveAtPickUp(d) \/ QuitDriverApp(d) \/ LaunchDriverApp(d)
  PROVE  DriverTypeOK'
<1>1. CASE ArriveAtPickUp(d)
  BY <1>1, EndDriverAppType DEF ArriveAtPickUp, DriverCrashes
<1>2. CASE QuitDriverApp(d)
  BY <1>2, EndDriverAppType DEF QuitDriverApp
<1>3. CASE LaunchDriverApp(d)
  <2>1. [driver[d] EXCEPT !.app = "running"] \in DriverMemory
    BY DEF DriverTypeOK, DriverMemory
  <2>2. driver' \in [Drivers -> DriverMemory]
    BY <1>3, <2>1 DEF LaunchDriverApp, DriverTypeOK
  <2>3. DatabaseTypeOK'
    BY <1>3 DEF LaunchDriverApp, dbVars, DriverTypeOK, DatabaseTypeOK
  <2> QED
    BY <2>2, <2>3 DEF DriverTypeOK
<1> QED
  BY <1>1, <1>2, <1>3

-----------------------------------------------------------------------------
(* The riders' side keeps the types. *)

LEMMA RiderSideType ==
  ASSUME DriverTypeOK, NEW d \in Drivers, RiderSide(d)
  PROVE  DriverTypeOK'
<1>1. DatabaseTypeOK
  BY DEF DriverTypeOK
<1>2. ASSUME NEW r \in Riders, AnyRiderRequests(r, d)
      PROVE  DriverTypeOK'
  <2>1. /\ RouteRequests' \in [Drivers -> RequestNode]
        /\ requestEvents' \in [Drivers -> Seq(RequestNode)]
    BY <1>1, <1>2, NodesAreTyped, WriteRequestType DEF AnyRiderRequests, requestCarpool
  <2>2. asked' \subseteq Riders \X Drivers
    BY <1>1, <1>2 DEF AnyRiderRequests, requestCarpool, DatabaseTypeOK
  <2> QED
    BY <1>2, <2>1, <2>2 DEF AnyRiderRequests, DriverTypeOK, DatabaseTypeOK
<1>3. CASE AnyRiderWritesRequest(d)
  <2>1. OtherStatuses \subseteq CarpoolRequestStatus
    BY DriverOutcomeAssumption DEF CarpoolRequestStatus
  <2>2. /\ RouteRequests' \in [Drivers -> RequestNode]
        /\ requestEvents' \in [Drivers -> Seq(RequestNode)]
    <3>1. CASE cancelRouteRequest(d)
      BY <1>1, <3>1, SetRouteRequestType DEF cancelRouteRequest, CarpoolRequestStatus
    <3>2. CASE removeRouteRequest(d)
      BY <1>1, <3>2, NodesAreTyped, WriteRequestType DEF removeRouteRequest
    <3>3. CASE \E s \in OtherStatuses : setRouteRequest(d, s)
      BY <1>1, <2>1, <3>3, SetRouteRequestType
    <3> QED
      BY <1>3, <3>1, <3>2, <3>3 DEF AnyRiderWritesRequest
  <2> QED
    BY <1>3, <2>2 DEF AnyRiderWritesRequest, DriverTypeOK, DatabaseTypeOK
<1>4. ASSUME NEW r \in Riders, AnyRiderRemovesAnswer(r, d)
      PROVE  DriverTypeOK'
  <2>1. RideAccepts' \in [Riders -> Answer \union {NoAnswer}]
    BY <1>1, <1>4 DEF AnyRiderRemovesAnswer, removeRideAccept, DatabaseTypeOK
  <2> QED
    BY <1>4, <2>1 DEF AnyRiderRemovesAnswer, DriverTypeOK, DatabaseTypeOK
<1> QED
  BY <1>2, <1>3, <1>4 DEF RiderSide

-----------------------------------------------------------------------------
LEMMA DriverTypeInit == DriverInit => DriverTypeOK
<1> SUFFICES ASSUME DriverInit PROVE DriverTypeOK
  OBVIOUS
<1>1. driver \in [Drivers -> DriverMemory]
  BY FreshMemoryType DEF DriverInit
<1>2. DatabaseTypeOK
  BY NodesAreTyped DEF DriverInit, DatabaseInit, DatabaseTypeOK
<1> QED
  BY <1>1, <1>2 DEF DriverTypeOK

LEMMA DriverTypeNext == DriverTypeOK /\ [DriverNext]_driverVars => DriverTypeOK'
<1> SUFFICES ASSUME DriverTypeOK, [DriverNext]_driverVars PROVE DriverTypeOK'
  OBVIOUS
<1>1. ASSUME NEW d \in Drivers, DriverStep(d)
      PROVE  DriverTypeOK'
  BY <1>1, StartCarpoolType, DismissNavigationType, NavigationProgressType, LifecycleType,
     TapRejectType, TapAcceptType, RequestEventType, PreparationType, AcceptRouteType
     DEF DriverStep, DriverCallbacks
<1>2. ASSUME NEW d \in Drivers, RiderSide(d)
      PROVE  DriverTypeOK'
  BY <1>2, RiderSideType
<1>3. CASE UNCHANGED driverVars
  BY <1>3 DEF driverVars, dbVars, DriverTypeOK, DatabaseTypeOK
<1> QED
  BY <1>1, <1>2, <1>3 DEF DriverNext

(* Nodes, queues, observers and the app's memory have their types in every *)
(* state, whatever riders write and however the calls of CarpoolAccept-    *)
(* Manager end; no counter of calls in flight goes below zero.             *)
THEOREM DriverTypeCorrect == DriverSpec => []DriverTypeOK
<1> QED
  BY DriverTypeInit, DriverTypeNext, PTL DEF DriverSpec

-----------------------------------------------------------------------------
(* The published route. *)

(* What a step may do to a driver's navigation, its published route and    *)
(* its position.                                                           *)
RouteKept(d) ==
  /\ driver'[d].navigating = driver[d].navigating
  /\ driver'[d].route = driver[d].route
  /\ DriverRoutes'[d] = DriverRoutes[d]

RouteSet(d) == DriverRoutes'[d] = driver'[d].route /\ driver'[d].route \in Routes

RouteReset(d) ==
  /\ driver'[d].navigating = driver[d].navigating
  /\ driver'[d].route = NavigatedAfterReset(d)
  /\ DriverRoutes'[d] = PublishedAfterReset(d)[d]

NavigationEnded(d) == ~driver'[d].navigating /\ DriverRoutes'[d] = DriverRoutes[d]

RouteRemoved(d) ==
  ~driver'[d].navigating /\ DriverRoutes'[d] = NoRoute /\ d \notin DriverLocations'

RouteStep(d) ==
  \/ RouteRemoved(d)
  \/ /\ RouteKept(d) \/ RouteSet(d) \/ RouteReset(d) \/ NavigationEnded(d)
     /\ \/ d \in DriverLocations' => d \in DriverLocations
        \/ driver[d].navigating /\ RouteKept(d)

(* No step touches the route, the position or the app of another driver.   *)
Bystander(e) ==
  /\ driver'[e] = driver[e]
  /\ DriverRoutes'[e] = DriverRoutes[e]
  /\ e \in DriverLocations' <=> e \in DriverLocations

LEMMA EndIsRouteStep ==
  ASSUME DriverTypeOK, NEW d \in Drivers, NEW how, EndDriverApp(d, how)
  PROVE  RouteStep(d) /\ \A e \in Drivers \ {d} : Bystander(e)
BY DEF EndDriverApp, FreshMemory, RouteStep, NavigationEnded, Bystander, DriverTypeOK

LEMMA NavigationIsRouteStep ==
  ASSUME DriverTypeOK, NEW d \in Drivers,
         \/ StartCarpool(d) \/ DismissNavigation(d)
         \/ \E lastMinute \in BOOLEAN : NavigationProgress(d, lastMinute)
         \/ ArriveAtPickUp(d) \/ QuitDriverApp(d) \/ LaunchDriverApp(d)
  PROVE  RouteStep(d) /\ \A e \in Drivers \ {d} : Bystander(e)
<1>1. CASE StartCarpool(d)
  <2>1. RouteSet(d) /\ DriverLocations' = DriverLocations
    BY <1>1 DEF StartCarpool, setRoute, RouteSet, DriverTypeOK, DatabaseTypeOK, DriverMemory,
       Routes, OptionalRider
  <2> QED
    BY <1>1, <2>1 DEF StartCarpool, setRoute, RouteStep, Bystander, DriverTypeOK, DatabaseTypeOK
<1>2. CASE DismissNavigation(d)
  BY <1>2 DEF DismissNavigation, removeRoute, RouteStep, RouteRemoved, Bystander, DriverTypeOK,
     DatabaseTypeOK, DriverMemory
<1>3. ASSUME NEW lastMinute \in BOOLEAN, NavigationProgress(d, lastMinute)
      PROVE  RouteStep(d) /\ \A e \in Drivers \ {d} : Bystander(e)
  <2>1. RouteKept(d) /\ driver[d].navigating
    BY <1>3 DEF NavigationProgress, RouteKept, DriverTypeOK, DriverMemory
  <2> QED
    BY <1>3, <2>1 DEF NavigationProgress, setCurrentLocation, RouteStep, Bystander, DriverTypeOK
<1>4. CASE ArriveAtPickUp(d)
  BY <1>4, EndIsRouteStep DEF ArriveAtPickUp, DriverCrashes
<1>5. CASE QuitDriverApp(d)
  BY <1>5, EndIsRouteStep DEF QuitDriverApp
<1>6. CASE LaunchDriverApp(d)
  BY <1>6 DEF LaunchDriverApp, dbVars, RouteStep, RouteKept, Bystander, DriverTypeOK, DriverMemory
<1> QED
  BY <1>1, <1>2, <1>3, <1>4, <1>5, <1>6

LEMMA AnswerIsRouteStep ==
  ASSUME DriverTypeOK, NEW d \in Drivers,
         \/ TapReject(d) \/ TapCancelOnBadge(d) \/ TapAccept(d)
         \/ \E p \in Riders : AcceptRouteReady(d, p) \/ AcceptRouteFails(d, p)
  PROVE  RouteStep(d) /\ \A e \in Drivers \ {d} : Bystander(e)
<1>1. CASE TapReject(d) \/ TapCancelOnBadge(d)
  <2>1. RouteReset(d) /\ DriverLocations' = DriverLocations
    BY <1>1 DEF TapReject, TapCancelOnBadge, rejectCarpoolRequest, RouteReset, DriverTypeOK,
       DriverMemory
  <2>2. \A e \in Drivers \ {d} : Bystander(e)
    BY <1>1 DEF TapReject, TapCancelOnBadge, rejectCarpoolRequest, PublishedAfterReset,
       Bystander, DriverTypeOK, DatabaseTypeOK
  <2> QED
    BY <2>1, <2>2 DEF RouteStep
<1>2. CASE TapAccept(d)
  <2>1. CASE DriverCrashes(d)
    BY <2>1, EndIsRouteStep DEF DriverCrashes
  <2>2. CASE ~DriverCrashes(d)
    <3>1. RouteKept(d) /\ DriverLocations' = DriverLocations
      <4>1. driver'[d] = [driver[d] EXCEPT !.calls.accept[driver[d].request.rider] = @ + 1,
                                           !.badge = "pickUp", !.alert = Dismissed(@)]
        BY <1>2, <2>2 DEF TapAccept, DriverTypeOK
      <4>2. driver'[d].navigating = driver[d].navigating /\ driver'[d].route = driver[d].route
        BY <4>1 DEF DriverTypeOK, DriverMemory
      <4>3. UNCHANGED dbVars
        BY <1>2, <2>2 DEF TapAccept
      <4> QED
        BY <4>2, <4>3 DEF dbVars, RouteKept
    <3>2. \A e \in Drivers \ {d} : Bystander(e)
      BY <1>2, <2>2 DEF TapAccept, dbVars, Bystander, DriverTypeOK
    <3> QED
      BY <3>1, <3>2 DEF RouteStep
  <2> QED
    BY <2>1, <2>2
<1>3. ASSUME NEW p \in Riders, AcceptRouteReady(d, p)
      PROVE  RouteStep(d) /\ \A e \in Drivers \ {d} : Bystander(e)
  <2>1. RouteSet(d) /\ DriverLocations' = DriverLocations
    BY <1>3 DEF AcceptRouteReady, setRoute, RouteSet, DriverTypeOK, DatabaseTypeOK, DriverMemory,
       Routes, OptionalRider
  <2>2. \A e \in Drivers \ {d} : Bystander(e)
    BY <1>3 DEF AcceptRouteReady, setRoute, Bystander, DriverTypeOK, DatabaseTypeOK
  <2> QED
    BY <2>1, <2>2 DEF RouteStep
<1>4. ASSUME NEW p \in Riders, AcceptRouteFails(d, p)
      PROVE  RouteStep(d) /\ \A e \in Drivers \ {d} : Bystander(e)
  BY <1>4 DEF AcceptRouteFails, dbVars, RouteStep, RouteKept, Bystander, DriverTypeOK, DriverMemory
<1> QED
  BY <1>1, <1>2, <1>3, <1>4

LEMMA CallbackIsRouteStep ==
  ASSUME DriverTypeOK, NEW d \in Drivers,
         \/ RequestEvent(d)
         \/ \E r \in Riders, outcome \in DetailsOutcomes : DetailsFetched(d, r, outcome)
         \/ \E found \in RoutingOutcomes : TimeFetched(d, found)
         \/ \E found \in RoutingOutcomes : DistanceFetched(d, found)
  PROVE  RouteStep(d) /\ \A e \in Drivers \ {d} : Bystander(e)
<1>1. CASE DriverCrashes(d)
  BY <1>1, EndIsRouteStep DEF DriverCrashes
<1>2. CASE \E node : HearRiderCancelled(d, node)
  <2>1. RouteReset(d) /\ DriverLocations' = DriverLocations
    BY <1>2 DEF HearRiderCancelled, dropRequestEvent, RouteReset, DriverTypeOK, DriverMemory
  <2>2. \A e \in Drivers \ {d} : Bystander(e)
    BY <1>2 DEF HearRiderCancelled, dropRequestEvent, PublishedAfterReset, Bystander,
       DriverTypeOK, DatabaseTypeOK
  <2> QED
    BY <2>1, <2>2 DEF RouteStep
<1>3. CASE \E node : \/ HearRequested(d, node) \/ HearAcceptedOrConfirmed(d, node)
                     \/ HearCancelled(d, node) \/ HearNothingNew(d, node)
  <2>1. RouteKept(d) /\ DriverLocations' = DriverLocations
    BY <1>3 DEF HearRequested, HearAcceptedOrConfirmed, HearCancelled, HearNothingNew,
       dropRequestEvent, RouteKept, DriverTypeOK, DriverMemory
  <2>2. \A e \in Drivers \ {d} : Bystander(e)
    BY <1>3 DEF HearRequested, HearAcceptedOrConfirmed, HearCancelled, HearNothingNew,
       dropRequestEvent, Bystander, DriverTypeOK
  <2> QED
    BY <2>1, <2>2 DEF RouteStep
<1>4. ASSUME ~DriverCrashes(d),
             \/ \E r \in Riders, outcome \in DetailsOutcomes : DetailsFetched(d, r, outcome)
             \/ \E found \in RoutingOutcomes : TimeFetched(d, found)
             \/ \E found \in RoutingOutcomes : DistanceFetched(d, found)
      PROVE  RouteStep(d) /\ \A e \in Drivers \ {d} : Bystander(e)
  <2>1. UNCHANGED dbVars
    BY <1>4 DEF DetailsFetched, TimeFetched, DistanceFetched
  <2>2. driver'[d].navigating = driver[d].navigating /\ driver'[d].route = driver[d].route
    <3>1. ASSUME NEW r \in Riders, NEW outcome \in DetailsOutcomes, DetailsFetched(d, r, outcome)
          PROVE  driver'[d].navigating = driver[d].navigating
                   /\ driver'[d].route = driver[d].route
      <4>1. \/ driver'[d] = [driver[d] EXCEPT !.calls.details[r] = @ - 1]
            \/ driver'[d] = [driver[d] EXCEPT
                                !.calls.details[r] = @ - 1,
                                !.calls.time = @ + 1,
                                !.request.details = IF outcome = "complete" THEN r ELSE NoRider]
        <5>1. CASE outcome = "error"
          BY <3>1, <5>1 DEF DetailsFetched, DriverTypeOK
        <5>2. CASE outcome # "error"
          BY <3>1, <5>2 DEF DetailsFetched, DriverTypeOK
        <5> QED
          BY <5>1, <5>2
      <4> QED
        BY <4>1 DEF DriverTypeOK, DriverMemory
    <3>2. ASSUME NEW found \in RoutingOutcomes, TimeFetched(d, found)
          PROVE  driver'[d].navigating = driver[d].navigating
                   /\ driver'[d].route = driver[d].route
      <4>1. driver'[d] = [driver[d] EXCEPT !.calls.time = @ - 1, !.calls.distance = @ + 1,
                                           !.request.time = found]
        BY <3>2 DEF TimeFetched, DriverTypeOK
      <4> QED
        BY <4>1 DEF DriverTypeOK, DriverMemory
    <3>3. ASSUME NEW found \in RoutingOutcomes, DistanceFetched(d, found)
          PROVE  driver'[d].navigating = driver[d].navigating
                   /\ driver'[d].route = driver[d].route
      <4> DEFINE named == [state |-> "shown", names |-> driver[d].request.details]
                 lost == [driver[d].alert EXCEPT !.state = "orphaned"]
      <4>1. ~DriverCrashes(d)
        BY <1>4
      <4>2. \E alert \in {driver[d].alert, named, lost} :
              driver' = [driver EXCEPT ![d].calls.distance = @ - 1, ![d].alert = alert]
        BY <3>3, <4>1 DEF DistanceFetched
      <4>3. PICK alert \in {driver[d].alert, named, lost} :
              driver' = [driver EXCEPT ![d].calls.distance = @ - 1, ![d].alert = alert]
        BY <4>2
      <4>4. driver'[d] = [driver[d] EXCEPT !.calls.distance = @ - 1, !.alert = alert]
        BY <4>3 DEF DriverTypeOK
      <4> QED
        BY <4>4 DEF DriverTypeOK, DriverMemory
    <3> QED
      BY <1>4, <3>1, <3>2, <3>3
  <2>3. \A e \in Drivers \ {d} : driver'[e] = driver[e]
    BY <1>4 DEF DetailsFetched, TimeFetched, DistanceFetched, DriverTypeOK
  <2> QED
    BY <2>1, <2>2, <2>3 DEF dbVars, RouteStep, RouteKept, Bystander
<1> QED
  BY <1>1, <1>2, <1>3, <1>4 DEF RequestEvent

LEMMA EveryStepIsRouteStep ==
  ASSUME DriverTypeOK, [DriverNext]_driverVars, NEW e \in Drivers
  PROVE  RouteStep(e) \/ Bystander(e)
<1>1. ASSUME NEW d \in Drivers, DriverStep(d)
      PROVE  RouteStep(d) /\ \A f \in Drivers \ {d} : Bystander(f)
  BY <1>1, NavigationIsRouteStep, AnswerIsRouteStep, CallbackIsRouteStep
     DEF DriverStep, DriverCallbacks
<1>2. ASSUME NEW d \in Drivers, RiderSide(d)
      PROVE  Bystander(e)
  BY <1>2 DEF RiderSide, AnyRiderWritesRequest, AnyRiderRequests, AnyRiderRemovesAnswer, Bystander
<1>3. CASE UNCHANGED driverVars
  BY <1>3 DEF driverVars, dbVars, Bystander
<1> QED
  BY <1>1, <1>2, <1>3 DEF DriverNext

(* While a driver navigates, the published route is the one it follows,    *)
(* through detours, resets and late routing answers: acceptCarpoolRequest, *)
(* resetToOriginalRoute and setRoute go together in every interleaving.    *)
THEOREM PublishedRouteCorrect == DriverSpec => []PublishedRouteIsDriven
<1>1. DriverInit => PublishedRouteIsDriven
  BY DEF DriverInit, FreshMemory, PublishedRouteIsDriven
<1>2. DriverTypeOK /\ PublishedRouteIsDriven /\ [DriverNext]_driverVars
        => PublishedRouteIsDriven'
  <2> SUFFICES ASSUME DriverTypeOK, PublishedRouteIsDriven, [DriverNext]_driverVars,
                      NEW e \in Drivers, driver'[e].navigating
               PROVE  DriverRoutes'[e] = driver'[e].route
    BY DEF PublishedRouteIsDriven
  <2>1. CASE Bystander(e)
    BY <2>1 DEF Bystander, PublishedRouteIsDriven
  <2>2. CASE RouteReset(e)
    <3>1. PublishedAfterReset(e)[e] = IF driver[e].original THEN NoRider ELSE DriverRoutes[e]
      BY DEF PublishedAfterReset, DriverTypeOK, DatabaseTypeOK
    <3> QED
      BY <2>2, <3>1 DEF RouteReset, NavigatedAfterReset, PublishedRouteIsDriven
  <2>3. CASE RouteStep(e) /\ ~RouteReset(e)
    BY <2>3 DEF RouteStep, RouteKept, RouteSet, NavigationEnded, RouteRemoved,
       PublishedRouteIsDriven
  <2> QED
    BY <2>1, <2>2, <2>3, EveryStepIsRouteStep
<1> QED
  BY <1>1, <1>2, DriverTypeCorrect, PTL DEF DriverSpec

(* No driver is on the riders' maps without a route they can be matched    *)
(* with: removeRoute takes both, and only a navigation, which has a route  *)
(* by the theorem before, reports positions.                               *)
THEOREM LocatedDriverCorrect == DriverSpec => []LocatedDriverHasRoute
<1>1. DriverInit => LocatedDriverHasRoute
  BY DEF DriverInit, DatabaseInit, LocatedDriverHasRoute
<1>2. /\ DriverTypeOK /\ DriverTypeOK' /\ PublishedRouteIsDriven /\ LocatedDriverHasRoute
      /\ [DriverNext]_driverVars
      => LocatedDriverHasRoute'
  <2> SUFFICES ASSUME DriverTypeOK, DriverTypeOK', PublishedRouteIsDriven,
                      LocatedDriverHasRoute, [DriverNext]_driverVars,
                      NEW e \in DriverLocations'
               PROVE  DriverRoutes'[e] # NoRoute
    BY DEF LocatedDriverHasRoute
  <2>1. e \in Drivers
    BY DEF DriverTypeOK, DatabaseTypeOK
  <2>2. NoRoute \notin Routes
    BY IdentityAssumption DEF Routes, OptionalRider
  <2>3. CASE Bystander(e)
    BY <2>3 DEF Bystander, LocatedDriverHasRoute
  <2>4. CASE RouteStep(e)
    <3>1. CASE e \in DriverLocations
      <4>1. DriverRoutes[e] # NoRoute
        BY <3>1 DEF LocatedDriverHasRoute
      <4>2. CASE RouteReset(e)
        BY <2>1, <2>2, <4>1, <4>2 DEF RouteReset, PublishedAfterReset, DriverTypeOK,
           DatabaseTypeOK, Routes, OptionalRider
      <4>3. CASE ~RouteReset(e)
        BY <2>2, <2>4, <4>1, <4>3 DEF RouteStep, RouteKept, RouteSet, NavigationEnded,
           RouteRemoved
      <4> QED
        BY <4>2, <4>3
    <3>2. CASE e \notin DriverLocations
      <4>1. driver[e].navigating /\ RouteKept(e)
        BY <2>4, <3>2 DEF RouteStep, RouteRemoved
      <4>2. DriverRoutes[e] = driver[e].route /\ driver[e].route \in Routes
        BY <2>1, <4>1 DEF PublishedRouteIsDriven, DriverTypeOK, DriverMemory
      <4> QED
        BY <2>2, <4>1, <4>2 DEF RouteKept
    <3> QED
      BY <3>1, <3>2
  <2> QED
    BY <2>1, <2>3, <2>4, EveryStepIsRouteStep
<1> QED
  BY <1>1, <1>2, DriverTypeCorrect, PublishedRouteCorrect, PTL DEF DriverSpec

-----------------------------------------------------------------------------
(* What a step may do to a driver on the riders' maps: leave the position, *)
(* the app and the navigation as they are, or end where there is no        *)
(* position, no app, or a navigation.                                      *)
PositionKept(d) ==
  /\ d \in DriverLocations' => d \in DriverLocations
  /\ driver'[d].app = driver[d].app
  /\ driver'[d].navigating = driver[d].navigating

PositionStep(d) ==
  \/ PositionKept(d)
  \/ d \notin DriverLocations'
  \/ driver'[d].app # "running"
  \/ driver'[d].navigating

LEMMA EndIsPositionStep ==
  ASSUME DriverTypeOK, NEW d \in Drivers, NEW how \in {"quit", "crashed"}, EndDriverApp(d, how),
         NEW e \in Drivers
  PROVE  PositionStep(e)
BY DEF EndDriverApp, FreshMemory, PositionStep, PositionKept, DriverTypeOK

LEMMA CrashIsPositionStep ==
  ASSUME DriverTypeOK, NEW d \in Drivers, DriverCrashes(d), NEW e \in Drivers
  PROVE  PositionStep(e)
BY EndIsPositionStep DEF DriverCrashes

LEMMA DriverStepIsPositionStep ==
  ASSUME DriverTypeOK, "launch" \notin DriverLifecycle, NEW d \in Drivers, DriverStep(d),
         NEW e \in Drivers
  PROVE  PositionStep(e)
<1> USE DEF DriverTypeOK, DriverMemory
<1>1. CASE StartCarpool(d)
  BY <1>1 DEF StartCarpool, PositionStep, PositionKept
<1>2. CASE DismissNavigation(d)
  BY <1>2 DEF DismissNavigation, removeRoute, PositionStep, PositionKept
<1>3. ASSUME NEW lastMinute \in BOOLEAN, NavigationProgress(d, lastMinute)
      PROVE  PositionStep(e)
  BY <1>3 DEF NavigationProgress, setCurrentLocation, PositionStep, PositionKept
<1>4. CASE ArriveAtPickUp(d)
  BY <1>4, CrashIsPositionStep DEF ArriveAtPickUp
<1>5. CASE TapReject(d) \/ TapCancelOnBadge(d)
  <2>1. DriverLocations' = DriverLocations
    BY <1>5 DEF TapReject, TapCancelOnBadge, rejectCarpoolRequest
  <2> QED
    BY <1>5, <2>1 DEF TapReject, TapCancelOnBadge, PositionStep, PositionKept
<1>6. CASE TapAccept(d)
  <2>1. CASE DriverCrashes(d)
    BY <2>1, CrashIsPositionStep
  <2>2. CASE ~DriverCrashes(d)
    BY <1>6, <2>2 DEF TapAccept, dbVars, PositionStep, PositionKept
  <2> QED
    BY <2>1, <2>2
<1>7. CASE RequestEvent(d)
  <2> DEFINE node == Head(requestEvents[d])
  <2>1. CASE DriverCrashes(d)
    BY <2>1, CrashIsPositionStep
  <2>2. CASE HearRequested(d, node)
    BY <2>2 DEF HearRequested, dropRequestEvent, PositionStep, PositionKept
  <2>3. CASE HearAcceptedOrConfirmed(d, node)
    BY <2>3 DEF HearAcceptedOrConfirmed, dropRequestEvent, PositionStep, PositionKept
  <2>4. CASE HearRiderCancelled(d, node)
    BY <2>4 DEF HearRiderCancelled, dropRequestEvent, PositionStep, PositionKept
  <2>5. CASE HearCancelled(d, node)
    BY <2>5 DEF HearCancelled, dropRequestEvent, PositionStep, PositionKept
  <2>6. CASE HearNothingNew(d, node)
    BY <2>6 DEF HearNothingNew, dropRequestEvent, PositionStep, PositionKept
  <2> QED
    BY <1>7, <2>1, <2>2, <2>3, <2>4, <2>5, <2>6 DEF RequestEvent
<1>8. ASSUME NEW r \in Riders, NEW outcome \in DetailsOutcomes, DetailsFetched(d, r, outcome)
      PROVE  PositionStep(e)
  BY <1>8 DEF DetailsFetched, dbVars, PositionStep, PositionKept
<1>9. ASSUME NEW found \in RoutingOutcomes, TimeFetched(d, found)
      PROVE  PositionStep(e)
  BY <1>9 DEF TimeFetched, dbVars, PositionStep, PositionKept
<1>10. ASSUME NEW found \in RoutingOutcomes, DistanceFetched(d, found)
       PROVE  PositionStep(e)
  <2>1. CASE DriverCrashes(d)
    BY <2>1, CrashIsPositionStep
  <2>2. CASE ~DriverCrashes(d)
    BY <1>10, <2>2 DEF DistanceFetched, dbVars, PositionStep, PositionKept
  <2> QED
    BY <2>1, <2>2
<1>11. ASSUME NEW p \in Riders, AcceptRouteReady(d, p) \/ AcceptRouteFails(d, p)
       PROVE  PositionStep(e)
  <2>1. DriverLocations' = DriverLocations
    BY <1>11 DEF AcceptRouteReady, AcceptRouteFails, dbVars
  <2>2. /\ driver'[e].app = driver[e].app
        /\ driver'[e].navigating = driver[e].navigating
    <3>1. CASE AcceptRouteReady(d, p)
      BY <3>1 DEF AcceptRouteReady
    <3>2. CASE AcceptRouteFails(d, p)
      BY <3>2 DEF AcceptRouteFails
    <3> QED
      BY <1>11, <3>1, <3>2
  <2> QED
    BY <2>1, <2>2 DEF PositionStep, PositionKept
<1>12. CASE QuitDriverApp(d)
  BY <1>12, EndIsPositionStep DEF QuitDriverApp
<1>13. CASE LaunchDriverApp(d)
  BY <1>13 DEF LaunchDriverApp
<1> QED
  BY <1>1, <1>2, <1>3, <1>4, <1>5, <1>6, <1>7, <1>8, <1>9, <1>10, <1>11, <1>12, <1>13
     DEF DriverStep, DriverCallbacks

(* In the first life of an app no position outlives the navigation that    *)
(* reported it: navigationViewControllerDidDismiss takes it, the calls     *)
(* that end later do not bring it back, and only a launch after a crash    *)
(* would find one.                                                         *)
THEOREM PositionEndsWithNavigation ==
  ASSUME "launch" \notin DriverLifecycle
  PROVE  DriverSpec => []NoPositionAfterNavigation
<1>1. DriverInit => NoPositionAfterNavigation
  BY DEF DriverInit, DatabaseInit, NoPositionAfterNavigation
<1>2. DriverTypeOK /\ DriverTypeOK' /\ NoPositionAfterNavigation /\ [DriverNext]_driverVars
        => NoPositionAfterNavigation'
  <2> SUFFICES ASSUME DriverTypeOK, DriverTypeOK', NoPositionAfterNavigation,
                      [DriverNext]_driverVars,
                      NEW e \in DriverLocations', driver'[e].app = "running"
               PROVE  driver'[e].navigating
    BY DEF NoPositionAfterNavigation, Running
  <2>1. e \in Drivers
    BY DEF DriverTypeOK, DatabaseTypeOK
  <2>2. CASE PositionStep(e)
    BY <2>2 DEF PositionStep, PositionKept, NoPositionAfterNavigation, Running
  <2>3. ASSUME NEW d \in Drivers, DriverStep(d)
        PROVE  PositionStep(e)
    BY <2>1, <2>3, DriverStepIsPositionStep
  <2>4. ASSUME NEW d \in Drivers, RiderSide(d)
        PROVE  PositionKept(e)
    BY <2>4 DEF RiderSide, AnyRiderWritesRequest, AnyRiderRequests, AnyRiderRemovesAnswer,
       PositionKept
  <2>5. CASE UNCHANGED driverVars
    BY <2>5 DEF driverVars, dbVars, NoPositionAfterNavigation, Running
  <2> QED
    BY <2>2, <2>3, <2>4, <2>5 DEF DriverNext, PositionStep
<1> QED
  BY <1>1, <1>2, DriverTypeCorrect, PTL DEF DriverSpec

-----------------------------------------------------------------------------
(***************************************************************************)
(* A driver serves nobody who did not ask it, for any drivers, riders and  *)
(* outcomes.  The invariant follows a rider's identity through every place *)
(* a driver's app, its node and its queue can hold it: no step of the app  *)
(* puts in one of them an identity that was in none of them before.        *)
(***************************************************************************)
RidersIn(events) == {events[i].rider : i \in 1..Len(events)}

HeldRiders(d) ==
  {NoRider, RouteRequests[d].rider, driver[d].riderID, driver[d].request.rider,
   driver[d].route}
  \union RidersIn(requestEvents[d])
  \union ({DriverRoutes[d]} \ {NoRoute})
  \union {p \in Riders : driver[d].calls.accept[p] > 0}

AskersOf(d) == {r \in Riders : <<r, d>> \in asked} \union {NoRider}

(* Answers went to askers, and drivers hold askers only. *)
AskersInvariant ==
  /\ \A r \in Riders : RideAccepts[r] # NoAnswer => <<r, RideAccepts[r].driver>> \in asked
  /\ \A d \in Drivers : HeldRiders(d) \subseteq AskersOf(d)

(* What a step of driver d does: it holds no one new, and answers only the *)
(* rider of the last snapshot.                                             *)
HoldsNoOneNew(e) == HeldRiders(e)' \subseteq HeldRiders(e)

AnswersLastHeard(d) ==
  \A r \in Riders :
    \/ RideAccepts'[r] = RideAccepts[r]
    \/ r = driver[d].riderID /\ RideAccepts'[r].driver = d

AskerStep(d) ==
  /\ \A e \in Drivers : HoldsNoOneNew(e)
  /\ AnswersLastHeard(d)
  /\ asked' = asked

-----------------------------------------------------------------------------
(* Queues. *)

LEMMA RidersInSnapshots ==
  ASSUME NEW events \in Seq(RequestNode), NEW n \in Nat, NEW node \in RequestNode
  PROVE  RidersIn(events \o RequestSnapshots(n, node)) \subseteq RidersIn(events) \union {node.rider}
<1> DEFINE added == RequestSnapshots(n, node)
<1>1. added \in Seq(RequestNode)
  BY RequestSnapshotsType
<1>2. \A i \in 1..Len(added) : added[i] = node
  <2>1. added = <<>> \/ added = [i \in 1..n |-> node]
    BY DEF RequestSnapshots
  <2>2. CASE added = <<>>
    BY <2>2
  <2>3. CASE added = [i \in 1..n |-> node]
    <3>1. DOMAIN added = 1..n
      BY <2>3
    <3>2. DOMAIN added = 1..Len(added)
      BY <1>1
    <3> QED
      BY <2>3, <3>1, <3>2
  <2> QED
    BY <2>1, <2>2, <2>3
<1> HIDE DEF added
<1>3. Len(events) \in Nat /\ Len(added) \in Nat /\ Len(events \o added) = Len(events) + Len(added)
  BY <1>1
<1>4. ASSUME NEW i \in 1..Len(events \o added)
      PROVE  (events \o added)[i].rider \in RidersIn(events) \union {node.rider}
  <2>1. CASE i <= Len(events)
    <3>1. i \in 1..Len(events) /\ (events \o added)[i] = events[i]
      BY <1>1, <1>3, <1>4, <2>1
    <3> QED
      BY <3>1 DEF RidersIn
  <2>2. CASE i > Len(events)
    <3>1. i - Len(events) \in 1..Len(added) /\ (events \o added)[i] = added[i - Len(events)]
      BY <1>1, <1>3, <1>4, <2>2
    <3> QED
      BY <1>2, <3>1
  <2>3. i \in Nat
    BY <1>3, <1>4
  <2> QED
    BY <1>3, <2>1, <2>2, <2>3
<1> QED
  BY <1>4 DEF RidersIn, added

LEMMA RidersInTail ==
  ASSUME NEW events \in Seq(RequestNode), events # <<>>
  PROVE  /\ RidersIn(Tail(events)) \subseteq RidersIn(events)
         /\ Head(events).rider \in RidersIn(events)
<1>1. Len(events) \in Nat /\ Len(events) > 0 /\ Len(Tail(events)) = Len(events) - 1
  OBVIOUS
<1>2. ASSUME NEW i \in 1..Len(Tail(events))
      PROVE  Tail(events)[i].rider \in RidersIn(events)
  <2>1. i + 1 \in 1..Len(events) /\ Tail(events)[i] = events[i + 1]
    BY <1>1, <1>2
  <2> QED
    BY <2>1 DEF RidersIn
<1>3. Head(events) = events[1] /\ 1 \in 1..Len(events)
  BY <1>1
<1> QED
  BY <1>2, <1>3 DEF RidersIn

-----------------------------------------------------------------------------
(* The parts of HeldRiders, after a step. *)

AppHolds(d) ==
  /\ {driver'[d].riderID, driver'[d].request.rider, driver'[d].route} \subseteq HeldRiders(d)
  /\ \A p \in Riders : driver'[d].calls.accept[p] > 0 => p \in HeldRiders(d)

NodeHolds(d) ==
  /\ RouteRequests'[d].rider \in HeldRiders(d)
  /\ RidersIn(requestEvents'[d]) \subseteq HeldRiders(d)

RouteHolds(d) == DriverRoutes'[d] \in HeldRiders(d) \union {NoRoute}

AppKept(d) ==
  /\ driver'[d].original = driver[d].original
  /\ driver'[d].riderID = driver[d].riderID
  /\ driver'[d].request.rider = driver[d].request.rider
  /\ driver'[d].route = driver[d].route
  /\ driver'[d].calls.accept = driver[d].calls.accept

OthersKept(d) ==
  \A e \in Drivers \ {d} :
    /\ driver'[e] = driver[e]
    /\ RouteRequests'[e] = RouteRequests[e]
    /\ requestEvents'[e] = requestEvents[e]
    /\ DriverRoutes'[e] = DriverRoutes[e]

LEMMA HoldsByParts ==
  ASSUME NEW d \in Drivers, AppHolds(d), NodeHolds(d), RouteHolds(d), OthersKept(d),
         AnswersLastHeard(d), asked' = asked
  PROVE  AskerStep(d)
<1>1. HoldsNoOneNew(d)
  BY DEF HoldsNoOneNew, AppHolds, NodeHolds, RouteHolds, HeldRiders
<1>2. ASSUME NEW e \in Drivers \ {d}
      PROVE  HoldsNoOneNew(e)
  BY <1>2 DEF OthersKept, HoldsNoOneNew, HeldRiders
<1> QED
  BY <1>1, <1>2 DEF AskerStep

LEMMA KeptIsHeld ==
  ASSUME NEW d \in Drivers
  PROVE  /\ AppKept(d) => AppHolds(d)
         /\ (UNCHANGED <<RouteRequests, requestEvents>>) => NodeHolds(d)
         /\ UNCHANGED DriverRoutes => RouteHolds(d)
         /\ UNCHANGED RideAccepts => AnswersLastHeard(d)
BY DEF AppKept, AppHolds, NodeHolds, RouteHolds, AnswersLastHeard, HeldRiders

LEMMA WriteHolds ==
  ASSUME DatabaseTypeOK, NEW d \in Drivers, NEW node \in RequestNode,
         node.rider \in HeldRiders(d), WriteRequest(d, node)
  PROVE  /\ NodeHolds(d)
         /\ \A e \in Drivers \ {d} : /\ RouteRequests'[e] = RouteRequests[e]
                                     /\ requestEvents'[e] = requestEvents[e]
<1> DEFINE events == requestEvents[d]
           added == RequestSnapshots(requestObservers[d], node)
<1>1. RouteRequests'[d] = node
  BY DEF WriteRequest, DatabaseTypeOK
<1>2. requestEvents'[d] \in {events, events \o added}
  BY DEF WriteRequest, DatabaseTypeOK
<1>3. RidersIn(events \o added) \subseteq RidersIn(events) \union {node.rider}
  BY RidersInSnapshots DEF DatabaseTypeOK
<1>4. RidersIn(events) \subseteq HeldRiders(d)
  BY DEF HeldRiders
<1>5. NodeHolds(d)
  BY <1>1, <1>2, <1>3, <1>4 DEF NodeHolds
<1> QED
  BY <1>5 DEF WriteRequest, DatabaseTypeOK

LEMMA StatusKeepsRider ==
  ASSUME NEW node \in RequestNode, NEW s \in CarpoolRequestStatus
  PROVE  WithStatus(node, s) \in RequestNode /\ WithStatus(node, s).rider = node.rider
<1>1. WithStatus(node, s) \in RequestNode
  BY NodesAreTyped
<1>2. [node EXCEPT !.status = s].rider = node.rider
  BY DEF RequestNode
<1> QED
  BY <1>1, <1>2 DEF WithStatus

LEMMA MarkAndDeleteHolds ==
  ASSUME DatabaseTypeOK, NEW d \in Drivers, markAndDeleteRouteRequest(d)
  PROVE  /\ NodeHolds(d)
         /\ \A e \in Drivers \ {d} : /\ RouteRequests'[e] = RouteRequests[e]
                                     /\ requestEvents'[e] = requestEvents[e]
<1> DEFINE node == WithStatus(RouteRequests[d], "deleted")
           added == RequestSnapshots(requestObservers[d], node)
<1>1. node \in RequestNode /\ node.rider = RouteRequests[d].rider
  BY StatusKeepsRider DEF DatabaseTypeOK, CarpoolRequestStatus
<1>2. requestEvents'[d] = requestEvents[d] \o added
  BY DEF markAndDeleteRouteRequest, DatabaseTypeOK
<1>3. RidersIn(requestEvents[d] \o added) \subseteq RidersIn(requestEvents[d]) \union {node.rider}
  BY <1>1, RidersInSnapshots DEF DatabaseTypeOK
<1>4. RouteRequests'[d].rider = NoRider
  BY DEF markAndDeleteRouteRequest, DatabaseTypeOK, NoRequest
<1>5. NodeHolds(d)
  BY <1>1, <1>2, <1>3, <1>4 DEF NodeHolds, HeldRiders
<1> QED
  BY <1>5 DEF markAndDeleteRouteRequest, DatabaseTypeOK

LEMMA AnswerHolds ==
  ASSUME DatabaseTypeOK, NEW d \in Drivers, NEW s, setRideAccept(d, driver[d].riderID, s)
  PROVE  AnswersLastHeard(d)
BY DEF setRideAccept, DatabaseTypeOK, AnswersLastHeard

-----------------------------------------------------------------------------
(* Every step of a driver's app is such a step. *)

LEMMA EndIsAskerStep ==
  ASSUME DriverTypeOK, NEW d \in Drivers, NEW how, EndDriverApp(d, how)
  PROVE  AskerStep(d)
<1>1. AppHolds(d)
  <2>1. driver'[d] = FreshMemory(how)
    BY DEF EndDriverApp, DriverTypeOK
  <2>2. /\ driver'[d].riderID = NoRider /\ driver'[d].route = NoRider
        /\ driver'[d].request.rider = NoRider
    BY <2>1 DEF FreshMemory, NoCarpoolRequest
  <2>3. driver'[d].calls.accept = [r \in Riders |-> 0]
    BY <2>1 DEF FreshMemory
  <2>4. \A p \in Riders : ~(driver'[d].calls.accept[p] > 0)
    BY <2>3
  <2> QED
    BY <2>2, <2>4 DEF AppHolds, HeldRiders
<1>2. NodeHolds(d)
  <2>1. requestEvents'[d] = <<>> /\ RouteRequests' = RouteRequests
    BY DEF EndDriverApp, dropRequestObservers, DriverTypeOK, DatabaseTypeOK
  <2>2. RidersIn(<<>>) = {}
    BY DEF RidersIn
  <2> QED
    BY <2>1, <2>2 DEF NodeHolds, HeldRiders
<1>3. OthersKept(d)
  BY DEF EndDriverApp, dropRequestObservers, OthersKept, DriverTypeOK, DatabaseTypeOK
<1> QED
  BY <1>1, <1>2, <1>3, KeptIsHeld, HoldsByParts DEF EndDriverApp

LEMMA NavigationIsAskerStep ==
  ASSUME DriverTypeOK, NEW d \in Drivers,
         \/ StartCarpool(d) \/ DismissNavigation(d)
         \/ \E lastMinute \in BOOLEAN : NavigationProgress(d, lastMinute)
         \/ ArriveAtPickUp(d) \/ QuitDriverApp(d) \/ LaunchDriverApp(d)
  PROVE  AskerStep(d)
<1>1. CASE StartCarpool(d)
  <2>1. AppHolds(d) /\ RouteHolds(d)
    BY <1>1 DEF StartCarpool, setRoute, AppHolds, RouteHolds, HeldRiders, DriverTypeOK,
       DatabaseTypeOK, DriverMemory
  <2>2. NodeHolds(d)
    <3>1. requestEvents'[d] = requestEvents[d] \o RequestSnapshots(1, RouteRequests[d])
      BY <1>1 DEF StartCarpool, observeCarpoolRequestForMyDriverID, DriverTypeOK, DatabaseTypeOK
    <3>2. RidersIn(requestEvents'[d]) \subseteq RidersIn(requestEvents[d])
                                                  \union {RouteRequests[d].rider}
      BY <3>1, RidersInSnapshots DEF DriverTypeOK, DatabaseTypeOK
    <3> QED
      BY <1>1, <3>2 DEF StartCarpool, NodeHolds, HeldRiders
  <2>3. OthersKept(d)
    BY <1>1 DEF StartCarpool, setRoute, observeCarpoolRequestForMyDriverID, OthersKept,
       DriverTypeOK, DatabaseTypeOK
  <2> QED
    BY <1>1, <2>1, <2>2, <2>3, KeptIsHeld, HoldsByParts DEF StartCarpool
<1>2. CASE DismissNavigation(d)
  <2>1. AppKept(d)
    BY <1>2 DEF DismissNavigation, AppKept, DriverTypeOK, DriverMemory
  <2>2. RouteHolds(d) /\ OthersKept(d)
    BY <1>2 DEF DismissNavigation, removeRoute, RouteHolds, OthersKept, DriverTypeOK,
       DatabaseTypeOK
  <2> QED
    BY <1>2, <2>1, <2>2, KeptIsHeld, HoldsByParts DEF DismissNavigation
<1>3. ASSUME NEW lastMinute \in BOOLEAN, NavigationProgress(d, lastMinute)
      PROVE  AskerStep(d)
  <2>1. AppKept(d) /\ OthersKept(d)
    BY <1>3 DEF NavigationProgress, AppKept, OthersKept, DriverTypeOK, DriverMemory
  <2> QED
    BY <1>3, <2>1, KeptIsHeld, HoldsByParts DEF NavigationProgress
<1>4. CASE ArriveAtPickUp(d)
  BY <1>4, EndIsAskerStep DEF ArriveAtPickUp, DriverCrashes
<1>5. CASE QuitDriverApp(d)
  BY <1>5, EndIsAskerStep DEF QuitDriverApp
<1>6. CASE LaunchDriverApp(d)
  <2>1. AppKept(d) /\ OthersKept(d) /\ UNCHANGED dbVars
    BY <1>6 DEF LaunchDriverApp, dbVars, AppKept, OthersKept, DriverTypeOK, DriverMemory
  <2> QED
    BY <2>1, KeptIsHeld, HoldsByParts DEF dbVars
<1> QED
  BY <1>1, <1>2, <1>3, <1>4, <1>5, <1>6

LEMMA RejectIsAskerStep ==
  ASSUME DriverTypeOK, NEW d \in Drivers, TapReject(d) \/ TapCancelOnBadge(d)
  PROVE  AskerStep(d)
<1>1. rejectCarpoolRequest(d)
  BY DEF TapReject, TapCancelOnBadge
<1>2. /\ driver'[d].riderID = driver[d].riderID
      /\ driver'[d].request = driver[d].request
      /\ driver'[d].calls = driver[d].calls
      /\ driver'[d].route = NavigatedAfterReset(d)
      /\ \A e \in Drivers \ {d} : driver'[e] = driver[e]
  BY DEF TapReject, TapCancelOnBadge, DriverTypeOK, DriverMemory
<1>3. AppHolds(d)
  BY <1>2 DEF NavigatedAfterReset, AppHolds, HeldRiders
<1>4. RouteHolds(d) /\ \A e \in Drivers \ {d} : DriverRoutes'[e] = DriverRoutes[e]
  BY <1>1 DEF rejectCarpoolRequest, PublishedAfterReset, RouteHolds, HeldRiders, DriverTypeOK,
     DatabaseTypeOK
<1>5. /\ NodeHolds(d) /\ AnswersLastHeard(d)
      /\ \A e \in Drivers \ {d} : /\ RouteRequests'[e] = RouteRequests[e]
                                  /\ requestEvents'[e] = requestEvents[e]
  <2>1. CASE driver[d].riderID = NoRider
    BY <1>1, <2>1, KeptIsHeld DEF rejectCarpoolRequest
  <2>2. CASE driver[d].riderID # NoRider
    <3>1. setRideAccept(d, driver[d].riderID, "rejected") /\ markAndDeleteRouteRequest(d)
      BY <1>1, <2>2 DEF rejectCarpoolRequest
    <3> QED
      BY <3>1, AnswerHolds, MarkAndDeleteHolds DEF DriverTypeOK
  <2> QED
    BY <2>1, <2>2
<1>6. OthersKept(d)
  BY <1>2, <1>4, <1>5 DEF OthersKept
<1> QED
  BY <1>1, <1>3, <1>4, <1>5, <1>6, HoldsByParts DEF rejectCarpoolRequest

LEMMA AcceptIsAskerStep ==
  ASSUME DriverTypeOK, NEW d \in Drivers,
         \/ TapAccept(d)
         \/ \E p \in Riders : AcceptRouteReady(d, p) \/ AcceptRouteFails(d, p)
  PROVE  AskerStep(d)
<1>1. /\ driver[d] \in DriverMemory
      /\ driver[d].calls \in DriverCalls
      /\ driver[d].calls.accept \in [Riders -> Nat]
  BY DEF DriverTypeOK, DriverMemory, DriverCalls
<1>2. CASE TapAccept(d)
  <2>1. CASE DriverCrashes(d)
    BY <2>1, EndIsAskerStep DEF DriverCrashes
  <2>2. CASE ~DriverCrashes(d)
    <3> DEFINE q == driver[d].request.rider
    <3>1. /\ driver'[d] = [driver[d] EXCEPT !.calls.accept[q] = @ + 1,
                                            !.badge = "pickUp", !.alert = Dismissed(@)]
          /\ \A e \in Drivers \ {d} : driver'[e] = driver[e]
          /\ UNCHANGED dbVars
      BY <1>2, <2>2 DEF TapAccept, DriverTypeOK
    <3>2. /\ driver'[d].riderID = driver[d].riderID
          /\ driver'[d].request = driver[d].request
          /\ driver'[d].route = driver[d].route
          /\ driver'[d].calls.accept = [driver[d].calls.accept EXCEPT ![q] = @ + 1]
      BY <1>1, <3>1 DEF DriverMemory, DriverCalls
    <3>3. \A p \in Riders : driver'[d].calls.accept[p] > 0
                              => p = q \/ driver[d].calls.accept[p] > 0
      BY <1>1, <3>2
    <3>4. AppHolds(d)
      BY <3>2, <3>3 DEF AppHolds, HeldRiders
    <3>5. OthersKept(d)
      BY <3>1 DEF OthersKept, dbVars
    <3> QED
      BY <3>1, <3>4, <3>5, KeptIsHeld, HoldsByParts DEF dbVars
  <2> QED
    BY <2>1, <2>2
<1>3. ASSUME NEW p \in Riders, AcceptRouteReady(d, p) \/ AcceptRouteFails(d, p)
      PROVE  AskerStep(d)
  <2>1. /\ driver'[d].riderID = driver[d].riderID
        /\ driver'[d].request = driver[d].request
        /\ driver'[d].route \in {driver[d].route, p}
        /\ driver'[d].calls.accept = [driver[d].calls.accept EXCEPT ![p] = @ - 1]
        /\ driver[d].calls.accept[p] > 0
        /\ \A e \in Drivers \ {d} : driver'[e] = driver[e]
    <3>1. CASE AcceptRouteReady(d, p)
      BY <1>1, <3>1 DEF AcceptRouteReady, DriverTypeOK, DriverMemory, DriverCalls
    <3>2. CASE AcceptRouteFails(d, p)
      BY <1>1, <3>2 DEF AcceptRouteFails, DriverTypeOK, DriverMemory, DriverCalls
    <3> QED
      BY <1>3, <3>1, <3>2
  <2>2. p \in HeldRiders(d)
    BY <2>1 DEF HeldRiders
  <2>3. \A x \in Riders : driver'[d].calls.accept[x] > 0 => driver[d].calls.accept[x] > 0
    BY <1>1, <2>1
  <2>4. AppHolds(d)
    BY <2>1, <2>2, <2>3 DEF AppHolds, HeldRiders
  <2>5. CASE AcceptRouteFails(d, p)
    <3>1. UNCHANGED dbVars
      BY <2>5 DEF AcceptRouteFails
    <3>2. OthersKept(d)
      BY <2>1, <3>1 DEF OthersKept, dbVars
    <3> QED
      BY <2>4, <3>1, <3>2, KeptIsHeld, HoldsByParts DEF dbVars
  <2>6. CASE AcceptRouteReady(d, p)
    <3>1. /\ setRideAccept(d, driver[d].riderID, "accepted")
          /\ setRouteRequest(d, "accepted")
          /\ DriverRoutes' = [DriverRoutes EXCEPT ![d] = p]
          /\ asked' = asked
      BY <2>6 DEF AcceptRouteReady, setRoute
    <3> DEFINE node == WithStatus(RouteRequests[d], "accepted")
    <3>2. node \in RequestNode /\ node.rider = RouteRequests[d].rider
      BY StatusKeepsRider DEF DriverTypeOK, DatabaseTypeOK, CarpoolRequestStatus
    <3>3. node.rider \in HeldRiders(d)
      BY <3>2 DEF HeldRiders
    <3>4. WriteRequest(d, node)
      BY <3>1 DEF setRouteRequest
    <3> HIDE DEF node
    <3>5. /\ NodeHolds(d)
          /\ \A e \in Drivers \ {d} : /\ RouteRequests'[e] = RouteRequests[e]
                                      /\ requestEvents'[e] = requestEvents[e]
      BY <3>2, <3>3, <3>4, WriteHolds DEF DriverTypeOK
    <3>6. AnswersLastHeard(d)
      BY <3>1, AnswerHolds DEF DriverTypeOK
    <3>7. RouteHolds(d) /\ \A e \in Drivers \ {d} : DriverRoutes'[e] = DriverRoutes[e]
      BY <2>2, <3>1 DEF RouteHolds, DriverTypeOK, DatabaseTypeOK
    <3>8. OthersKept(d)
      BY <2>1, <3>5, <3>7 DEF OthersKept
    <3> QED
      BY <2>4, <3>1, <3>5, <3>6, <3>7, <3>8, HoldsByParts
  <2> QED
    BY <1>3, <2>5, <2>6
<1> QED
  BY <1>2, <1>3

LEMMA RequestEventIsAskerStep ==
  ASSUME DriverTypeOK, NEW d \in Drivers, RequestEvent(d)
  PROVE  AskerStep(d)
<1> DEFINE node == Head(requestEvents[d])
<1>1. requestEvents[d] # <<>> /\ requestEvents[d] \in Seq(RequestNode)
  BY DEF RequestEvent, DriverTypeOK, DatabaseTypeOK
<1>2. node.rider \in HeldRiders(d) /\ RidersIn(Tail(requestEvents[d])) \subseteq HeldRiders(d)
  BY <1>1, RidersInTail DEF HeldRiders
<1>3. driver[d] \in DriverMemory /\ driver[d].calls \in DriverCalls
  BY DEF DriverTypeOK, DriverMemory
<1> HIDE DEF node
<1>4. CASE DriverCrashes(d)
  BY <1>4, EndIsAskerStep DEF DriverCrashes
<1>5. CASE \/ HearRequested(d, node) \/ HearAcceptedOrConfirmed(d, node)
           \/ HearRiderCancelled(d, node) \/ HearCancelled(d, node)
           \/ HearNothingNew(d, node)
  <2>1. /\ dropRequestEvent(d)
        /\ \/ DriverRoutes' = DriverRoutes
           \/ DriverRoutes' = PublishedAfterReset(d)
        /\ \A e \in Drivers \ {d} : driver'[e] = driver[e]
    BY <1>5 DEF HearRequested, HearAcceptedOrConfirmed, HearRiderCancelled, HearCancelled,
       HearNothingNew, DriverTypeOK
  <2>2. /\ driver'[d].riderID = node.rider
        /\ driver'[d].request.rider \in {driver[d].request.rider, node.rider}
        /\ driver'[d].route \in {driver[d].route, NoRider}
        /\ driver'[d].calls.accept = driver[d].calls.accept
    <3>1. CASE HearRequested(d, node)
      <4>1. driver'[d] = [driver[d] EXCEPT !.riderID = node.rider,
                                           !.request = NewCarpoolRequest(node),
                                           !.calls.details[node.rider] = @ + 1]
        BY <3>1 DEF HearRequested, DriverTypeOK
      <4>2. driver'[d].calls.accept = driver[d].calls.accept
        BY <1>3, <4>1 DEF DriverMemory, DriverCalls
      <4>3. driver'[d].request = NewCarpoolRequest(node) /\ driver'[d].riderID = node.rider
            /\ driver'[d].route = driver[d].route
        BY <1>3, <4>1 DEF DriverMemory
      <4> QED
        BY <4>2, <4>3 DEF NewCarpoolRequest, NoCarpoolRequest
    <3>2. CASE HearAcceptedOrConfirmed(d, node)
      <4>1. driver'[d] = [driver[d] EXCEPT !.riderID = node.rider,
                                           !.request.status = node.status]
        BY <3>2 DEF HearAcceptedOrConfirmed, DriverTypeOK
      <4> QED
        BY <1>3, <4>1 DEF DriverMemory, S1CCarpoolRequest
    <3>3. CASE HearRiderCancelled(d, node)
      <4>1. driver'[d] = [driver[d] EXCEPT !.riderID = node.rider,
                                           !.request = NewCarpoolRequest(node),
                                           !.route = NavigatedAfterReset(d),
                                           !.badge = "notice",
                                           !.alert = Dismissed(@)]
        BY <3>3 DEF HearRiderCancelled, DriverTypeOK
      <4>2. /\ driver'[d].riderID = node.rider
            /\ driver'[d].request = NewCarpoolRequest(node)
            /\ driver'[d].route = NavigatedAfterReset(d)
            /\ driver'[d].calls = driver[d].calls
        BY <1>3, <4>1 DEF DriverMemory
      <4> QED
        BY <4>2 DEF NewCarpoolRequest, NoCarpoolRequest, NavigatedAfterReset
    <3>4. CASE HearCancelled(d, node) \/ HearNothingNew(d, node)
      BY <1>3, <3>4 DEF HearCancelled, HearNothingNew, DriverTypeOK, DriverMemory
    <3> QED
      BY <1>5, <3>1, <3>2, <3>3, <3>4
  <2>3. AppHolds(d)
    BY <1>2, <2>2 DEF AppHolds, HeldRiders
  <2>4. requestEvents' = [requestEvents EXCEPT ![d] = Tail(@)] /\ RouteRequests' = RouteRequests
    BY <2>1 DEF dropRequestEvent
  <2>5. NodeHolds(d)
    BY <1>2, <2>4 DEF NodeHolds, HeldRiders, DriverTypeOK, DatabaseTypeOK
  <2>6. RouteHolds(d) /\ \A e \in Drivers \ {d} : DriverRoutes'[e] = DriverRoutes[e]
    BY <2>1 DEF PublishedAfterReset, RouteHolds, HeldRiders, DriverTypeOK, DatabaseTypeOK
  <2>7. OthersKept(d)
    BY <2>1, <2>4, <2>6 DEF OthersKept, DriverTypeOK, DatabaseTypeOK
  <2> QED
    BY <2>1, <2>3, <2>5, <2>6, <2>7, KeptIsHeld, HoldsByParts DEF dropRequestEvent
<1> QED
  BY <1>4, <1>5 DEF RequestEvent, node

(* The chain of calls leaves alone what the app knows of its rider. *)
LEMMA PreparationKeepsApp ==
  ASSUME DriverTypeOK, NEW d \in Drivers,
         \/ \E r \in Riders, outcome \in DetailsOutcomes : DetailsFetched(d, r, outcome)
         \/ \E found \in RoutingOutcomes : TimeFetched(d, found)
         \/ \E found \in RoutingOutcomes : DistanceFetched(d, found),
         ~DriverCrashes(d)
  PROVE  AppKept(d)
<1>1. /\ driver[d] \in DriverMemory
      /\ driver[d].calls \in DriverCalls
      /\ driver[d].request \in S1CCarpoolRequest
  BY DEF DriverTypeOK, DriverMemory
<1>2. ASSUME NEW r \in Riders, NEW outcome \in DetailsOutcomes, DetailsFetched(d, r, outcome)
      PROVE  AppKept(d)
  <2>1. CASE outcome = "error"
    <3>1. driver'[d] = [driver[d] EXCEPT !.calls.details[r] = @ - 1]
      BY <1>2, <2>1 DEF DetailsFetched, DriverTypeOK
    <3> QED
      BY <1>1, <3>1 DEF AppKept, DriverMemory, DriverCalls
  <2>2. CASE outcome # "error"
    <3>1. driver'[d] = [driver[d] EXCEPT
                         !.calls.details[r] = @ - 1,
                         !.calls.time = @ + 1,
                         !.request.details = IF outcome = "complete" THEN r ELSE NoRider]
      BY <1>2, <2>2 DEF DetailsFetched, DriverTypeOK
    <3>2. driver'[d].calls.accept = driver[d].calls.accept
      <4> DEFINE waiting == [driver[d].calls.details EXCEPT ![r] = @ - 1]
      <4>1. driver'[d].calls =
              [driver[d].calls EXCEPT !.details = waiting, !.time = driver[d].calls.time + 1]
        BY <1>1, <3>1 DEF DriverMemory, DriverCalls
      <4> HIDE DEF waiting
      <4> QED
        BY <1>1, <4>1 DEF DriverCalls
    <3>3. driver'[d].request.rider = driver[d].request.rider
      BY <1>1, <3>1 DEF DriverMemory, S1CCarpoolRequest
    <3>4. /\ driver'[d].riderID = driver[d].riderID /\ driver'[d].route = driver[d].route
          /\ driver'[d].original = driver[d].original
      BY <1>1, <3>1 DEF DriverMemory
    <3> QED
      BY <3>2, <3>3, <3>4 DEF AppKept
  <2> QED
    BY <2>1, <2>2
<1>3. ASSUME NEW found \in RoutingOutcomes, TimeFetched(d, found)
      PROVE  AppKept(d)
  <2>1. driver'[d] = [driver[d] EXCEPT !.calls.time = @ - 1, !.calls.distance = @ + 1,
                                       !.request.time = found]
    BY <1>3 DEF TimeFetched, DriverTypeOK
  <2>2. driver'[d].calls.accept = driver[d].calls.accept
    <3>1. driver'[d].calls =
            [driver[d].calls EXCEPT !.time = driver[d].calls.time - 1,
                                    !.distance = driver[d].calls.distance + 1]
      BY <1>1, <2>1 DEF DriverMemory, DriverCalls
    <3> QED
      BY <1>1, <3>1 DEF DriverCalls
  <2>3. driver'[d].request.rider = driver[d].request.rider
    BY <1>1, <2>1 DEF DriverMemory, S1CCarpoolRequest
  <2>4. /\ driver'[d].riderID = driver[d].riderID /\ driver'[d].route = driver[d].route
        /\ driver'[d].original = driver[d].original
    BY <1>1, <2>1 DEF DriverMemory
  <2> QED
    BY <2>2, <2>3, <2>4 DEF AppKept
<1>4. ASSUME NEW found \in RoutingOutcomes, DistanceFetched(d, found)
      PROVE  AppKept(d)
  <2> DEFINE named == [state |-> "shown", names |-> driver[d].request.details]
             lost == [driver[d].alert EXCEPT !.state = "orphaned"]
  <2>1. \E alert \in {driver[d].alert, named, lost} :
          driver' = [driver EXCEPT ![d].calls.distance = @ - 1, ![d].alert = alert]
    BY <1>4 DEF DistanceFetched
  <2>2. PICK alert \in {driver[d].alert, named, lost} :
          driver' = [driver EXCEPT ![d].calls.distance = @ - 1, ![d].alert = alert]
    BY <2>1
  <2>3. driver'[d] = [driver[d] EXCEPT !.calls.distance = @ - 1, !.alert = alert]
    BY <2>2 DEF DriverTypeOK
  <2> QED
    BY <1>1, <2>3 DEF AppKept, DriverMemory, DriverCalls
<1> QED
  BY <1>2, <1>3, <1>4

LEMMA PreparationIsAskerStep ==
  ASSUME DriverTypeOK, NEW d \in Drivers,
         \/ \E r \in Riders, outcome \in DetailsOutcomes : DetailsFetched(d, r, outcome)
         \/ \E found \in RoutingOutcomes : TimeFetched(d, found)
         \/ \E found \in RoutingOutcomes : DistanceFetched(d, found)
  PROVE  AskerStep(d)
<1>1. CASE DriverCrashes(d)
  BY <1>1, EndIsAskerStep DEF DriverCrashes
<1>2. CASE ~DriverCrashes(d)
  <2>1. UNCHANGED dbVars /\ \A e \in Drivers \ {d} : driver'[e] = driver[e]
    BY <1>2 DEF DetailsFetched, TimeFetched, DistanceFetched, DriverTypeOK
  <2>2. AppKept(d)
    BY <1>2, PreparationKeepsApp
  <2>3. OthersKept(d)
    BY <2>1 DEF OthersKept, dbVars
  <2> QED
    BY <2>1, <2>2, <2>3, KeptIsHeld, HoldsByParts DEF dbVars
<1> QED
  BY <1>1, <1>2

-----------------------------------------------------------------------------
(* The invariant. *)

LEMMA DriverStepServesAskers ==
  ASSUME DriverTypeOK, AskersInvariant, NEW d \in Drivers, DriverStep(d)
  PROVE  AskersInvariant'
<1>1. AskerStep(d)
  BY NavigationIsAskerStep, RejectIsAskerStep, AcceptIsAskerStep, RequestEventIsAskerStep,
     PreparationIsAskerStep DEF DriverStep, DriverCallbacks
<1>2. driver[d].riderID \in AskersOf(d)
  BY DEF AskersInvariant, HeldRiders
<1>3. ASSUME NEW r \in Riders, RideAccepts'[r] # NoAnswer
      PROVE  <<r, RideAccepts'[r].driver>> \in asked'
  <2>1. CASE RideAccepts'[r] = RideAccepts[r]
    BY <1>1, <1>3, <2>1 DEF AskersInvariant, AskerStep
  <2>2. CASE r = driver[d].riderID /\ RideAccepts'[r].driver = d
    BY <1>1, <1>2, <2>2, IdentityAssumption DEF AskersOf, AskerStep
  <2> QED
    BY <1>1, <2>1, <2>2 DEF AskerStep, AnswersLastHeard
<1>4. ASSUME NEW e \in Drivers
      PROVE  HeldRiders(e)' \subseteq AskersOf(e)'
  <2>1. HeldRiders(e) \subseteq AskersOf(e) /\ HeldRiders(e)' \subseteq HeldRiders(e)
    BY <1>1 DEF AskersInvariant, AskerStep, HoldsNoOneNew
  <2>2. AskersOf(e)' = AskersOf(e)
    BY <1>1 DEF AskerStep, AskersOf
  <2> QED
    BY <2>1, <2>2
<1> QED
  BY <1>3, <1>4 DEF AskersInvariant

(* What riders write at driver d, to its node or of its answers. *)
RidersWriteAt(d) ==
  /\ UNCHANGED <<driver, DriverRoutes>>
  /\ \/ \E r \in Riders : requestCarpool(r, d) /\ UNCHANGED RideAccepts
     \/ /\ removeRouteRequest(d) \/ \E s \in CarpoolRequestStatus : setRouteRequest(d, s)
        /\ UNCHANGED <<RideAccepts, asked>>
     \/ /\ \E r \in Riders : removeRideAccept(r, d)
        /\ UNCHANGED <<RouteRequests, requestEvents, asked>>

(* A rider that enters a driver's node has asked that driver. *)
LEMMA RidersWritesServeAskers ==
  ASSUME DriverTypeOK, AskersInvariant, NEW d \in Drivers, RidersWriteAt(d)
  PROVE  AskersInvariant'
<1> DEFINE InNode(e) == {RouteRequests[e].rider} \union RidersIn(requestEvents[e])
<1>1. UNCHANGED <<driver, DriverRoutes>>
  BY DEF RidersWriteAt
<1>2. asked \subseteq asked'
  BY DEF RidersWriteAt, requestCarpool
<1>3. \A r \in Riders : RideAccepts'[r] \in {RideAccepts[r], NoAnswer}
  BY DEF RidersWriteAt, removeRideAccept, DriverTypeOK, DatabaseTypeOK
<1>4. ASSUME NEW node \in RequestNode, node.rider \in AskersOf(d)', WriteRequest(d, node)
      PROVE  \A e \in Drivers : InNode(e)' \subseteq InNode(e) \union AskersOf(e)'
  <2>1. RouteRequests'[d] = node
    BY <1>4 DEF WriteRequest, DriverTypeOK, DatabaseTypeOK
  <2>2. RidersIn(requestEvents'[d]) \subseteq RidersIn(requestEvents[d]) \union {node.rider}
    <3>1. RidersIn(requestEvents[d] \o RequestSnapshots(requestObservers[d], node))
            \subseteq RidersIn(requestEvents[d]) \union {node.rider}
      BY RidersInSnapshots DEF DriverTypeOK, DatabaseTypeOK
    <3>2. requestEvents'[d] \in
            {requestEvents[d],
             requestEvents[d] \o RequestSnapshots(requestObservers[d], node)}
      BY <1>4 DEF WriteRequest, DriverTypeOK, DatabaseTypeOK
    <3> QED
      BY <3>1, <3>2
  <2>3. \A e \in Drivers \ {d} : /\ RouteRequests'[e] = RouteRequests[e]
                                 /\ requestEvents'[e] = requestEvents[e]
    BY <1>4 DEF WriteRequest, DriverTypeOK, DatabaseTypeOK
  <2>4. InNode(d)' \subseteq InNode(d) \union AskersOf(d)'
    BY <1>4, <2>1, <2>2
  <2>5. \A e \in Drivers \ {d} : InNode(e)' = InNode(e)
    BY <2>3
  <2> QED
    BY <2>4, <2>5
<1>5. \A e \in Drivers : InNode(e)' \subseteq InNode(e) \union AskersOf(e)'
  <2>1. ASSUME NEW r \in Riders, requestCarpool(r, d)
        PROVE  RequestFrom(r) \in RequestNode /\ RequestFrom(r).rider \in AskersOf(d)'
                 /\ WriteRequest(d, RequestFrom(r))
    BY <2>1, NodesAreTyped DEF requestCarpool, AskersOf, RequestFrom
  <2>2. ASSUME NEW s \in CarpoolRequestStatus, setRouteRequest(d, s)
        PROVE  \A e \in Drivers : InNode(e)' \subseteq InNode(e) \union AskersOf(e)'
    <3> DEFINE node == WithStatus(RouteRequests[d], s)
    <3>1. node \in RequestNode /\ node.rider = RouteRequests[d].rider
      BY StatusKeepsRider DEF DriverTypeOK, DatabaseTypeOK
    <3>2. RouteRequests[d].rider \in AskersOf(d)'
      BY <1>2 DEF AskersInvariant, HeldRiders, AskersOf
    <3>3. WriteRequest(d, node)
      BY <2>2 DEF setRouteRequest
    <3> HIDE DEF node
    <3> QED
      BY <1>4, <3>1, <3>2, <3>3
  <2>3. ASSUME removeRouteRequest(d)
        PROVE  \A e \in Drivers : InNode(e)' \subseteq InNode(e) \union AskersOf(e)'
    <3>1. NoRequest \in RequestNode /\ NoRequest.rider \in AskersOf(d)'
      BY NodesAreTyped DEF NoRequest, AskersOf
    <3> QED
      BY <1>4, <2>3, <3>1 DEF removeRouteRequest
  <2>4. CASE UNCHANGED <<RouteRequests, requestEvents>>
    BY <2>4
  <2> HIDE DEF InNode
  <2> QED
    BY <1>4, <2>1, <2>2, <2>3, <2>4 DEF RidersWriteAt
<1>6. ASSUME NEW e \in Drivers
      PROVE  HeldRiders(e)' \subseteq AskersOf(e)'
  <2>1. HeldRiders(e)' \subseteq HeldRiders(e) \union InNode(e)'
    BY <1>1 DEF HeldRiders
  <2>2. InNode(e) \subseteq HeldRiders(e)
    BY DEF HeldRiders
  <2>3. HeldRiders(e) \subseteq AskersOf(e) /\ AskersOf(e) \subseteq AskersOf(e)'
    BY <1>2 DEF AskersInvariant, AskersOf
  <2> HIDE DEF InNode
  <2> QED
    BY <1>5, <2>1, <2>2, <2>3
<1>7. \A r \in Riders : RideAccepts'[r] # NoAnswer => <<r, RideAccepts'[r].driver>> \in asked'
  BY <1>2, <1>3 DEF AskersInvariant
<1> QED
  BY <1>6, <1>7 DEF AskersInvariant

LEMMA RiderSideServesAskers ==
  ASSUME DriverTypeOK, AskersInvariant, NEW d \in Drivers, RiderSide(d)
  PROVE  AskersInvariant'
<1>1. OtherStatuses \union {"riderCancelled"} \subseteq CarpoolRequestStatus
  BY DriverOutcomeAssumption DEF CarpoolRequestStatus
<1>2. AnyRiderWritesRequest(d) =>
        removeRouteRequest(d) \/ \E s \in CarpoolRequestStatus : setRouteRequest(d, s)
  BY <1>1 DEF AnyRiderWritesRequest, cancelRouteRequest
<1>3. RidersWriteAt(d)
  BY <1>2 DEF RiderSide, AnyRiderRequests, AnyRiderWritesRequest, AnyRiderRemovesAnswer,
     RidersWriteAt
<1> QED
  BY <1>3, RidersWritesServeAskers

LEMMA AskersInit == DriverInit => AskersInvariant
<1> SUFFICES ASSUME DriverInit PROVE AskersInvariant
  OBVIOUS
<1>1. \A r \in Riders : RideAccepts[r] = NoAnswer
  BY DEF DriverInit, DatabaseInit
<1>2. ASSUME NEW d \in Drivers
      PROVE  HeldRiders(d) \subseteq {NoRider}
  <2>1. /\ RouteRequests[d].rider = NoRider
        /\ requestEvents[d] = <<>>
        /\ DriverRoutes[d] = NoRoute
    BY DEF DriverInit, DatabaseInit, NoRequest
  <2>2. /\ driver[d].riderID = NoRider
        /\ driver[d].request.rider = NoRider
        /\ driver[d].route = NoRider
        /\ driver[d].calls.accept = [r \in Riders |-> 0]
    BY DEF DriverInit, FreshMemory, NoCarpoolRequest
  <2>3. RidersIn(requestEvents[d]) = {}
    BY <2>1 DEF RidersIn
  <2>4. \A p \in Riders : ~(driver[d].calls.accept[p] > 0)
    BY <2>2
  <2> QED
    BY <2>1, <2>2, <2>3, <2>4 DEF HeldRiders
<1> QED
  BY <1>1, <1>2 DEF AskersInvariant, AskersOf

LEMMA AskersAreServedMeans == AskersInvariant => OnlyAskersAreServed
<1> SUFFICES ASSUME AskersInvariant PROVE OnlyAskersAreServed
  OBVIOUS
<1>1. ASSUME NEW d \in Drivers
      PROVE  {driver[d].route, DriverRoutes[d]} \cap Riders
               \subseteq {r \in Riders : <<r, d>> \in asked}
  BY IdentityAssumption DEF AskersInvariant, HeldRiders, AskersOf
<1> QED
  BY <1>1 DEF AskersInvariant, OnlyAskersAreServed

(* Nobody but a rider who asked a driver is ever answered by it, or has a  *)
(* detour on the route it follows or publishes: acceptCarpoolRequest and   *)
(* rejectCarpoolRequest mix up riders who compete for a driver (see the    *)
(* runs of violations), but never drag in one who asked someone else.      *)
THEOREM AskersAreServed == DriverSpec => []OnlyAskersAreServed
<1>1. DriverInit => AskersInvariant
  BY AskersInit
<1>2. DriverTypeOK /\ AskersInvariant /\ [DriverNext]_driverVars => AskersInvariant'
  <2> SUFFICES ASSUME DriverTypeOK, AskersInvariant, [DriverNext]_driverVars
               PROVE  AskersInvariant'
    OBVIOUS
  <2>1. CASE UNCHANGED driverVars
    BY <2>1 DEF driverVars, dbVars, AskersInvariant, HeldRiders, AskersOf
  <2> QED
    BY <2>1, DriverStepServesAskers, RiderSideServesAskers DEF DriverNext
<1>3. AskersInvariant => OnlyAskersAreServed
  BY AskersAreServedMeans
<1> QED
  BY <1>1, <1>2, <1>3, DriverTypeCorrect, PTL DEF DriverSpec
=============================================================================
