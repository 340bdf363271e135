-------------------------- MODULE RiderClientProofs --------------------------
(***************************************************************************)
(* Proofs about the rider's app, for any riders, drivers and outcomes, and *)
(* any drivers' side.                                                      *)
(*                                                                         *)
(* Every handler of the app replaces its memory.  A memory is sound when   *)
(* it has its type and a search under way fills in the result of its own   *)
(* driver, or of none; the proofs show handler by handler that it leaves a *)
(* sound memory.                                                           *)
(***************************************************************************)
EXTENDS RiderClient, Price, CarpoolDatabaseProofs

FillsItsOwnResult(m) ==
  m.search.stage \in {"route", "walk", "distance"}
    => m.result.driver \in {m.search.driver, NoDriver}

SoundMemory == {m \in RiderMemory : FillsItsOwnResult(m)}

RiderInvariant ==
  /\ DatabaseTypeOK
  /\ rider \in [Riders -> SoundMemory]
  /\ pushes \in [Riders -> SUBSET PushStatuses]

(* What the invariant was made for. *)
LEMMA RiderInvariantMeans ==
  RiderInvariant => RiderTypeOK /\ SearchFillsItsOwnResult
BY DEF RiderInvariant, RiderTypeOK, SearchFillsItsOwnResult, SoundMemory, FillsItsOwnResult

(* The fields of a typed memory. *)
LEMMA MemoryFields ==
  ASSUME RiderInvariant, NEW r \in Riders
  PROVE  /\ rider[r] \in SoundMemory
         /\ rider[r] \in RiderMemory
         /\ rider[r].result.driver \in OptionalDriver
         /\ rider[r].writes \in [Drivers \X BOOLEAN -> Nat]
BY DEF RiderInvariant, SoundMemory, RiderMemory, S1CCarpoolSearchResult

-----------------------------------------------------------------------------
(* The two ways a step of the app may end. *)

(* An app that starts or ends has a sound memory. *)
LEMMA FreshRiderSound ==
  ASSUME NEW app \in {"running", "quit", "crashed"}
  PROVE  FreshRider(app) \in SoundMemory
<1>1. /\ NoSearch \in Search /\ NoResult \in S1CCarpoolSearchResult /\ NoPage \in Page
      /\ NoSearch.stage = "idle"
  BY DEF NoSearch, Search, SearchStages, NoResult, S1CCarpoolSearchResult, NoPage, Page,
     OptionalDriver
<1> QED
  BY <1>1 DEF FreshRider, RiderMemory, NoStatus, SoundMemory, FillsItsOwnResult

LEMMA EndRiderAppSound ==
  ASSUME RiderInvariant, NEW r \in Riders, NEW how \in {"quit", "crashed"},
         EndRiderApp(r, how)
  PROVE  RiderInvariant'
<1>1. rider' \in [Riders -> SoundMemory]
  BY FreshRiderSound DEF EndRiderApp, RiderInvariant
<1>2. DatabaseTypeOK'
  BY DEF EndRiderApp, dropAcceptObservers, RiderInvariant, DatabaseTypeOK
<1> QED
  BY <1>1, <1>2 DEF RiderInvariant, EndRiderApp

LEMMA RiderCrashesSound ==
  ASSUME RiderInvariant, NEW r \in Riders, RiderCrashes(r)
  PROVE  RiderInvariant'
BY EndRiderAppSound DEF RiderCrashes

LEMMA OnlyMemorySound ==
  ASSUME RiderInvariant, NEW r \in Riders, NEW m \in SoundMemory, OnlyMemory(r, m)
  PROVE  RiderInvariant'
BY DEF OnlyMemory, RiderInvariant, DatabaseTypeOK, dbVars

(* A cleaned-up manager, and a page that comes, goes or is forgotten. *)
LEMMA ManagerTypes ==
  /\ NoSearch \in Search /\ NoResult \in S1CCarpoolSearchResult /\ NoPage \in Page
  /\ NoSearch.stage = "idle" /\ NoResult.driver = NoDriver
  /\ \A page \in Page, kind \in {"suggestion", "rejected", "proximity"} :
       Present(page, kind) \in Page /\ PushOrPresent(page, kind) \in Page
  /\ \A page \in Page : DismissedPage(page) \in Page
BY DEF NoSearch, Search, SearchStages, NoResult, S1CCarpoolSearchResult, NoPage, Page,
   OptionalDriver, Present, PushOrPresent, DismissedPage

(* A handler that leaves search and result alone, or cleans them up, only  *)
(* has to keep the other fields typed.                                     *)
LEMMA SoundWithSearch ==
  ASSUME NEW old \in SoundMemory, NEW m \in RiderMemory, m.search = old.search,
         m.result.driver \in {old.result.driver, NoDriver}
  PROVE  m \in SoundMemory
BY DEF SoundMemory, FillsItsOwnResult

LEMMA SoundWithoutSearch ==
  ASSUME NEW m \in RiderMemory, m.search.stage \in {"idle", "details", "plan"}
  PROVE  m \in SoundMemory
BY DEF SoundMemory, FillsItsOwnResult

-----------------------------------------------------------------------------
(* The map and the search. *)

LEMMA MapSound ==
  ASSUME RiderInvariant, NEW r \in Riders,
         MapRoutesEvent(r) \/ \E near \in BOOLEAN : MapLocationsEvent(r, near)
  PROVE  RiderInvariant'
<1>0. rider[r] \in SoundMemory /\ rider[r] \in RiderMemory /\ DriverLocations \subseteq Drivers
  BY MemoryFields DEF RiderInvariant, DatabaseTypeOK
<1>1. CASE MapRoutesEvent(r)
  <2> DEFINE m == [rider[r] EXCEPT !.mapRoutes = {d \in Drivers : DriverRoutes[d] # NoRoute}]
  <2>1. m \in RiderMemory /\ m.search = rider[r].search /\ m.result = rider[r].result
    BY <1>0 DEF RiderMemory
  <2>2. m \in SoundMemory
    BY <1>0, <2>1, SoundWithSearch
  <2> QED
    BY <1>1, <2>2, OnlyMemorySound, RiderCrashesSound DEF MapRoutesEvent
<1>2. ASSUME NEW near \in BOOLEAN, MapLocationsEvent(r, near)
      PROVE  RiderInvariant'
  <2> DEFINE m == [rider[r] EXCEPT !.mapLocations = DriverLocations]
             n == WithProximityAlert([m EXCEPT !.didShow = TRUE])
  <2>1. m \in RiderMemory /\ m.search = rider[r].search /\ m.result = rider[r].result
    BY <1>0 DEF RiderMemory
  <2>2. [m EXCEPT !.didShow = TRUE] \in RiderMemory
    BY <2>1 DEF RiderMemory
  <2>3. n \in RiderMemory
    BY <2>2, ManagerTypes DEF WithProximityAlert, RiderMemory
  <2>4. n.search = rider[r].search /\ n.result = rider[r].result
    BY <2>1 DEF WithProximityAlert, RiderMemory
  <2>5. m \in SoundMemory /\ n \in SoundMemory
    BY <1>0, <2>1, <2>3, <2>4, SoundWithSearch
  <2> HIDE DEF m, n
  <2>6. OnlyMemory(r, m) \/ RiderCrashes(r) \/ OnlyMemory(r, n)
    BY <1>2 DEF MapLocationsEvent, m, n
  <2> QED
    BY <2>5, <2>6, OnlyMemorySound, RiderCrashesSound
<1> QED
  BY <1>1, <1>2

LEMMA FindCarpoolSound ==
  ASSUME RiderInvariant, NEW r \in Riders, FindCarpool(r)
  PROVE  RiderInvariant'
<1>0. rider[r] \in SoundMemory /\ rider[r] \in RiderMemory
  BY MemoryFields
<1> DEFINE m == [rider[r] EXCEPT !.hud = TRUE, !.result.destination = TRUE]
           n == [m EXCEPT !.hud = FALSE]
           s(d) == [m EXCEPT !.search = [stage |-> "details", driver |-> d, usable |-> FALSE]]
<1>1. m \in RiderMemory /\ m.search = rider[r].search
      /\ m.result.driver = rider[r].result.driver
  BY <1>0 DEF RiderMemory, S1CCarpoolSearchResult
<1>2. n \in RiderMemory /\ n.search = m.search /\ n.result = m.result
  <2> HIDE DEF m
  <2> QED
    BY <1>1 DEF RiderMemory
<1>3. ASSUME NEW d \in rider[r].mapRoutes
      PROVE  s(d) \in SoundMemory
  <2>1. d \in OptionalDriver
    BY <1>0 DEF RiderMemory, OptionalDriver
  <2>2. s(d) \in RiderMemory /\ s(d).search.stage = "details"
    BY <1>1, <2>1 DEF RiderMemory, Search, SearchStages
  <2> QED
    BY <2>2, SoundWithoutSearch
<1>4. m \in SoundMemory /\ n \in SoundMemory
  BY <1>0, <1>1, <1>2, SoundWithSearch
<1>5. m.mapRoutes = rider[r].mapRoutes
  BY <1>0 DEF RiderMemory
<1> HIDE DEF m, n, s
<1>6. \/ OnlyMemory(r, m) \/ OnlyMemory(r, n)
      \/ \E d \in m.mapRoutes : OnlyMemory(r, s(d))
  BY DEF FindCarpool, m, n, s
<1> QED
  BY <1>3, <1>4, <1>5, <1>6, OnlyMemorySound

(* Only the answer of PlanFetched puts a search into the stages that fill  *)
(* the result, and it sets the driver of the result with it.               *)
LEMMA SearchStartSound ==
  ASSUME RiderInvariant, NEW r \in Riders,
         \/ \E outcome \in SearchDetails : SearchDetailsFetched(r, outcome)
         \/ \E planned \in PlanOutcomes : PlanFetched(r, planned)
  PROVE  RiderInvariant'
<1>0. rider[r] \in SoundMemory /\ rider[r] \in RiderMemory /\ rider[r].search \in Search
  BY MemoryFields DEF RiderMemory
<1>1. ASSUME NEW outcome \in SearchDetails, SearchDetailsFetched(r, outcome)
      PROVE  RiderInvariant'
  <2> DEFINE dropped == [rider[r] EXCEPT !.search = NoSearch]
             nobody  == [rider[r] EXCEPT !.search.stage = "plan", !.search.driver = NoDriver]
             known   == [rider[r] EXCEPT !.search.stage = "plan",
                                         !.search.usable = (outcome = "complete")]
  <2>1. dropped \in RiderMemory /\ dropped.search = NoSearch
    BY <1>0, ManagerTypes DEF RiderMemory
  <2>2. nobody \in RiderMemory /\ nobody.search.stage = "plan"
    BY <1>0 DEF RiderMemory, Search, SearchStages, OptionalDriver
  <2>3. known \in RiderMemory /\ known.search.stage = "plan"
    BY <1>0 DEF RiderMemory, Search, SearchStages
  <2>4. dropped \in SoundMemory /\ nobody \in SoundMemory /\ known \in SoundMemory
    BY <2>1, <2>2, <2>3, ManagerTypes, SoundWithoutSearch
  <2> HIDE DEF dropped, nobody, known
  <2>5. OnlyMemory(r, dropped) \/ OnlyMemory(r, nobody) \/ OnlyMemory(r, known)
    BY <1>1 DEF SearchDetailsFetched, dropped, nobody, known
  <2> QED
    BY <2>4, <2>5, OnlyMemorySound
<1>2. ASSUME NEW planned \in PlanOutcomes, PlanFetched(r, planned)
      PROVE  RiderInvariant'
  <2> DEFINE search == rider[r].search
             known == [rider[r] EXCEPT !.result.driver = search.driver,
                                       !.result.usable = search.usable]
             shown == [known EXCEPT !.search = NoSearch,
                                    !.result.distance = TRUE,
                                    !.result.riderTime = TRUE,
                                    !.page = Present(@, "suggestion"),
                                    !.hasBulletin = TRUE]
             goesOn == [known EXCEPT !.search.stage = "route"]
  <2>1. known \in RiderMemory /\ known.search = search /\ known.result.driver = search.driver
    BY <1>0 DEF RiderMemory, Search, S1CCarpoolSearchResult
  <2>2. shown \in RiderMemory /\ shown.search = NoSearch
    <3> HIDE DEF known
    <3> DEFINE rated == [known EXCEPT !.search = NoSearch, !.result.distance = TRUE,
                                      !.result.riderTime = TRUE]
    <3>1. rated \in RiderMemory /\ rated.search = NoSearch /\ rated.page = known.page
      BY <2>1, ManagerTypes DEF RiderMemory, S1CCarpoolSearchResult
    <3> DEFINE after == [rated EXCEPT !.page = Present(@, "suggestion"), !.hasBulletin = TRUE]
    <3>2. shown = after
      BY <3>1
    <3> HIDE DEF rated
    <3>3. after \in RiderMemory /\ after.search = NoSearch
      BY <3>1, ManagerTypes DEF RiderMemory
    <3> QED
      BY <3>2, <3>3
  <2>3. goesOn \in RiderMemory /\ goesOn.search.driver = goesOn.result.driver
    BY <2>1 DEF RiderMemory, Search, SearchStages
  <2>4. shown \in SoundMemory
    BY <2>2, ManagerTypes, SoundWithoutSearch
  <2>5. goesOn \in SoundMemory
    BY <2>3 DEF SoundMemory, FillsItsOwnResult
  <2> HIDE DEF shown, goesOn
  <2>6. OnlyMemory(r, shown) \/ OnlyMemory(r, goesOn) \/ RiderCrashes(r)
    BY <1>2 DEF PlanFetched, shown, goesOn
  <2> QED
    BY <2>4, <2>5, <2>6, OnlyMemorySound, RiderCrashesSound
<1> QED
  BY <1>1, <1>2

LEMMA SearchEndSound ==
  ASSUME RiderInvariant, NEW r \in Riders, NEW found \in SearchOutcomes,
         \/ DriverRouteFetched(r, found) \/ WalkingRouteFetched(r, found)
         \/ RideDistanceFetched(r, found)
  PROVE  RiderInvariant'
<1>0. /\ rider[r] \in SoundMemory /\ rider[r] \in RiderMemory
      /\ rider[r].search \in Search /\ rider[r].result \in S1CCarpoolSearchResult
      /\ found \in BOOLEAN
  BY MemoryFields, RiderOutcomeAssumption DEF RiderMemory
<1> DEFINE failed == [rider[r] EXCEPT !.hud = FALSE, !.search = NoSearch]
           walks == [rider[r] EXCEPT !.result.driverTime = TRUE, !.search.stage = "walk"]
           rides == [rider[r] EXCEPT !.result.riderTime = TRUE, !.search.stage = "distance"]
           ended == [rider[r] EXCEPT !.search = NoSearch, !.result.distance = @ \/ found]
           shown == [ended EXCEPT !.page = Present(@, "suggestion"), !.hasBulletin = TRUE]
<1>1. /\ failed \in RiderMemory /\ failed.search = NoSearch
      /\ ended \in RiderMemory /\ ended.search = NoSearch
  BY <1>0, ManagerTypes DEF RiderMemory, S1CCarpoolSearchResult
<1>2. shown \in RiderMemory /\ shown.search = NoSearch
  BY <1>1, ManagerTypes DEF RiderMemory
<1>3. failed \in SoundMemory /\ ended \in SoundMemory /\ shown \in SoundMemory
  BY <1>1, <1>2, ManagerTypes, SoundWithoutSearch
<1>4. CASE DriverRouteFetched(r, found)
  <2>1. rider[r].search.stage = "route"
    BY <1>4 DEF DriverRouteFetched, Searching
  <2>2. walks \in RiderMemory
    BY <1>0 DEF RiderMemory, Search, SearchStages, S1CCarpoolSearchResult
  <2>3. walks.search.driver = rider[r].search.driver /\ walks.result.driver = rider[r].result.driver
    BY <1>0 DEF RiderMemory, Search, S1CCarpoolSearchResult
  <2>4. walks \in SoundMemory
    BY <1>0, <2>1, <2>2, <2>3 DEF SoundMemory, FillsItsOwnResult
  <2> HIDE DEF walks, failed
  <2>5. OnlyMemory(r, walks) \/ OnlyMemory(r, failed)
    BY <1>4 DEF DriverRouteFetched, SearchFails, walks, failed
  <2> QED
    BY <1>3, <2>4, <2>5, OnlyMemorySound
<1>5. CASE WalkingRouteFetched(r, found)
  <2>1. rider[r].search.stage = "walk"
    BY <1>5 DEF WalkingRouteFetched, Searching
  <2>2. rides \in RiderMemory
    BY <1>0 DEF RiderMemory, Search, SearchStages, S1CCarpoolSearchResult
  <2>3. rides.search.driver = rider[r].search.driver /\ rides.result.driver = rider[r].result.driver
    BY <1>0 DEF RiderMemory, Search, S1CCarpoolSearchResult
  <2>4. rides \in SoundMemory
    BY <1>0, <2>1, <2>2, <2>3 DEF SoundMemory, FillsItsOwnResult
  <2> HIDE DEF rides, failed
  <2>5. OnlyMemory(r, rides) \/ OnlyMemory(r, failed) \/ RiderCrashes(r)
    BY <1>5 DEF WalkingRouteFetched, SearchFails, rides, failed
  <2> QED
    BY <1>3, <2>4, <2>5, OnlyMemorySound, RiderCrashesSound
<1>6. CASE RideDistanceFetched(r, found)
  <2> HIDE DEF ended, shown
  <2>1. OnlyMemory(r, ended) \/ OnlyMemory(r, shown) \/ RiderCrashes(r)
    BY <1>6 DEF RideDistanceFetched, ended, shown
  <2> QED
    BY <1>3, <2>1, OnlyMemorySound, RiderCrashesSound
<1> QED
  BY <1>4, <1>5, <1>6

-----------------------------------------------------------------------------
(* Buttons. *)

(* A request and its registration keep the nodes and the queues typed. *)
LEMMA RequestCarpoolType ==
  ASSUME DatabaseTypeOK, NEW r \in Riders, NEW d \in Drivers,
         requestCarpool(r, d), startObservingRideAcceptForMyRiderID(r, d),
         UNCHANGED <<RideAccepts, DriverRoutes, DriverLocations, requestObservers>>
  PROVE  DatabaseTypeOK'
<1>1. /\ RouteRequests' \in [Drivers -> RequestNode]
      /\ requestEvents' \in [Drivers -> Seq(RequestNode)]
  BY NodesAreTyped, WriteRequestType DEF requestCarpool
<1>2. asked' \subseteq Riders \X Drivers
  BY DEF requestCarpool, DatabaseTypeOK
<1>3. acceptObservers' \in [Riders -> Seq(Drivers)]
  BY DEF startObservingRideAcceptForMyRiderID, DatabaseTypeOK
<1>4. acceptEvents' \in [Riders -> Seq(AcceptEvents)]
  <2>1. CASE RideAccepts[r] = NoAnswer
    BY <2>1 DEF startObservingRideAcceptForMyRiderID, DatabaseTypeOK
  <2>2. CASE RideAccepts[r] # NoAnswer
    <3>1. RideAccepts[r] \in Answer /\ <<d>> \in Seq(Drivers)
      BY <2>2 DEF DatabaseTypeOK
    <3>2. AcceptSnapshots(<<d>>, RideAccepts[r]) \in Seq(AcceptEvents)
      BY <3>1, AcceptSnapshotsType
    <3>3. acceptEvents[r] \o AcceptSnapshots(<<d>>, RideAccepts[r]) \in Seq(AcceptEvents)
      BY <3>2 DEF DatabaseTypeOK
    <3> QED
      BY <2>2, <3>3 DEF startObservingRideAcceptForMyRiderID, DatabaseTypeOK
  <2> QED
    BY <2>1, <2>2
<1> QED
  BY <1>1, <1>2, <1>3, <1>4 DEF DatabaseTypeOK

LEMMA TapSendSound ==
  ASSUME RiderInvariant, NEW r \in Riders, TapSend(r)
  PROVE  RiderInvariant'
<1>0. /\ rider[r] \in SoundMemory /\ rider[r] \in RiderMemory
      /\ rider[r].result.driver \in OptionalDriver
  BY MemoryFields
<1> DEFINE d == rider[r].result.driver
           m == [rider[r] EXCEPT !.hud = FALSE, !.page = DismissedPage(@)]
<1>1. CASE RiderCrashes(r)
  BY <1>1, RiderCrashesSound
<1>2. CASE ~RiderCrashes(r)
  <2>1. d \in Drivers
    BY <1>0, <1>2 DEF TapSend, OptionalDriver
  <2>2. DatabaseTypeOK'
    BY <1>2, <2>1, RequestCarpoolType DEF TapSend, RiderInvariant
  <2>3. m \in RiderMemory /\ m.search = rider[r].search /\ m.result = rider[r].result
    BY <1>0, ManagerTypes DEF RiderMemory
  <2>4. m \in SoundMemory
    BY <1>0, <2>3, SoundWithSearch
  <2>5. rider' = [rider EXCEPT ![r] = m] /\ pushes' = pushes
    BY <1>2 DEF TapSend
  <2> QED
    BY <2>2, <2>4, <2>5 DEF RiderInvariant
<1> QED
  BY <1>1, <1>2

(* A first write made, or completed. *)
LEMMA WriteAddedSound ==
  ASSUME NEW m \in SoundMemory, NEW d \in Drivers, NEW granted \in BOOLEAN
  PROVE  [m EXCEPT !.writes[<<d, granted>>] = @ + 1] \in SoundMemory
<1> DEFINE w == <<d, granted>>
           added == [m.writes EXCEPT ![w] = @ + 1]
           n == [m EXCEPT !.writes = added]
<1>1. m \in RiderMemory /\ m.writes \in [Drivers \X BOOLEAN -> Nat]
  BY DEF SoundMemory, RiderMemory
<1>2. w \in Drivers \X BOOLEAN
  OBVIOUS
<1>3. added \in [Drivers \X BOOLEAN -> Nat]
  <2> HIDE DEF w
  <2> QED
    BY <1>1, <1>2
<1>4. n \in SoundMemory
  <2> HIDE DEF added
  <2>1. n \in RiderMemory /\ n.search = m.search /\ n.result = m.result
    BY <1>1, <1>3 DEF RiderMemory
  <2> QED
    BY <2>1, SoundWithSearch
<1> QED
  BY <1>4

(* The first write of a cancellation, whatever else its handler changed. *)
LEMMA CancelCarpoolSound ==
  ASSUME RiderInvariant, NEW r \in Riders, NEW m \in SoundMemory, CancelCarpool(r, m)
  PROVE  RiderInvariant'
<1>0. rider[r].result.driver \in OptionalDriver /\ m \in RiderMemory
  BY MemoryFields DEF SoundMemory
<1> DEFINE d == rider[r].result.driver
           n(granted) == [m EXCEPT !.writes[<<d, granted>>] = @ + 1]
<1>1. CASE OnlyMemory(r, m)
  BY <1>1, OnlyMemorySound
<1>2. CASE RiderCrashes(r)
  BY <1>2, RiderCrashesSound
<1>3. CASE ~OnlyMemory(r, m) /\ ~RiderCrashes(r)
  <2>1. d \in Drivers
    BY <1>0, <1>3 DEF CancelCarpool, OptionalDriver
  <2>2. PICK granted \in WriteOutcomes :
          /\ rider' = [rider EXCEPT ![r] = n(granted)]
          /\ IF granted THEN cancelRouteRequest(d)
                        ELSE UNCHANGED <<RouteRequests, requestEvents>>
    BY <1>3 DEF CancelCarpool
  <2>3. granted \in BOOLEAN
    BY RiderOutcomeAssumption
  <2>4. n(granted) \in SoundMemory
    BY <2>1, <2>3, WriteAddedSound
  <2>5. /\ RouteRequests' \in [Drivers -> RequestNode]
        /\ requestEvents' \in [Drivers -> Seq(RequestNode)]
    <3>1. CASE granted
      BY <2>1, <2>2, <3>1, SetRouteRequestType
      DEF cancelRouteRequest, CarpoolRequestStatus, RiderInvariant
    <3>2. CASE ~granted
      BY <2>2, <3>2 DEF RiderInvariant, DatabaseTypeOK
    <3> QED
      BY <3>1, <3>2
  <2>6. UNCHANGED <<pushes, RideAccepts, DriverRoutes, DriverLocations,
                    requestObservers, acceptObservers, acceptEvents, asked>>
    BY <1>3 DEF CancelCarpool
  <2> HIDE DEF n
  <2> QED
    BY <2>2, <2>4, <2>5, <2>6 DEF RiderInvariant, DatabaseTypeOK
<1> QED
  BY <1>1, <1>2, <1>3

LEMMA ButtonsSound ==
  ASSUME RiderInvariant, NEW r \in Riders,
         \/ TapCancelSuggestion(r) \/ TapCancelRide(r) \/ TapConfirmProximity(r)
         \/ TapCancelProximity(r) \/ DismissRejection(r)
  PROVE  RiderInvariant'
<1>0. rider[r] \in SoundMemory /\ rider[r] \in RiderMemory
  BY MemoryFields
<1> DEFINE left == [rider[r] EXCEPT !.page = DismissedPage(@), !.hud = FALSE]
           faded == [rider[r] EXCEPT !.badge = "none"]
           met == [rider[r] EXCEPT !.page = DismissedPage(@), !.badge = "notice"]
           swiped == [rider[r] EXCEPT !.page = NoPage]
<1>1. left \in SoundMemory
  <2>1. left \in RiderMemory /\ left.search = rider[r].search /\ left.result = rider[r].result
    BY <1>0, ManagerTypes DEF RiderMemory
  <2> QED
    BY <1>0, <2>1, SoundWithSearch
<1>2. faded \in SoundMemory
  <2>1. faded \in RiderMemory /\ faded.search = rider[r].search /\ faded.result = rider[r].result
    BY <1>0 DEF RiderMemory
  <2> QED
    BY <1>0, <2>1, SoundWithSearch
<1>3. met \in SoundMemory
  <2>1. met \in RiderMemory /\ met.search = rider[r].search /\ met.result = rider[r].result
    BY <1>0, ManagerTypes DEF RiderMemory
  <2> QED
    BY <1>0, <2>1, SoundWithSearch
<1>4. swiped \in SoundMemory
  <2>1. swiped \in RiderMemory /\ swiped.search = rider[r].search /\ swiped.result = rider[r].result
    BY <1>0, ManagerTypes DEF RiderMemory
  <2> QED
    BY <1>0, <2>1, SoundWithSearch
<1> HIDE DEF left, faded, met, swiped
<1>5. \/ CancelCarpool(r, left) \/ CancelCarpool(r, faded)
      \/ OnlyMemory(r, met) \/ OnlyMemory(r, swiped)
  BY DEF TapCancelSuggestion, TapCancelRide, TapConfirmProximity, TapCancelProximity,
         DismissRejection, left, faded, met, swiped
<1> QED
  BY <1>1, <1>2, <1>3, <1>4, <1>5, CancelCarpoolSound, OnlyMemorySound

-----------------------------------------------------------------------------
(* Answers, and the completion of a first write. *)

(* A step that processes an answer and ends in a sound memory. *)
LEMMA ProcessedSound ==
  ASSUME RiderInvariant, NEW r \in Riders, NEW m \in SoundMemory,
         NEW rest \in Seq(AcceptEvents), Processed(r, m, rest),
         RouteRequests' \in [Drivers -> RequestNode],
         requestEvents' \in [Drivers -> Seq(RequestNode)]
  PROVE  RiderInvariant'
BY DEF Processed, UnchangedButAnswers, RiderInvariant, DatabaseTypeOK

LEMMA ProximitySound ==
  ASSUME NEW m \in SoundMemory
  PROVE  WithProximityAlert(m) \in SoundMemory
<1>1. m \in RiderMemory
  BY DEF SoundMemory
<1>2. /\ WithProximityAlert(m) \in RiderMemory
      /\ WithProximityAlert(m).search = m.search
      /\ WithProximityAlert(m).result = m.result
  BY <1>1, ManagerTypes DEF WithProximityAlert, RiderMemory
<1> QED
  BY <1>2, SoundWithSearch

LEMMA ProcessRejectedSound ==
  ASSUME RiderInvariant, NEW r \in Riders, NEW rest \in Seq(AcceptEvents),
         ProcessRejected(r, rest)
  PROVE  RiderInvariant'
<1>0. /\ rider[r] \in SoundMemory /\ rider[r] \in RiderMemory
      /\ rider[r].result.driver \in OptionalDriver
  BY MemoryFields
<1> DEFINE d == rider[r].result.driver
           shown == [rider[r] EXCEPT !.status = "rejected", !.badge = "none",
                                     !.page = PushOrPresent(@, "rejected")]
           clean == [shown EXCEPT !.status = NoStatus, !.didShow = FALSE, !.result = NoResult]
           n(granted) == [shown EXCEPT !.writes[<<d, granted>>] = @ + 1]
<1>1. shown \in RiderMemory /\ shown.search = rider[r].search /\ shown.result = rider[r].result
  BY <1>0, ManagerTypes DEF RiderMemory, CarpoolAcceptStatus
<1>2. shown \in SoundMemory
  BY <1>0, <1>1, SoundWithSearch
<1> HIDE DEF shown
<1>3. clean \in RiderMemory /\ clean.search = shown.search /\ clean.result = NoResult
  BY <1>1, ManagerTypes DEF RiderMemory
<1>4. clean \in SoundMemory
  BY <1>2, <1>3, ManagerTypes, SoundWithSearch
<1>5. CASE RiderCrashes(r)
  BY <1>5, RiderCrashesSound
<1>6. CASE Processed(r, clean, rest) /\ UNCHANGED <<RouteRequests, requestEvents>>
  <2> HIDE DEF clean
  <2> QED
    BY <1>4, <1>6, ProcessedSound DEF RiderInvariant, DatabaseTypeOK
<1>7. ASSUME d \in Drivers, NEW granted \in WriteOutcomes,
             Processed(r, n(granted), rest),
             IF granted THEN removeRouteRequest(d)
                        ELSE UNCHANGED <<RouteRequests, requestEvents>>
      PROVE  RiderInvariant'
  <2>1. granted \in BOOLEAN
    BY RiderOutcomeAssumption
  <2>2. n(granted) \in SoundMemory
    BY <1>2, <1>7, <2>1, WriteAddedSound
  <2>3. /\ RouteRequests' \in [Drivers -> RequestNode]
        /\ requestEvents' \in [Drivers -> Seq(RequestNode)]
    <3>1. CASE granted
      BY <1>7, <3>1, NodesAreTyped, WriteRequestType DEF removeRouteRequest, RiderInvariant
    <3>2. CASE ~granted
      BY <1>7, <3>2 DEF RiderInvariant, DatabaseTypeOK
    <3> QED
      BY <3>1, <3>2
  <2> HIDE DEF n
  <2> QED
    BY <1>7, <2>2, <2>3, ProcessedSound
<1>8. \/ RiderCrashes(r)
      \/ Processed(r, clean, rest) /\ UNCHANGED <<RouteRequests, requestEvents>>
      \/ /\ d # NoDriver
         /\ \E granted \in WriteOutcomes :
              /\ Processed(r, n(granted), rest)
              /\ IF granted THEN removeRouteRequest(d)
                            ELSE UNCHANGED <<RouteRequests, requestEvents>>
  BY DEF ProcessRejected, shown
<1> QED
  BY <1>0, <1>5, <1>6, <1>7, <1>8 DEF OptionalDriver

LEMMA ProcessStatusSound ==
  ASSUME RiderInvariant, NEW r \in Riders, NEW s, NEW rest \in Seq(AcceptEvents),
         ProcessStatus(r, s, rest)
  PROVE  RiderInvariant'
<1>0. rider[r] \in SoundMemory /\ rider[r] \in RiderMemory
  BY MemoryFields
<1> DEFINE accepted == [rider[r] EXCEPT !.status = "accepted", !.badge = "cancel",
                                        !.page = DismissedPage(@)]
           confirmed == [rider[r] EXCEPT !.status = "confirmed"]
           arrived == [rider[r] EXCEPT !.status = "arrived", !.badge = "notice"]
<1>1. accepted \in SoundMemory
  <2>1. /\ accepted \in RiderMemory
        /\ accepted.search = rider[r].search /\ accepted.result = rider[r].result
    BY <1>0, ManagerTypes DEF RiderMemory, CarpoolAcceptStatus
  <2> QED
    BY <1>0, <2>1, SoundWithSearch
<1>2. confirmed \in SoundMemory /\ WithProximityAlert(confirmed) \in SoundMemory
  <2>1. /\ confirmed \in RiderMemory
        /\ confirmed.search = rider[r].search /\ confirmed.result = rider[r].result
    BY <1>0 DEF RiderMemory, CarpoolAcceptStatus
  <2>2. confirmed \in SoundMemory
    BY <1>0, <2>1, SoundWithSearch
  <2> QED
    BY <2>2, ProximitySound
<1>3. arrived \in SoundMemory
  <2>1. /\ arrived \in RiderMemory
        /\ arrived.search = rider[r].search /\ arrived.result = rider[r].result
    BY <1>0 DEF RiderMemory, CarpoolAcceptStatus
  <2> QED
    BY <1>0, <2>1, SoundWithSearch
<1> DEFINE next == WithProximityAlert(confirmed)
<1> HIDE DEF accepted, next, arrived
<1>4. \/ RiderCrashes(r) \/ ProcessRejected(r, rest)
      \/ /\ \/ Processed(r, accepted, rest) \/ Processed(r, next, rest)
            \/ Processed(r, arrived, rest) \/ Processed(r, rider[r], rest)
         /\ UNCHANGED <<RouteRequests, requestEvents>>
  BY DEF ProcessStatus, ProcessAccepted, ProcessConfirmed, ProcessArrived, ProcessKnown,
         accepted, next, arrived
<1>5. next \in SoundMemory
  BY <1>2 DEF next
<1>6. UNCHANGED <<RouteRequests, requestEvents>> =>
        /\ RouteRequests' \in [Drivers -> RequestNode]
        /\ requestEvents' \in [Drivers -> Seq(RequestNode)]
  BY DEF RiderInvariant, DatabaseTypeOK
<1> QED
  BY <1>0, <1>1, <1>3, <1>4, <1>5, <1>6, ProcessedSound, ProcessRejectedSound,
     RiderCrashesSound

LEMMA AnswersSound ==
  ASSUME RiderInvariant, NEW r \in Riders,
         AcceptEvent(r) \/ \E s \in PushStatuses : PushReceived(r, s)
  PROVE  RiderInvariant'
<1>0. acceptEvents[r] \in Seq(AcceptEvents)
  BY DEF RiderInvariant, DatabaseTypeOK
<1>1. CASE AcceptEvent(r)
  <2>1. Tail(acceptEvents[r]) \in Seq(AcceptEvents)
    BY <1>0, <1>1 DEF AcceptEvent
  <2> QED
    BY <1>1, <2>1, ProcessStatusSound, RiderCrashesSound DEF AcceptEvent
<1>2. ASSUME NEW s \in PushStatuses, PushReceived(r, s)
      PROVE  RiderInvariant'
  BY <1>0, <1>2, ProcessStatusSound DEF PushReceived
<1> QED
  BY <1>1, <1>2

(* A clean-up keeps a sound memory sound. *)
LEMMA CleanedUpSound ==
  ASSUME NEW old \in SoundMemory, NEW m \in RiderMemory, m.search = old.search
  PROVE  /\ CleanedUp(m) \in SoundMemory
         /\ CleanedUp(m).search = m.search /\ CleanedUp(m).page = m.page
         /\ CleanedUp(m).status = NoStatus /\ CleanedUp(m).writes = m.writes
<1>1. /\ CleanedUp(m) \in RiderMemory /\ CleanedUp(m).search = m.search
      /\ CleanedUp(m).page = m.page /\ CleanedUp(m).status = NoStatus
      /\ CleanedUp(m).result = NoResult /\ CleanedUp(m).writes = m.writes
  BY ManagerTypes DEF CleanedUp, RiderMemory
<1> QED
  BY <1>1, ManagerTypes, SoundWithSearch

(* The memory a completed first write leaves to be cleaned up. *)
LEMMA WriteTakenType ==
  ASSUME RiderInvariant, NEW r \in Riders, NEW w \in Drivers \X BOOLEAN,
         rider[r].writes[w] > 0
  PROVE  /\ [rider[r] EXCEPT !.writes[w] = @ - 1] \in RiderMemory
         /\ [rider[r] EXCEPT !.writes[w] = @ - 1].search = rider[r].search
         /\ [rider[r] EXCEPT !.writes[w] = @ - 1].page = rider[r].page
<1>0. rider[r] \in RiderMemory /\ rider[r].writes \in [Drivers \X BOOLEAN -> Nat]
  BY MemoryFields
<1>1. rider[r].writes[w] - 1 \in Nat
  BY <1>0
<1> DEFINE left == [rider[r].writes EXCEPT ![w] = @ - 1]
<1>2. left \in [Drivers \X BOOLEAN -> Nat]
  BY <1>0, <1>1
<1>3. [rider[r] EXCEPT !.writes[w] = @ - 1] = [rider[r] EXCEPT !.writes = left]
  BY <1>0 DEF RiderMemory
<1> HIDE DEF left
<1> QED
  BY <1>0, <1>2, <1>3 DEF RiderMemory

(* How the handler of a completion ends. *)
LEMMA CompletionSound ==
  ASSUME RiderInvariant, NEW r \in Riders, RiderCompletion(r)
  PROVE  RiderInvariant'
<1>0. /\ rider[r] \in SoundMemory /\ rider[r] \in RiderMemory /\ DatabaseTypeOK
      /\ acceptEvents[r] \in Seq(AcceptEvents)
  BY MemoryFields DEF RiderInvariant, DatabaseTypeOK
<1>1. ASSUME NEW m \in SoundMemory, rider' = [rider EXCEPT ![r] = m],
             RideAccepts' \in [Riders -> Answer \union {NoAnswer}],
             acceptEvents' \in [Riders -> Seq(AcceptEvents)], UnchangedByCompletion
      PROVE  RiderInvariant'
  BY <1>1 DEF UnchangedByCompletion, RiderInvariant, DatabaseTypeOK
<1>2. ASSUME NEW d \in Drivers, NEW granted \in BOOLEAN, WriteCompletes(r, d, granted)
      PROVE  RiderInvariant'
  <2> DEFINE w == <<d, granted>>
             m == [rider[r] EXCEPT !.writes[w] = @ - 1]
  <2>1. w \in Drivers \X BOOLEAN /\ rider[r].writes[w] > 0
    BY <1>2 DEF WriteCompletes
  <2>2. m \in RiderMemory /\ m.search = rider[r].search
    BY <2>1, WriteTakenType
  <2>3. rider' = [rider EXCEPT ![r] = CleanedUp(m)]
    BY <1>2 DEF WriteCompletes, CleanedUp
  <2>4. /\ RideAccepts' \in [Riders -> Answer \union {NoAnswer}]
        /\ acceptEvents' \in [Riders -> Seq(AcceptEvents)]
    <3>1. \/ removeRideAccept(r, d) \/ removeRideAcceptDenied(r, d)
          \/ UNCHANGED <<RideAccepts, acceptEvents>>
      BY <1>2 DEF WriteCompletes, SecondWrite
    <3> QED
      BY <1>0, <3>1, RemoveRideAcceptType DEF DatabaseTypeOK
  <2> HIDE DEF m, w
  <2>5. CleanedUp(m) \in SoundMemory
    BY <1>0, <2>2, CleanedUpSound
  <2> QED
    BY <1>1, <1>2, <2>3, <2>4, <2>5 DEF WriteCompletes
<1>3. ASSUME RemovalIsDenied(r)
      PROVE  RiderInvariant'
  <2>1. rider' = [rider EXCEPT ![r] = CleanedUp(rider[r])]
    BY <1>3 DEF RemovalIsDenied, RiderInvariant
  <2>2. CleanedUp(rider[r]) \in SoundMemory
    BY <1>0, CleanedUpSound
  <2>3. acceptEvents' \in [Riders -> Seq(AcceptEvents)]
    <3>1. Tail(acceptEvents[r]) \in Seq(AcceptEvents)
      BY <1>0, <1>3 DEF RemovalIsDenied
    <3> QED
      BY <1>0, <1>3, <3>1 DEF RemovalIsDenied, DatabaseTypeOK
  <2> QED
    BY <1>0, <1>1, <1>3, <2>1, <2>2, <2>3 DEF RemovalIsDenied, DatabaseTypeOK
<1> QED
  BY <1>2, <1>3 DEF RiderCompletion

-----------------------------------------------------------------------------
(* The process, the cloud function, and the drivers. *)

LEMMA LifeSound ==
  ASSUME RiderInvariant, NEW r \in Riders,
         QuitRiderApp(r) \/ LaunchRiderApp(r) \/ SendPush(r)
  PROVE  RiderInvariant'
<1>0. rider[r] \in SoundMemory /\ rider[r] \in RiderMemory
  BY MemoryFields
<1>1. CASE QuitRiderApp(r)
  BY <1>1, EndRiderAppSound DEF QuitRiderApp
<1>2. CASE LaunchRiderApp(r)
  <2> DEFINE m == [rider[r] EXCEPT !.app = "running"]
  <2>1. m \in RiderMemory /\ m.search = rider[r].search /\ m.result = rider[r].result
    BY <1>0 DEF RiderMemory
  <2>2. m \in SoundMemory
    BY <1>0, <2>1, SoundWithSearch
  <2> QED
    BY <1>2, <2>2, OnlyMemorySound DEF LaunchRiderApp
<1>3. CASE SendPush(r)
  BY <1>3 DEF SendPush, dbVars, RiderInvariant, DatabaseTypeOK
<1> QED
  BY <1>1, <1>2, <1>3

(* What drivers write is typed, and leaves the rider's memory alone. *)
LEMMA DriverSideSound ==
  ASSUME RiderInvariant, NEW d \in Drivers, DriverSide(d)
  PROVE  RiderInvariant'
<1>0. DatabaseTypeOK
  BY DEF RiderInvariant
<1>1. rider' = rider /\ pushes' = pushes /\ acceptObservers' = acceptObservers /\ asked' = asked
  BY DEF DriverSide, AnyDriverDrives, AnyDriverAccepts, AnyDriverRejects,
         AnyDriverAnswersOtherwise, DriverMayWrite
<1>2. CASE AnyDriverDrives(d)
  <2>1. /\ DriverRoutes' \in [Drivers -> Routes \union {NoRoute}]
        /\ DriverLocations' \subseteq Drivers
    BY <1>0, <1>2 DEF AnyDriverDrives, setRoute, setCurrentLocation, removeRoute,
       DatabaseTypeOK, Routes, OptionalRider
  <2> QED
    BY <1>0, <1>1, <1>2, <2>1 DEF AnyDriverDrives, RiderInvariant, DatabaseTypeOK
<1>3. ASSUME NEW q \in Riders, AnyDriverAccepts(q, d)
      PROVE  RiderInvariant'
  <2>1. /\ RideAccepts' \in [Riders -> Answer \union {NoAnswer}]
        /\ acceptEvents' \in [Riders -> Seq(AcceptEvents)]
    BY <1>0, <1>3, SetRideAcceptType DEF AnyDriverAccepts, CarpoolAcceptStatus
  <2>2. /\ RouteRequests' \in [Drivers -> RequestNode]
        /\ requestEvents' \in [Drivers -> Seq(RequestNode)]
    BY <1>0, <1>3, SetRouteRequestType DEF AnyDriverAccepts, CarpoolRequestStatus
  <2>3. DriverRoutes' \in [Drivers -> Routes \union {NoRoute}]
    BY <1>0, <1>3 DEF AnyDriverAccepts, setRoute, DatabaseTypeOK, Routes, OptionalRider
  <2>4. UNCHANGED <<DriverLocations, requestObservers>>
    BY <1>3 DEF AnyDriverAccepts
  <2> QED
    BY <1>1, <2>1, <2>2, <2>3, <2>4 DEF RiderInvariant, DatabaseTypeOK
<1>4. ASSUME NEW q \in Riders, AnyDriverRejects(q, d)
      PROVE  RiderInvariant'
  <2>1. /\ RideAccepts' \in [Riders -> Answer \union {NoAnswer}]
        /\ acceptEvents' \in [Riders -> Seq(AcceptEvents)]
    BY <1>0, <1>4, SetRideAcceptType DEF AnyDriverRejects, CarpoolAcceptStatus
  <2>2. /\ RouteRequests' \in [Drivers -> RequestNode]
        /\ requestEvents' \in [Drivers -> Seq(RequestNode)]
    BY <1>0, <1>4, MarkAndDeleteType DEF AnyDriverRejects
  <2>3. DriverRoutes' \in [Drivers -> Routes \union {NoRoute}]
    BY <1>0, <1>4 DEF AnyDriverRejects, setRoute, DatabaseTypeOK, Routes, OptionalRider
  <2>4. UNCHANGED <<DriverLocations, requestObservers>>
    BY <1>4 DEF AnyDriverRejects
  <2> QED
    BY <1>1, <2>1, <2>2, <2>3, <2>4 DEF RiderInvariant, DatabaseTypeOK
<1>5. ASSUME NEW q \in Riders, AnyDriverAnswersOtherwise(q, d)
      PROVE  RiderInvariant'
  <2>1. PICK s \in OtherAnswers : setRideAccept(d, q, s)
    BY <1>5 DEF AnyDriverAnswersOtherwise
  <2>2. s \in CarpoolAcceptStatus
    BY RiderOutcomeAssumption DEF CarpoolAcceptStatus
  <2>3. /\ RideAccepts' \in [Riders -> Answer \union {NoAnswer}]
        /\ acceptEvents' \in [Riders -> Seq(AcceptEvents)]
    BY <1>0, <2>1, <2>2, SetRideAcceptType
  <2> QED
    BY <1>0, <1>1, <1>5, <2>3 DEF AnyDriverAnswersOtherwise, RiderInvariant, DatabaseTypeOK
<1> QED
  BY <1>2, <1>3, <1>4, <1>5 DEF DriverSide

-----------------------------------------------------------------------------
LEMMA RiderInvariantInit == RiderInit => RiderInvariant
<1> SUFFICES ASSUME RiderInit
             PROVE  RiderInvariant
  OBVIOUS
<1>1. rider \in [Riders -> SoundMemory]
  BY FreshRiderSound DEF RiderInit
<1>2. DatabaseTypeOK
  BY NodesAreTyped DEF RiderInit, DatabaseInit, DatabaseTypeOK
<1> QED
  BY <1>1, <1>2 DEF RiderInit, RiderInvariant

LEMMA RiderInvariantNext == RiderInvariant /\ [RiderNext]_riderVars => RiderInvariant'
<1> SUFFICES ASSUME RiderInvariant, [RiderNext]_riderVars
             PROVE  RiderInvariant'
  OBVIOUS
<1>1. ASSUME NEW r \in Riders, RiderStep(r)
      PROVE  RiderInvariant'
  BY <1>1, MapSound, FindCarpoolSound, SearchStartSound, SearchEndSound, TapSendSound,
     ButtonsSound, AnswersSound, CompletionSound, LifeSound DEF RiderStep, SearchStep
<1>2. ASSUME NEW d \in Drivers, DriverSide(d)
      PROVE  RiderInvariant'
  BY <1>2, DriverSideSound
<1>3. CASE UNCHANGED riderVars
  BY <1>3 DEF riderVars, dbVars, RiderInvariant, DatabaseTypeOK
<1> QED
  BY <1>1, <1>2, <1>3 DEF RiderNext

LEMMA RiderInvariantHolds == RiderSpec => []RiderInvariant
BY RiderInvariantInit, RiderInvariantNext, PTL DEF RiderSpec

(* The rider's nodes, queues and memory have their types: no counter of    *)
(* writes that wait for their completion goes below zero.                  *)
THEOREM RiderTypeCorrect == RiderSpec => []RiderTypeOK
BY RiderInvariantHolds, RiderInvariantMeans, PTL

(* No call of a search fills in the result of another driver: a clearance  *)
(* (clearCarpoolData, cancelCarpool) in the middle of a search empties the *)
(* result, it never leaves one that a later call would complete.           *)
THEOREM SearchKeepsItsDriver == RiderSpec => []SearchFillsItsOwnResult
BY RiderInvariantHolds, RiderInvariantMeans, PTL

-----------------------------------------------------------------------------
(***************************************************************************)
(* The cancel control, for the first request of an app's life and without  *)
(* notifications.  The property says nothing of the page that a new one    *)
(* would be presented over, nor of when an answer may come: no page is     *)
(* orphaned, because a search, whose end presents one, is only under way   *)
(* before the request is sent; and nothing is answered, cancelled or       *)
(* cleared before it either.                                               *)
(***************************************************************************)
Controlled(m, silent) ==
  /\ ~m.page.orphaned
  /\ m.search # NoSearch => silent /\ m.page = NoPage
  /\ silent => /\ m.status = NoStatus
               /\ \A w \in Drivers \X BOOLEAN : m.writes[w] = 0
  /\ m.status = "accepted" =>
       \/ m.badge \in {"cancel", "notice"}
       \/ m.page.kind \in {"proximity", "suggestion"}
       \/ \E w \in Drivers \X BOOLEAN : m.writes[w] > 0

FirstRide(r) ==
  /\ Controlled(rider[r], acceptObservers[r] = <<>>)
  /\ acceptObservers[r] = <<>> => acceptEvents[r] = <<>>

(* What a step of one rider leaves of another. *)
Untouched(e) ==
  /\ rider'[e] = rider[e]
  /\ acceptObservers'[e] = acceptObservers[e]
  /\ acceptEvents'[e] = acceptEvents[e]

LEMMA UntouchedRide ==
  ASSUME NEW e \in Riders, FirstRide(e), Untouched(e)
  PROVE  FirstRide(e)'
BY DEF FirstRide, Untouched

LEMMA FreshRiderControlled ==
  ASSUME NEW app, NEW silent \in BOOLEAN
  PROVE  Controlled(FreshRider(app), silent)
BY DEF Controlled, FreshRider, NoPage, NoStatus

LEMMA EndOfRide ==
  ASSUME RiderInvariant, NEW r \in Riders, NEW how, EndRiderApp(r, how)
  PROVE  FirstRide(r)' /\ \A e \in Riders \ {r} : Untouched(e)
<1>1. /\ rider'[r] = FreshRider(how) /\ acceptObservers'[r] = <<>> /\ acceptEvents'[r] = <<>>
      /\ \A e \in Riders \ {r} : Untouched(e)
  BY DEF EndRiderApp, dropAcceptObservers, RiderInvariant, DatabaseTypeOK, Untouched
<1>2. Controlled(FreshRider(how), TRUE)
  BY FreshRiderControlled
<1> QED
  BY <1>1, <1>2 DEF FirstRide

LEMMA CrashOfRide ==
  ASSUME RiderInvariant, NEW r \in Riders, RiderCrashes(r)
  PROVE  FirstRide(r)' /\ \A e \in Riders \ {r} : Untouched(e)
BY EndOfRide DEF RiderCrashes

(* A step that leaves a controlled memory, and the registrations.          *)
LEMMA RideGoesOn ==
  ASSUME RiderInvariant, NEW r \in Riders, FirstRide(r), NEW m,
         rider' = [rider EXCEPT ![r] = m],
         Controlled(m, acceptObservers[r] = <<>>),
         acceptObservers' = acceptObservers,
         \/ acceptEvents' = acceptEvents
         \/ \E rest : acceptEvents' = [acceptEvents EXCEPT ![r] = rest] /\ acceptEvents[r] # <<>>
  PROVE  FirstRide(r)' /\ \A e \in Riders \ {r} : Untouched(e)
<1>1. rider'[r] = m /\ \A e \in Riders \ {r} : rider'[e] = rider[e]
  BY DEF RiderInvariant
<1>2. \A e \in Riders \ {r} : acceptEvents'[e] = acceptEvents[e]
  BY DEF RiderInvariant, DatabaseTypeOK
<1>3. acceptObservers[r] = <<>> => acceptEvents'[r] = <<>>
  BY DEF FirstRide
<1> QED
  BY <1>1, <1>2, <1>3 DEF FirstRide, Untouched

LEMMA OnlyMemoryGoesOn ==
  ASSUME RiderInvariant, NEW r \in Riders, FirstRide(r), NEW m, OnlyMemory(r, m),
         Controlled(m, acceptObservers[r] = <<>>)
  PROVE  FirstRide(r)' /\ \A e \in Riders \ {r} : Untouched(e)
BY RideGoesOn DEF OnlyMemory, dbVars

(* A memory that differs in nothing the control depends on. *)
LEMMA ControlledAlike ==
  ASSUME NEW old, NEW m, NEW silent \in BOOLEAN, Controlled(old, silent),
         m.page = old.page, m.search \in {old.search, NoSearch}, m.status = old.status,
         m.badge = old.badge, m.writes = old.writes
  PROVE  Controlled(m, silent)
BY DEF Controlled

-----------------------------------------------------------------------------
LEMMA MapOfRide ==
  ASSUME RiderInvariant, NEW r \in Riders, FirstRide(r),
         MapRoutesEvent(r) \/ \E near \in BOOLEAN : MapLocationsEvent(r, near)
  PROVE  FirstRide(r)' /\ \A e \in Riders \ {r} : Untouched(e)
<1>0. rider[r] \in RiderMemory /\ Controlled(rider[r], acceptObservers[r] = <<>>)
  BY MemoryFields DEF FirstRide
<1> DEFINE m == [rider[r] EXCEPT !.mapLocations = DriverLocations]
           k == [rider[r] EXCEPT !.mapRoutes = {d \in Drivers : DriverRoutes[d] # NoRoute}]
           n == WithProximityAlert([m EXCEPT !.didShow = TRUE])
<1>1. Controlled(m, acceptObservers[r] = <<>>) /\ Controlled(k, acceptObservers[r] = <<>>)
  BY <1>0, ControlledAlike DEF RiderMemory
<1>2. ASSUME rider[r].status = "accepted"
      PROVE  Controlled(n, acceptObservers[r] = <<>>)
  <2>1. n.search = rider[r].search /\ n.status = rider[r].status
        /\ n.page = PushOrPresent(rider[r].page, "proximity")
    BY <1>0 DEF WithProximityAlert, RiderMemory
  <2>2. n.page.kind = "proximity" /\ ~n.page.orphaned
    BY <1>0, <2>1 DEF Controlled, PushOrPresent
  <2>3. rider[r].search = NoSearch /\ acceptObservers[r] # <<>>
    BY <1>0, <1>2 DEF Controlled, NoStatus
  <2> QED
    BY <1>0, <1>2, <2>1, <2>2, <2>3 DEF Controlled
<1> HIDE DEF k, m, n
<1>3. \/ OnlyMemory(r, m) \/ OnlyMemory(r, k) \/ RiderCrashes(r)
      \/ rider[r].status = "accepted" /\ OnlyMemory(r, n)
  <2>1. m.status = rider[r].status
    BY <1>0 DEF RiderMemory, m
  <2>2. CASE MapRoutesEvent(r)
    BY <2>2 DEF MapRoutesEvent, k
  <2>3. ASSUME NEW near \in BOOLEAN, MapLocationsEvent(r, near)
        PROVE  \/ OnlyMemory(r, m) \/ RiderCrashes(r)
               \/ rider[r].status = "accepted" /\ OnlyMemory(r, n)
    <3>1. \/ OnlyMemory(r, m) \/ RiderCrashes(r)
          \/ m.status = "accepted" /\ OnlyMemory(r, n)
      BY <2>3 DEF MapLocationsEvent, m, n
    <3> QED
      BY <2>1, <3>1
  <2> QED
    BY <2>2, <2>3
<1> QED
  BY <1>1, <1>2, <1>3, OnlyMemoryGoesOn, CrashOfRide

(* With one request in a life, no registration precedes it. *)
LEMMA NotSentYet ==
  ASSUME RiderInvariant, MaxRequests \in 0..1, NEW r \in Riders,
         Len(acceptObservers[r]) \prec MaxRequests
  PROVE  acceptObservers[r] = <<>>
<1>1. acceptObservers[r] \in Seq(Drivers)
  BY DEF RiderInvariant, DatabaseTypeOK
<1>2. Len(acceptObservers[r]) < MaxRequests
  BY BoundAssumption DEF \prec
<1>3. Len(acceptObservers[r]) = 0
  BY <1>1, <1>2
<1> QED
  BY <1>1, <1>3

(* What no search changes. *)
SameRide(m, old) == m.status = old.status /\ m.writes = old.writes

(* A search only runs before the request is sent. *)
LEMMA SearchOfRide ==
  ASSUME RiderInvariant, MaxRequests \in 0..1, NEW r \in Riders, FirstRide(r),
         FindCarpool(r) \/ SearchStep(r)
  PROVE  FirstRide(r)' /\ \A e \in Riders \ {r} : Untouched(e)
<1> DEFINE old == rider[r]
           silent == acceptObservers[r] = <<>>
<1>0. old \in RiderMemory /\ old.search \in Search /\ Controlled(old, silent)
  BY MemoryFields DEF FirstRide, RiderMemory
<1>1. ASSUME FindCarpool(r)
      PROVE  silent /\ old.page = NoPage
  <2>1. Len(acceptObservers[r]) \prec MaxRequests /\ old.page = NoPage
    BY <1>1 DEF FindCarpool
  <2> QED
    BY <2>1, NotSentYet
<1>2. ASSUME SearchStep(r)
      PROVE  old.search # NoSearch /\ silent /\ old.page = NoPage /\ old.status = NoStatus
  <2>1. old.search.stage # "idle"
    BY <1>2 DEF SearchStep, SearchDetailsFetched, PlanFetched, DriverRouteFetched,
       WalkingRouteFetched, RideDistanceFetched, Searching
  <2> QED
    BY <1>0, <2>1, ManagerTypes DEF Controlled
(* The memories a search may leave: with the page it found, or with the    *)
(* suggestion, which is presented over no other page.                      *)
<1>3. ASSUME NEW m, silent, old.page = NoPage, old.status = NoStatus, OnlyMemory(r, m),
             SameRide(m, old),
             \/ m.page = old.page
             \/ m.page = Present(old.page, "suggestion") /\ m.search = NoSearch
      PROVE  FirstRide(r)' /\ \A e \in Riders \ {r} : Untouched(e)
  <2>1. ~m.page.orphaned
    BY <1>3 DEF Present, NoPage
  <2>2. Controlled(m, silent)
    BY <1>0, <1>3, <2>1 DEF Controlled, NoStatus, SameRide
  <2> QED
    BY <1>3, <2>2, OnlyMemoryGoesOn
<1>4. CASE FindCarpool(r)
  <2>1. PICK m : /\ OnlyMemory(r, m) /\ SameRide(m, old) /\ m.page = old.page
    <3> DEFINE up == [old EXCEPT !.hud = TRUE, !.result.destination = TRUE]
               down == [up EXCEPT !.hud = FALSE]
               s(d) == [up EXCEPT !.search =
                          [stage |-> "details", driver |-> d, usable |-> FALSE]]
    <3>1. SameRide(up, old) /\ up.page = old.page
      BY <1>0 DEF RiderMemory, SameRide
    <3>2. SameRide(down, old) /\ down.page = old.page
      BY <1>0 DEF RiderMemory, SameRide
    <3>3. \A d : SameRide(s(d), old) /\ s(d).page = old.page
      BY <1>0 DEF RiderMemory, SameRide
    <3> HIDE DEF up, down, s
    <3>4. OnlyMemory(r, up) \/ OnlyMemory(r, down) \/ \E d : OnlyMemory(r, s(d))
      BY <1>4 DEF FindCarpool, up, down, s
    <3> QED
      BY <3>1, <3>2, <3>3, <3>4
  <2>2. old.status = NoStatus
    BY <1>0, <1>1, <1>4 DEF Controlled
  <2> QED
    BY <1>1, <1>3, <1>4, <2>1, <2>2
<1>5. CASE SearchStep(r)
  <2>1. \/ RiderCrashes(r)
        \/ \E m : /\ OnlyMemory(r, m) /\ SameRide(m, old)
                  /\ \/ m.page = old.page
                     \/ m.page = Present(old.page, "suggestion") /\ m.search = NoSearch
    <3>1. ASSUME NEW outcome \in SearchDetails, SearchDetailsFetched(r, outcome)
          PROVE  \E m : OnlyMemory(r, m) /\ SameRide(m, old) /\ m.page = old.page
      <4> DEFINE dropped == [old EXCEPT !.search = NoSearch]
                 nobody == [old EXCEPT !.search.stage = "plan", !.search.driver = NoDriver]
                 known == [old EXCEPT !.search.stage = "plan",
                                      !.search.usable = (outcome = "complete")]
      <4>1. /\ SameRide(dropped, old) /\ dropped.page = old.page
            /\ SameRide(nobody, old) /\ nobody.page = old.page
            /\ SameRide(known, old) /\ known.page = old.page
        BY <1>0 DEF RiderMemory, SameRide
      <4> HIDE DEF dropped, nobody, known
      <4>2. OnlyMemory(r, dropped) \/ OnlyMemory(r, nobody) \/ OnlyMemory(r, known)
        BY <3>1 DEF SearchDetailsFetched, dropped, nobody, known
      <4> QED
        BY <4>1, <4>2
    <3>2. ASSUME NEW planned \in PlanOutcomes, PlanFetched(r, planned), ~RiderCrashes(r)
          PROVE  \E m : /\ OnlyMemory(r, m) /\ SameRide(m, old)
                        /\ \/ m.page = old.page
                           \/ /\ m.page = Present(old.page, "suggestion")
                              /\ m.search = NoSearch
      <4> DEFINE known == [old EXCEPT !.result.driver = old.search.driver,
                                      !.result.usable = old.search.usable]
                 shown == [known EXCEPT !.search = NoSearch, !.result.distance = TRUE,
                                        !.result.riderTime = TRUE,
                                        !.page = Present(@, "suggestion"),
                                        !.hasBulletin = TRUE]
                 goesOn == [known EXCEPT !.search.stage = "route"]
      <4>1. known \in RiderMemory /\ SameRide(known, old) /\ known.page = old.page
        BY <1>0 DEF RiderMemory, Search, S1CCarpoolSearchResult, SameRide
      <4>2. /\ SameRide(shown, old) /\ shown.search = NoSearch
            /\ shown.page = Present(old.page, "suggestion")
        <5> HIDE DEF known
        <5> QED
          BY <4>1 DEF RiderMemory, SameRide
      <4>3. SameRide(goesOn, old) /\ goesOn.page = old.page
        <5> HIDE DEF known
        <5> QED
          BY <4>1 DEF RiderMemory, SameRide
      <4> HIDE DEF shown, goesOn
      <4>4. OnlyMemory(r, shown) \/ OnlyMemory(r, goesOn)
        BY <3>2 DEF PlanFetched, shown, goesOn
      <4> QED
        BY <4>2, <4>3, <4>4
    <3>3. ASSUME NEW found \in SearchOutcomes,
                 DriverRouteFetched(r, found) \/ WalkingRouteFetched(r, found),
                 ~RiderCrashes(r)
          PROVE  \E m : OnlyMemory(r, m) /\ SameRide(m, old) /\ m.page = old.page
      <4> DEFINE failed == [old EXCEPT !.hud = FALSE, !.search = NoSearch]
                 walks == [old EXCEPT !.result.driverTime = TRUE, !.search.stage = "walk"]
                 rides == [old EXCEPT !.result.riderTime = TRUE, !.search.stage = "distance"]
      <4>1. /\ SameRide(failed, old) /\ failed.page = old.page
            /\ SameRide(walks, old) /\ walks.page = old.page
            /\ SameRide(rides, old) /\ rides.page = old.page
        BY <1>0 DEF RiderMemory, SameRide
      <4> HIDE DEF failed, walks, rides
      <4>2. OnlyMemory(r, failed) \/ OnlyMemory(r, walks) \/ OnlyMemory(r, rides)
        BY <3>3 DEF DriverRouteFetched, WalkingRouteFetched, SearchFails, failed, walks, rides
      <4> QED
        BY <4>1, <4>2
    <3>4. ASSUME NEW found \in SearchOutcomes, RideDistanceFetched(r, found), ~RiderCrashes(r)
          PROVE  \E m : /\ OnlyMemory(r, m) /\ SameRide(m, old)
                        /\ \/ m.page = old.page
                           \/ /\ m.page = Present(old.page, "suggestion")
                              /\ m.search = NoSearch
      <4> DEFINE ended == [old EXCEPT !.search = NoSearch, !.result.distance = @ \/ found]
                 shown == [ended EXCEPT !.page = Present(@, "suggestion"),
                                        !.hasBulletin = TRUE]
      <4>1. SameRide(ended, old) /\ ended.page = old.page
        BY <1>0 DEF RiderMemory, SameRide
      <4>2. /\ SameRide(shown, old) /\ shown.search = NoSearch
            /\ shown.page = Present(old.page, "suggestion")
        BY <1>0 DEF RiderMemory, SameRide
      <4> HIDE DEF ended, shown
      <4>3. OnlyMemory(r, ended) \/ OnlyMemory(r, shown)
        BY <3>4 DEF RideDistanceFetched, ended, shown
      <4> QED
        BY <4>1, <4>2, <4>3
    <3> QED
      BY <1>5, <3>1, <3>2, <3>3, <3>4 DEF SearchStep
  <2> QED
    BY <1>2, <1>3, <1>5, <2>1, CrashOfRide
<1> QED
  BY <1>4, <1>5

(* Whatever page or badge a cancellation took away, its first write waits  *)
(* when the ride was accepted.                                             *)
LEMMA CancelOfRide ==
  ASSUME RiderInvariant, NEW r \in Riders, FirstRide(r), NEW m \in RiderMemory,
         m.status = rider[r].status, m.search = rider[r].search,
         m.writes = rider[r].writes, m.page \in {rider[r].page, NoPage}, CancelCarpool(r, m)
  PROVE  FirstRide(r)' /\ \A e \in Riders \ {r} : Untouched(e)
<1> DEFINE old == rider[r]
           silent == acceptObservers[r] = <<>>
           d == old.result.driver
           n(granted) == [m EXCEPT !.writes[<<d, granted>>] = @ + 1]
<1>0. Controlled(old, silent) /\ d \in OptionalDriver
  BY MemoryFields DEF FirstRide
<1>1. CASE RiderCrashes(r)
  BY <1>1, CrashOfRide
<1>2. ~m.page.orphaned /\ (m.search # NoSearch => silent /\ m.page = NoPage)
  <2>1. ~NoPage.orphaned
    BY DEF NoPage
  <2>2. CASE m.page = NoPage
    BY <1>0, <2>1, <2>2 DEF Controlled
  <2>3. CASE m.page = old.page
    BY <1>0, <2>3 DEF Controlled
  <2> QED
    BY <2>2, <2>3
<1>3. CASE old.status \in {NoStatus, "rejected"} /\ OnlyMemory(r, m)
  <2>1. m.status # "accepted" /\ (silent => m.status = NoStatus)
    BY <1>0, <1>3 DEF Controlled, NoStatus
  <2>2. Controlled(m, silent)
    BY <1>0, <1>2, <2>1 DEF Controlled
  <2> QED
    BY <1>3, <2>2, OnlyMemoryGoesOn
<1>4. CASE ~RiderCrashes(r) /\ old.status \notin {NoStatus, "rejected"}
  <2>1. d \in Drivers
    BY <1>0, <1>4 DEF CancelCarpool, OptionalDriver
  <2>2. PICK granted \in WriteOutcomes : rider' = [rider EXCEPT ![r] = n(granted)]
    BY <1>4 DEF CancelCarpool
  <2>3. <<d, granted>> \in Drivers \X BOOLEAN
    BY <2>1, RiderOutcomeAssumption
  <2>4. /\ n(granted).page = m.page /\ n(granted).search = m.search
        /\ n(granted).status = m.status /\ n(granted).badge = m.badge
        /\ n(granted).writes = [m.writes EXCEPT ![<<d, granted>>] = @ + 1]
    BY DEF RiderMemory
  <2>5. n(granted).writes[<<d, granted>>] > 0
    <3> DEFINE w == <<d, granted>>
    <3>1. m.writes \in [Drivers \X BOOLEAN -> Nat]
      BY DEF RiderMemory
    <3>2. w \in Drivers \X BOOLEAN
      BY <2>3
    <3>3. m.writes[w] \in Nat
      BY <3>1, <3>2
    <3>4. n(granted).writes[w] = m.writes[w] + 1
      <4> HIDE DEF w
      <4>1. n(granted).writes = [m.writes EXCEPT ![w] = @ + 1]
        BY <2>4 DEF w
      <4> HIDE DEF n
      <4> QED
        BY <3>1, <3>2, <4>1
    <3> HIDE DEF n
    <3> QED
      BY <3>3, <3>4
  <2>6. Controlled(n(granted), silent)
    <3>1. ~silent
      BY <1>0, <1>4 DEF Controlled
    <3> HIDE DEF n
    <3> QED
      BY <1>2, <2>3, <2>4, <2>5, <3>1 DEF Controlled
  <2>7. acceptObservers' = acceptObservers /\ acceptEvents' = acceptEvents
    BY <1>4 DEF CancelCarpool
  <2> HIDE DEF n
  <2> QED
    BY <2>2, <2>6, <2>7, RideGoesOn
<1> QED
  BY <1>1, <1>3, <1>4 DEF CancelCarpool

LEMMA ButtonsOfRide ==
  ASSUME RiderInvariant, NEW r \in Riders, FirstRide(r),
         \/ TapCancelSuggestion(r) \/ TapCancelRide(r) \/ TapConfirmProximity(r)
         \/ TapCancelProximity(r) \/ DismissRejection(r)
  PROVE  FirstRide(r)' /\ \A e \in Riders \ {r} : Untouched(e)
<1> DEFINE old == rider[r]
           silent == acceptObservers[r] = <<>>
<1>0. old \in RiderMemory /\ Controlled(old, silent) /\ DismissedPage(old.page) = NoPage
  BY MemoryFields DEF FirstRide, Controlled, DismissedPage
<1>1. CASE TapCancelSuggestion(r) \/ TapCancelProximity(r)
  <2> DEFINE m == [old EXCEPT !.page = DismissedPage(@), !.hud = FALSE]
  <2>1. /\ m \in RiderMemory /\ m.status = old.status /\ m.search = old.search
        /\ m.page = NoPage /\ m.writes = old.writes
    BY <1>0, ManagerTypes DEF RiderMemory
  <2> HIDE DEF m
  <2>2. CancelCarpool(r, m)
    BY <1>1 DEF TapCancelSuggestion, TapCancelProximity, m
  <2> QED
    BY <2>1, <2>2, CancelOfRide
<1>2. CASE TapCancelRide(r)
  <2> DEFINE m == [old EXCEPT !.badge = "none"]
  <2>1. /\ m \in RiderMemory /\ m.status = old.status /\ m.search = old.search
        /\ m.page = old.page /\ m.writes = old.writes
    BY <1>0 DEF RiderMemory
  <2> HIDE DEF m
  <2>2. CancelCarpool(r, m)
    BY <1>2 DEF TapCancelRide, m
  <2> QED
    BY <2>1, <2>2, CancelOfRide
<1>3. CASE TapConfirmProximity(r)
  <2> DEFINE m == [old EXCEPT !.page = DismissedPage(@), !.badge = "notice"]
  <2>1. /\ m.status = old.status /\ m.search = old.search /\ m.page = NoPage
        /\ m.badge = "notice" /\ m.writes = old.writes
    BY <1>0 DEF RiderMemory
  <2> HIDE DEF m
  <2>2. Controlled(m, silent)
    BY <1>0, <2>1 DEF Controlled, NoPage
  <2>3. OnlyMemory(r, m)
    BY <1>3 DEF TapConfirmProximity, m
  <2> QED
    BY <2>2, <2>3, OnlyMemoryGoesOn
<1>4. CASE DismissRejection(r)
  <2> DEFINE m == [old EXCEPT !.page = NoPage]
  <2>1. /\ m.status = old.status /\ m.search = old.search /\ m.page = NoPage
        /\ m.badge = old.badge /\ m.writes = old.writes
    BY <1>0 DEF RiderMemory
  <2>2. old.page.kind = "rejected" /\ OnlyMemory(r, m)
    BY <1>4 DEF DismissRejection
  <2> HIDE DEF m
  <2>3. Controlled(m, silent)
    BY <1>0, <2>1, <2>2 DEF Controlled, NoPage
  <2> QED
    BY <2>2, <2>3, OnlyMemoryGoesOn
<1> QED
  BY <1>1, <1>2, <1>3, <1>4

LEMMA TapSendOfRide ==
  ASSUME RiderInvariant, MaxRequests \in 0..1, NEW r \in Riders, FirstRide(r), TapSend(r)
  PROVE  FirstRide(r)' /\ \A e \in Riders \ {r} : Untouched(e)
<1> DEFINE old == rider[r]
           m == [old EXCEPT !.hud = FALSE, !.page = DismissedPage(@)]
<1>0. old \in RiderMemory /\ Controlled(old, acceptObservers[r] = <<>>)
  BY MemoryFields DEF FirstRide
<1>1. CASE RiderCrashes(r)
  BY <1>1, CrashOfRide
<1>2. CASE ~RiderCrashes(r)
  <2>1. acceptObservers[r] = <<>> /\ old.page.kind = "suggestion"
    BY <1>2, NotSentYet DEF TapSend
  <2>2. old.search = NoSearch /\ old.status = NoStatus /\ DismissedPage(old.page) = NoPage
    BY <1>0, <2>1 DEF Controlled, NoPage, DismissedPage
  <2>3. m.search = NoSearch /\ m.status = NoStatus /\ m.page = NoPage
    BY <1>0, <2>2 DEF RiderMemory
  <2>4. rider' = [rider EXCEPT ![r] = m]
    BY <1>2 DEF TapSend
  <2>5. PICK d : startObservingRideAcceptForMyRiderID(r, d)
    BY <1>2 DEF TapSend
  <2> HIDE DEF m
  <2>6. Controlled(m, FALSE)
    BY <2>3 DEF Controlled, NoPage, NoStatus
  <2>7. acceptObservers'[r] # <<>>
    <3>1. acceptObservers'[r] = Append(<<>>, d)
      BY <2>1, <2>5 DEF startObservingRideAcceptForMyRiderID, RiderInvariant, DatabaseTypeOK
    <3>2. Append(<<>>, d) # <<>>
      OBVIOUS
    <3> QED
      BY <3>1, <3>2
  <2>8. \A e \in Riders \ {r} : Untouched(e)
    BY <2>4, <2>5 DEF startObservingRideAcceptForMyRiderID, Untouched, RiderInvariant,
       DatabaseTypeOK
  <2>9. rider'[r] = m
    BY <2>4 DEF RiderInvariant
  <2> QED
    BY <2>6, <2>7, <2>8, <2>9 DEF FirstRide
<1> QED
  BY <1>1, <1>2

-----------------------------------------------------------------------------
(* An answer is only heard after the request, when no search is under way. *)
LEMMA ProcessedRide ==
  ASSUME RiderInvariant, NEW r \in Riders, FirstRide(r), acceptEvents[r] # <<>>,
         NEW m, NEW rest, Processed(r, m, rest),
         m.search = rider[r].search, ~m.page.orphaned,
         m.status # "accepted" \/ m.badge \in {"cancel", "notice"}
  PROVE  FirstRide(r)' /\ \A e \in Riders \ {r} : Untouched(e)
<1>1. acceptObservers[r] # <<>> /\ m.search = NoSearch
  BY DEF FirstRide, Controlled
<1>2. Controlled(m, acceptObservers[r] = <<>>)
  BY <1>1 DEF Controlled
<1> QED
  BY <1>2, RideGoesOn DEF Processed, UnchangedButAnswers

LEMMA AnswersOfRide ==
  ASSUME RiderInvariant, PushStatuses = {}, NEW r \in Riders, FirstRide(r),
         AcceptEvent(r) \/ \E s \in PushStatuses : PushReceived(r, s)
  PROVE  FirstRide(r)' /\ \A e \in Riders \ {r} : Untouched(e)
<1> DEFINE old == rider[r]
           d == old.result.driver
           rest == Tail(acceptEvents[r])
           accepted == [old EXCEPT !.status = "accepted", !.badge = "cancel",
                                   !.page = DismissedPage(@)]
           shown == [old EXCEPT !.status = "rejected", !.badge = "none",
                                !.page = PushOrPresent(@, "rejected")]
           clean == [shown EXCEPT !.status = NoStatus, !.didShow = FALSE, !.result = NoResult]
           n(granted) == [shown EXCEPT !.writes[<<d, granted>>] = @ + 1]
           confirmed == [old EXCEPT !.status = "confirmed"]
           met == WithProximityAlert(confirmed)
           arrived == [old EXCEPT !.status = "arrived", !.badge = "notice"]
<1>0. /\ old \in RiderMemory /\ Controlled(old, acceptObservers[r] = <<>>)
      /\ ~DismissedPage(old.page).orphaned
      /\ ~PushOrPresent(old.page, "rejected").orphaned
      /\ ~PushOrPresent(old.page, "proximity").orphaned
  BY MemoryFields DEF FirstRide, Controlled, DismissedPage, PushOrPresent, NoPage
<1>1. /\ accepted.search = old.search /\ ~accepted.page.orphaned /\ accepted.badge = "cancel"
  BY <1>0 DEF RiderMemory
<1>2. /\ shown.search = old.search /\ ~shown.page.orphaned /\ shown.status = "rejected"
      /\ shown \in RiderMemory
  BY <1>0, ManagerTypes DEF RiderMemory, CarpoolAcceptStatus
<1>3. /\ clean.search = old.search /\ ~clean.page.orphaned /\ clean.status = NoStatus
  <2> HIDE DEF shown
  <2> QED
    BY <1>2 DEF RiderMemory
<1>4. \A granted : /\ n(granted).search = old.search /\ ~n(granted).page.orphaned
                   /\ n(granted).status = "rejected"
  <2> HIDE DEF shown
  <2> QED
    BY <1>2 DEF RiderMemory
<1>5. /\ met.search = old.search /\ ~met.page.orphaned /\ met.status = "confirmed"
  BY <1>0 DEF RiderMemory, WithProximityAlert
<1>6. /\ arrived.search = old.search /\ ~arrived.page.orphaned /\ arrived.status = "arrived"
  BY <1>0 DEF RiderMemory, Controlled
<1>7. AcceptEvent(r) /\ acceptEvents[r] # <<>>
  BY DEF AcceptEvent
<1> HIDE DEF accepted, shown, clean, n, met, arrived
<1>8. \/ RiderCrashes(r)
      \/ Processed(r, accepted, rest) \/ Processed(r, clean, rest)
      \/ \E granted : Processed(r, n(granted), rest)
      \/ Processed(r, met, rest) \/ Processed(r, arrived, rest)
      \/ Processed(r, old, rest)
  BY <1>7 DEF AcceptEvent, ProcessStatus, ProcessAccepted, ProcessRejected, ProcessConfirmed,
     ProcessArrived, ProcessKnown, accepted, shown, clean, n, met, arrived
<1>9. CASE Processed(r, old, rest)
  <2>1. rider' = [rider EXCEPT ![r] = old]
    BY <1>9 DEF Processed
  <2> QED
    BY <1>0, <1>7, <1>9, <2>1, RideGoesOn DEF Processed, UnchangedButAnswers
<1> QED
  BY <1>1, <1>3, <1>4, <1>5, <1>6, <1>7, <1>8, <1>9, ProcessedRide, CrashOfRide DEF NoStatus

(* A clean-up takes the status, and needs no control.                      *)
LEMMA CleanUpOfRide ==
  ASSUME RiderInvariant, NEW r \in Riders, FirstRide(r), NEW m \in RiderMemory,
         m.page = rider[r].page, m.search = rider[r].search,
         rider' = [rider EXCEPT ![r] = CleanedUp(m)],
         acceptObservers[r] # <<>>, acceptObservers' = acceptObservers,
         \A e \in Riders \ {r} : acceptEvents'[e] = acceptEvents[e]
  PROVE  FirstRide(r)' /\ \A e \in Riders \ {r} : Untouched(e)
<1>1. rider'[r] = CleanedUp(m) /\ \A e \in Riders \ {r} : rider'[e] = rider[e]
  BY DEF RiderInvariant
<1>2. /\ CleanedUp(m).page = rider[r].page /\ CleanedUp(m).search = rider[r].search
      /\ CleanedUp(m).status = NoStatus
  BY DEF CleanedUp, RiderMemory
<1>3. Controlled(rider[r], FALSE)
  BY DEF FirstRide
<1> HIDE DEF CleanedUp
<1>4. Controlled(CleanedUp(m), FALSE)
  BY <1>2, <1>3 DEF Controlled, NoStatus
<1> QED
  BY <1>1, <1>4 DEF FirstRide, Untouched

LEMMA CompletionOfRide ==
  ASSUME RiderInvariant, NEW r \in Riders, FirstRide(r), RiderCompletion(r)
  PROVE  FirstRide(r)' /\ \A e \in Riders \ {r} : Untouched(e)
<1>0. /\ rider[r] \in RiderMemory /\ Controlled(rider[r], acceptObservers[r] = <<>>)
      /\ acceptEvents \in [Riders -> Seq(AcceptEvents)]
  BY MemoryFields DEF FirstRide, RiderInvariant, DatabaseTypeOK
<1>1. ASSUME NEW d \in Drivers, NEW granted \in BOOLEAN, WriteCompletes(r, d, granted)
      PROVE  FirstRide(r)' /\ \A e \in Riders \ {r} : Untouched(e)
  <2> DEFINE w == <<d, granted>>
             m == [rider[r] EXCEPT !.writes[w] = @ - 1]
  <2>1. w \in Drivers \X BOOLEAN /\ rider[r].writes[w] > 0
    BY <1>1 DEF WriteCompletes
  <2>2. m \in RiderMemory /\ m.search = rider[r].search /\ m.page = rider[r].page
    BY <2>1, WriteTakenType
  <2>3. rider' = [rider EXCEPT ![r] = CleanedUp(m)] /\ acceptObservers' = acceptObservers
    BY <1>1 DEF WriteCompletes, UnchangedByCompletion, CleanedUp
  <2>4. \A e \in Riders \ {r} : acceptEvents'[e] = acceptEvents[e]
    BY <1>0, <1>1 DEF WriteCompletes, SecondWrite, removeRideAccept, removeRideAcceptDenied
  <2> HIDE DEF m, w
  <2>5. acceptObservers[r] # <<>>
    <3>1. rider[r].writes[w] # 0
      BY <2>1
    <3> QED
      BY <1>0, <2>1, <3>1 DEF Controlled
  <2> QED
    BY <2>2, <2>3, <2>4, <2>5, CleanUpOfRide
<1>2. ASSUME RemovalIsDenied(r)
      PROVE  FirstRide(r)' /\ \A e \in Riders \ {r} : Untouched(e)
  <2>1. rider' = [rider EXCEPT ![r] = CleanedUp(rider[r])] /\ acceptObservers' = acceptObservers
    BY <1>2 DEF RemovalIsDenied, UnchangedByCompletion, RiderInvariant
  <2>2. \A e \in Riders \ {r} : acceptEvents'[e] = acceptEvents[e]
    BY <1>0, <1>2 DEF RemovalIsDenied
  <2>3. acceptObservers[r] # <<>>
    BY <1>2 DEF RemovalIsDenied, FirstRide
  <2> QED
    BY <1>0, <2>1, <2>2, <2>3, CleanUpOfRide
<1> QED
  BY <1>1, <1>2 DEF RiderCompletion

LEMMA LifeOfRide ==
  ASSUME RiderInvariant, NEW r \in Riders, FirstRide(r),
         QuitRiderApp(r) \/ LaunchRiderApp(r) \/ SendPush(r)
  PROVE  FirstRide(r)' /\ \A e \in Riders \ {r} : Untouched(e)
<1>0. rider[r] \in RiderMemory /\ Controlled(rider[r], acceptObservers[r] = <<>>)
  BY MemoryFields DEF FirstRide
<1>1. CASE QuitRiderApp(r)
  BY <1>1, EndOfRide DEF QuitRiderApp
<1>2. CASE LaunchRiderApp(r)
  <2> DEFINE m == [rider[r] EXCEPT !.app = "running"]
  <2>1. Controlled(m, acceptObservers[r] = <<>>)
    BY <1>0, ControlledAlike DEF RiderMemory
  <2> QED
    BY <1>2, <2>1, OnlyMemoryGoesOn DEF LaunchRiderApp
<1>3. CASE SendPush(r)
  BY <1>3 DEF SendPush, dbVars, FirstRide, Untouched
<1> QED
  BY <1>1, <1>2, <1>3

(* All steps of the rider's app. *)
LEMMA StepOfRide ==
  ASSUME RiderInvariant, MaxRequests \in 0..1, PushStatuses = {},
         NEW r \in Riders, FirstRide(r), RiderStep(r)
  PROVE  FirstRide(r)' /\ \A e \in Riders \ {r} : Untouched(e)
BY MapOfRide, SearchOfRide, TapSendOfRide, ButtonsOfRide, AnswersOfRide, CompletionOfRide,
   LifeOfRide DEF RiderStep

(* What a driver answers is only heard by those who asked. *)
LEMMA AnsweredRide ==
  ASSUME RiderInvariant, NEW e \in Riders, FirstRide(e),
         rider' = rider, acceptObservers' = acceptObservers,
         acceptEvents' = acceptEvents \/ \E d, q, s : setRideAccept(d, q, s)
  PROVE  FirstRide(e)'
<1>1. ASSUME acceptObservers[e] = <<>>
      PROVE  acceptEvents'[e] = <<>>
  <2>1. acceptEvents[e] = <<>>
    BY <1>1 DEF FirstRide
  <2>2. ASSUME NEW d, NEW q, NEW s, setRideAccept(d, q, s)
        PROVE  acceptEvents'[e] = <<>>
    <3> DEFINE answer == [driver |-> d, status |-> s]
    <3>1. AcceptSnapshots(<<>>, answer) = <<>>
      BY DEF AcceptSnapshots
    <3>2. CASE q = e
      <4>1. acceptEvents'[e] = acceptEvents[e] \o AcceptSnapshots(acceptObservers[e], answer)
        BY <2>2, <3>2 DEF setRideAccept, RiderInvariant, DatabaseTypeOK
      <4>2. <<>> \o <<>> = <<>>
        OBVIOUS
      <4> HIDE DEF answer
      <4> QED
        BY <1>1, <2>1, <3>1, <4>1, <4>2
    <3>3. CASE q # e
      BY <2>1, <2>2, <3>3 DEF setRideAccept, RiderInvariant, DatabaseTypeOK
    <3> QED
      BY <3>2, <3>3
  <2> QED
    BY <2>1, <2>2
<1> QED
  BY <1>1 DEF FirstRide

LEMMA DriverSideOfRide ==
  ASSUME RiderInvariant, NEW d \in Drivers, DriverSide(d), NEW e \in Riders, FirstRide(e)
  PROVE  FirstRide(e)'
<1>1. rider' = rider /\ acceptObservers' = acceptObservers
  BY DEF DriverSide, AnyDriverDrives, AnyDriverAccepts, AnyDriverRejects,
         AnyDriverAnswersOtherwise, DriverMayWrite
<1>2. acceptEvents' = acceptEvents \/ \E q, s : setRideAccept(d, q, s)
  BY DEF DriverSide, AnyDriverDrives, AnyDriverAccepts, AnyDriverRejects,
         AnyDriverAnswersOtherwise
<1> QED
  BY <1>1, <1>2, AnsweredRide

LEMMA FirstRideInit ==
  ASSUME RiderInit, NEW r \in Riders
  PROVE  FirstRide(r)
<1>1. /\ rider[r] = FreshRider("running")
      /\ acceptObservers[r] = <<>> /\ acceptEvents[r] = <<>>
  BY DEF RiderInit, DatabaseInit
<1>2. Controlled(FreshRider("running"), acceptObservers[r] = <<>>)
  BY FreshRiderControlled
<1> QED
  BY <1>1, <1>2 DEF FirstRide

(* In the first request of an app's life, without notifications, an        *)
(* accepted rider can cancel until it has confirmed the pick-up or has     *)
(* cancelled already, whatever badges and pages replace each other.        *)
THEOREM AcceptedRideKeepsCancel ==
  ASSUME MaxRequests \in 0..1, PushStatuses = {}
  PROVE  RiderSpec => []AcceptedRideCanBeCancelled
<1> DEFINE Inv == \A r \in Riders : FirstRide(r)
<1>1. RiderInit => Inv
  BY FirstRideInit
<1>2. RiderInvariant /\ Inv /\ [RiderNext]_riderVars => Inv'
  <2> SUFFICES ASSUME RiderInvariant, Inv, [RiderNext]_riderVars, NEW e \in Riders
               PROVE  FirstRide(e)'
    OBVIOUS
  <2>1. FirstRide(e)
    OBVIOUS
  <2>2. ASSUME NEW r \in Riders, RiderStep(r)
        PROVE  FirstRide(r)' /\ \A f \in Riders \ {r} : Untouched(f)
    <3>1. FirstRide(r)
      OBVIOUS
    <3> QED
      BY <2>2, <3>1, StepOfRide
  <2>3. ASSUME NEW r \in Riders, RiderStep(r)
        PROVE  FirstRide(e)'
    <3>1. CASE e = r
      BY <2>2, <2>3, <3>1
    <3>2. CASE e # r
      BY <2>1, <2>2, <2>3, <3>2, UntouchedRide
    <3> QED
      BY <3>1, <3>2
  <2>4. ASSUME NEW d \in Drivers, DriverSide(d)
        PROVE  FirstRide(e)'
    BY <2>1, <2>4, DriverSideOfRide
  <2>5. CASE UNCHANGED riderVars
    <3>1. Untouched(e)
      BY <2>5 DEF riderVars, dbVars, Untouched
    <3> QED
      BY <2>1, <3>1, UntouchedRide
  <2> QED
    BY <2>3, <2>4, <2>5 DEF RiderNext
<1>3. Inv => AcceptedRideCanBeCancelled
  BY DEF FirstRide, Controlled, AcceptedRideCanBeCancelled, HasCancelControl
<1> QED
  BY <1>1, <1>2, <1>3, RiderInvariantHolds, PTL DEF RiderSpec

-----------------------------------------------------------------------------
(* The fee on the suggestion page. *)

(* A ride costs the basic fee at least, whatever its length.               *)
THEOREM FeeIsBasicAtLeast ==
  \A metres \in Nat : driverFeeForDistance(metres) \in Nat
                        /\ driverFeeForDistance(metres) >= 100000
  BY DEF driverFeeForDistance

(* Up to 21 km, and from there on, a longer ride costs no less: in         *)
(* particular the bands meet at 4 km and do not cross at 11 km.            *)
THEOREM FeeGrowsWithin21Kilometres ==
  ASSUME NEW short \in Nat, NEW long \in Nat, short <= long,
         long < 21000 \/ short >= 21000
  PROVE  driverFeeForDistance(short) <= driverFeeForDistance(long)
<1>1. CASE long < 4000
  BY <1>1 DEF driverFeeForDistance
<1>2. CASE 4000 <= long /\ long < 11000
  BY <1>2 DEF driverFeeForDistance
<1>3. CASE 11000 <= long /\ long < 21000
  BY <1>3 DEF driverFeeForDistance
<1>4. CASE 21000 <= long
  BY <1>4 DEF driverFeeForDistance
<1>5. QED
  BY <1>1, <1>2, <1>3, <1>4

(* At 21 km it drops: the rate of the last band counts from 20 km, and the *)
(* kilometre before it is paid at the lower rate all at once.              *)
THEOREM FeeDropsAt21Kilometres ==
  /\ driverFeeForDistance(20999) = 404985 /\ driverFeeForDistance(21000) = 400000
  /\ driverFeeStringValue(driverFeeForDistance(21000))
       < driverFeeStringValue(driverFeeForDistance(20999))
<1>1. driverFeeForDistance(20999) = 404985 /\ driverFeeForDistance(21000) = 400000
  BY DEF driverFeeForDistance
<1>2. QED
  BY <1>1 DEF driverFeeStringValue

(* That is the only drop, and a small one: no longer ride is cheaper than  *)
(* a shorter one by five cents or more.                                    *)
THEOREM LongerRideIsHardlyCheaper ==
  ASSUME NEW short \in Nat, NEW long \in Nat, short <= long
  PROVE  driverFeeForDistance(short) < driverFeeForDistance(long) + 5000
<1>1. CASE long < 21000 \/ short >= 21000
  <2>1. driverFeeForDistance(long) \in Nat /\ driverFeeForDistance(short) \in Nat
    BY FeeIsBasicAtLeast
  <2>2. driverFeeForDistance(short) <= driverFeeForDistance(long)
    BY <1>1, FeeGrowsWithin21Kilometres
  <2>3. QED
    BY <2>1, <2>2
<1>2. CASE short < 21000 /\ 21000 <= long
  <2>1. driverFeeForDistance(long) >= 400000 /\ driverFeeForDistance(long) \in Nat
    BY <1>2 DEF driverFeeForDistance
  <2>2. driverFeeForDistance(short) <= 404985 /\ driverFeeForDistance(short) \in Nat
    BY <1>2 DEF driverFeeForDistance
  <2>3. QED
    BY <2>1, <2>2
<1>3. QED
  BY <1>1, <1>2
==============================================================================
