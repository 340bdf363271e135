------------------------------ MODULE Carpool ------------------------------
(***************************************************************************)
(* The whole protocol: drivers' and riders' apps that meet in the          *)
(* database, with no one else writing to it.                               *)
(***************************************************************************)
EXTENDS DriverClient, RiderClient

VARIABLE interrupted   \* history: the drivers at whom a cancellation has met a call
                       \* in flight, until all is delivered and answered again

carpoolVars == <<driver, rider, pushes, dbVars, interrupted>>

CallsInFlight(d) == driver[d].calls # FreshMemory("running").calls

(* Nothing is on its way to the driver's app, which shows no request.      *)
DriverIsQuiet(d) ==
  requestEvents[d] = <<>> /\ ~CallsInFlight(d) /\ driver[d].alert = NoAlert

(* A cancellation is on its way to an app that waits for an answer about   *)
(* some request.                                                           *)
CancellationMeetsCalls(d) ==
  /\ CallsInFlight(d)
  /\ \E i \in DOMAIN requestEvents[d] : requestEvents[d][i].status = "riderCancelled"

CarpoolInit ==
  /\ DriverInit
  /\ rider = [r \in Riders |-> FreshRider("running")]
  /\ pushes = [r \in Riders |-> {}]
  /\ interrupted = {}

CarpoolNext ==
  /\ \/ \E d \in Drivers : DriverStep(d) /\ UNCHANGED <<rider, pushes>>
     \/ \E r \in Riders : RiderStep(r) /\ UNCHANGED driver
  /\ interrupted' = {d \in Drivers : \/ CancellationMeetsCalls(d)'
                                     \/ d \in interrupted /\ ~DriverIsQuiet(d)'}

CarpoolSpec == CarpoolInit /\ [][CarpoolNext]_carpoolVars

-----------------------------------------------------------------------------
(* What each side may assume of the other: seen from a driver's app, the   *)
(* riders' observers do not exist; seen from a rider's, the drivers'.      *)
DriverView == INSTANCE DriverClient WITH
  acceptObservers <- [r \in Riders |-> <<>>],
  acceptEvents <- [r \in Riders |-> <<>>],
  MaxStarts <- Unbounded, MaxCalls <- Unbounded, MaxEvents <- Unbounded

RiderView == INSTANCE RiderClient WITH
  requestObservers <- [d \in Drivers |-> 0],
  requestEvents <- [d \in Drivers |-> <<>>],
  MaxRequests <- Unbounded, MaxWrites <- Unbounded, MaxEvents <- Unbounded

(* Every behaviour of the composition is one the driver's app was checked  *)
(* against: riders write nothing a driver's app was not prepared for.      *)
DriversMeetTheirRiders == DriverView!DriverSpec

(* And one the rider's app was checked against: in particular, a driver    *)
(* answers only riders who asked it.                                       *)
RidersMeetTheirDrivers == RiderView!RiderSpec

-----------------------------------------------------------------------------
(* Safety of the composition. *)

(* Nothing is on its way to the rider's app.                               *)
RiderIsQuiet(r) ==
  /\ acceptEvents[r] = <<>>
  /\ \A w \in Drivers \X BOOLEAN : rider[r].writes[w] = 0

(* When all is delivered, a rider who listens and whose node says          *)
(* `accepted' has been told so: no cancellation, clearance or earlier      *)
(* answer in between makes the app miss or forget it.  This is stated of   *)
(* the first request of an app's life, with writes granted and without     *)
(* notifications: a denied cancellation, a late notification of a          *)
(* rejection, or the end of an earlier ride clears the status of an answer *)
(* that stays at the node.                                                 *)
AcceptedAnswerReachesRider ==
  \A r \in Riders :
    /\ RiderRuns(r) /\ acceptObservers[r] # <<>> /\ RiderIsQuiet(r)
    /\ RideAccepts[r].status = "accepted"
    => rider[r].status = "accepted"

(* The callbacks of processNewCarpoolRequest all work on one               *)
(* currentCarpoolRequest.  In the whole protocol they meet only after a    *)
(* cancellation that came in between: without one, at most one chain of    *)
(* calls is in flight, however many riders ask, and no alert is put above  *)
(* another.                                                                *)
OneRequestIsPrepared ==
  \A d \in Drivers \ interrupted :
    LET calls == driver[d].calls IN
    /\ \A r, s \in Riders : r # s => calls.details[r] = 0 \/ calls.details[s] = 0
    /\ \A r \in Riders : calls.details[r] + calls.time + calls.distance <= 1
    /\ driver[d].alert.state # "orphaned"

(* The alert names the rider whose pick-up the detour will lead to, though *)
(* other riders overwrite the request between its snapshot and the alert,  *)
(* unless a cancellation came in between.                                  *)
AlertNamesThePickUp ==
  \A d \in Drivers \ interrupted :
    driver[d].alert.state = "shown" => driver[d].alert.names = driver[d].request.rider

-----------------------------------------------------------------------------
(* What the program says of itself and does not do. *)

(* OnboardingManager.swift:125 tells drivers they can accept or decline    *)
(* requests while driving: no request is left without an alert when        *)
(* everything has been delivered to a driver under way.                    *)
NoRequestIsIgnored ==
  \A d \in Drivers :
    driver[d].navigating /\ DriverIsQuiet(d) => RouteRequests[d].status # "requested"

(* CarpoolAcceptManager.swift:509 titles the alert with the rider it is    *)
(* about: that rider is the one who gets the answer.                       *)
ShownRiderIsAnswered ==
  \A d \in Drivers :
    driver[d].alert.state = "shown" => driver[d].riderID = driver[d].alert.names

(* CarpoolSearchManager.swift:248 tells the rider "Request accepted,       *)
(* follow the map to meet the driver": when all is delivered, an accepting *)
(* answer is there.                                                        *)
AcceptedRiderHasAnswer ==
  \A r \in Riders :
    rider[r].status = "accepted" /\ RiderIsQuiet(r) => RideAccepts[r].status = "accepted"
=============================================================================
