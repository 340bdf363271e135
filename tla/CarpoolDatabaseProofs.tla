------------------------ MODULE CarpoolDatabaseProofs ------------------------
(***************************************************************************)
(* The operations of the two data managers keep the nodes and the queues   *)
(* of snapshots typed: the lemmas both apps' proofs rest on.               *)
(***************************************************************************)
EXTENDS CarpoolDatabase, SequenceTheorems, TLAPS

(* A snapshot is queued once for each registration. *)
LEMMA RequestSnapshotsType ==
  ASSUME NEW n \in Nat, NEW node \in RequestNode
  PROVE  RequestSnapshots(n, node) \in Seq(RequestNode)
<1>1. [i \in 1..n |-> node] \in [1..n -> RequestNode]
  OBVIOUS
<1>2. [i \in 1..n |-> node] \in Seq(RequestNode)
  BY <1>1, SeqDef
<1>3. <<>> \in Seq(RequestNode)
  OBVIOUS
<1> QED
  BY <1>2, <1>3 DEF RequestSnapshots

(* An answer is queued with the driver each registration captured. *)
LEMMA AcceptSnapshotsType ==
  ASSUME NEW observers \in Seq(Drivers), NEW answer \in Answer
  PROVE  AcceptSnapshots(observers, answer) \in Seq(AcceptEvents)
<1> DEFINE events == [i \in 1..Len(observers) |->
                        [captured |-> observers[i], answer |-> answer]]
<1>1. Len(observers) \in Nat /\ \A i \in 1..Len(observers) : observers[i] \in Drivers
  OBVIOUS
<1>2. events \in [1..Len(observers) -> AcceptEvents]
  BY <1>1 DEF AcceptEvents
<1>3. events \in Seq(AcceptEvents)
  BY <1>1, <1>2, SeqDef
<1> QED
  BY <1>3 DEF AcceptSnapshots

(* The nodes the operations write have their types. *)
LEMMA NodesAreTyped ==
  /\ NoRequest \in RequestNode
  /\ \A r \in Riders : RequestFrom(r) \in RequestNode
  /\ \A node \in RequestNode, s \in CarpoolRequestStatus : WithStatus(node, s) \in RequestNode
  /\ \A d \in Drivers, s \in CarpoolAcceptStatus : [driver |-> d, status |-> s] \in Answer
BY DEF NoRequest, RequestFrom, WithStatus, RequestNode, Answer, CarpoolRequestStatus,
       OptionalRider, NoStatus

(* A write queues its snapshots behind those that wait. *)
LEMMA WriteRequestType ==
  ASSUME DatabaseTypeOK, NEW d \in Drivers, NEW node \in RequestNode,
         WriteRequest(d, node)
  PROVE  /\ RouteRequests' \in [Drivers -> RequestNode]
         /\ requestEvents' \in [Drivers -> Seq(RequestNode)]
<1>1. RequestSnapshots(requestObservers[d], node) \in Seq(RequestNode)
  BY RequestSnapshotsType DEF DatabaseTypeOK
<1>2. requestEvents[d] \o RequestSnapshots(requestObservers[d], node) \in Seq(RequestNode)
  BY <1>1 DEF DatabaseTypeOK
<1> QED
  BY <1>2 DEF DatabaseTypeOK, WriteRequest

(* So does an answer, with the driver that gives it. *)
LEMMA SetRideAcceptType ==
  ASSUME DatabaseTypeOK, NEW d \in Drivers, NEW r, NEW s \in CarpoolAcceptStatus,
         setRideAccept(d, r, s)
  PROVE  /\ RideAccepts' \in [Riders -> Answer \union {NoAnswer}]
         /\ acceptEvents' \in [Riders -> Seq(AcceptEvents)]
<1> DEFINE answer == [driver |-> d, status |-> s]
<1>1. answer \in Answer
  BY NodesAreTyped
<1>2. ASSUME r \in Riders
      PROVE  acceptEvents[r] \o AcceptSnapshots(acceptObservers[r], answer) \in Seq(AcceptEvents)
  <2>1. AcceptSnapshots(acceptObservers[r], answer) \in Seq(AcceptEvents)
    BY <1>1, <1>2, AcceptSnapshotsType DEF DatabaseTypeOK
  <2> QED
    BY <1>2, <2>1 DEF DatabaseTypeOK
<1>3. RideAccepts' \in [Riders -> Answer \union {NoAnswer}]
  BY <1>1 DEF DatabaseTypeOK, setRideAccept
<1>4. acceptEvents' \in [Riders -> Seq(AcceptEvents)]
  BY <1>2 DEF DatabaseTypeOK, setRideAccept
<1> QED
  BY <1>3, <1>4

(* A removal of an answer, and one that is denied: what was heard again and *)
(* the completion wait behind the other snapshots.                         *)
LEMMA RemoveRideAcceptType ==
  ASSUME DatabaseTypeOK, NEW r \in Riders, NEW d \in Drivers,
         removeRideAccept(r, d) \/ removeRideAcceptDenied(r, d)
  PROVE  /\ RideAccepts' \in [Riders -> Answer \union {NoAnswer}]
         /\ acceptEvents' \in [Riders -> Seq(AcceptEvents)]
<1>1. CASE removeRideAccept(r, d)
  BY <1>1 DEF removeRideAccept, DatabaseTypeOK
<1>2. CASE removeRideAcceptDenied(r, d)
  <2> DEFINE restored == IF RideAccepts[r].driver = d
                         THEN AcceptSnapshots(acceptObservers[r], RideAccepts[r]) ELSE <<>>
  <2>1. RideAccepts[r].driver = d => RideAccepts[r] \in Answer
    BY IdentityAssumption DEF DatabaseTypeOK, NoAnswer
  <2>2. restored \in Seq(AcceptEvents)
    <3>1. <<>> \in Seq(AcceptEvents)
      OBVIOUS
    <3>2. RideAccepts[r].driver = d
          => AcceptSnapshots(acceptObservers[r], RideAccepts[r]) \in Seq(AcceptEvents)
      BY <2>1, AcceptSnapshotsType DEF DatabaseTypeOK
    <3> QED
      BY <3>1, <3>2
  <2>3. RemovalCompletion(d) \in Seq(AcceptEvents)
    <3>1. [captured |-> d, answer |-> NoAnswer] \in AcceptEvents
      BY DEF AcceptEvents
    <3> QED
      BY <3>1 DEF RemovalCompletion
  <2>4. acceptEvents[r] \in Seq(AcceptEvents)
    BY DEF DatabaseTypeOK
  <2> HIDE DEF restored
  <2>5. acceptEvents[r] \o restored \o RemovalCompletion(d) \in Seq(AcceptEvents)
    BY <2>2, <2>3, <2>4
  <2> QED
    BY <1>2, <2>5 DEF removeRideAcceptDenied, DatabaseTypeOK, restored
<1> QED
  BY <1>1, <1>2

(* The mark before a removal is a snapshot like the others. *)
LEMMA MarkAndDeleteType ==
  ASSUME DatabaseTypeOK, NEW d \in Drivers, markAndDeleteRouteRequest(d)
  PROVE  /\ RouteRequests' \in [Drivers -> RequestNode]
         /\ requestEvents' \in [Drivers -> Seq(RequestNode)]
<1>1. WithStatus(RouteRequests[d], "deleted") \in RequestNode
  BY NodesAreTyped DEF DatabaseTypeOK, CarpoolRequestStatus
<1> DEFINE added == RequestSnapshots(requestObservers[d], WithStatus(RouteRequests[d], "deleted"))
<1>2. added \in Seq(RequestNode)
  BY <1>1, RequestSnapshotsType DEF DatabaseTypeOK
<1>3. requestEvents[d] \o added \in Seq(RequestNode)
  BY <1>2 DEF DatabaseTypeOK
<1> QED
  BY <1>3, NodesAreTyped DEF DatabaseTypeOK, markAndDeleteRouteRequest

(* A status written below a typed node leaves it typed. *)
LEMMA SetRouteRequestType ==
  ASSUME DatabaseTypeOK, NEW d \in Drivers, NEW s \in CarpoolRequestStatus,
         setRouteRequest(d, s)
  PROVE  /\ RouteRequests' \in [Drivers -> RequestNode]
         /\ requestEvents' \in [Drivers -> Seq(RequestNode)]
<1>1. WithStatus(RouteRequests[d], s) \in RequestNode
  BY NodesAreTyped DEF DatabaseTypeOK
<1> QED
  BY <1>1, WriteRequestType DEF setRouteRequest
==============================================================================
