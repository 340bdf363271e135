---------------------------- MODULE CarpoolProofs ----------------------------
(***************************************************************************)
(* Proofs about the whole protocol, for any drivers and riders, any        *)
(* outcomes of the calls, and any number of navigations and requests.      *)
(*                                                                         *)
(* While no cancellation has met a call in flight, a driver's app is       *)
(* orderly: the calls in flight, the alert and the current request say the *)
(* same of one request's way to its answer, and of the snapshots that wait *)
(* those before an accepted one are skipped when they are heard.           *)
(***************************************************************************)
EXTENDS Carpool, DriverClientProofs, RiderClientProofs

(* The types of both sides hold together. *)
LEMMA CarpoolTypesInit == CarpoolInit => DriverTypeOK /\ RiderInvariant
BY DriverTypeInit, RiderInvariantInit DEF CarpoolInit, RiderInit, DriverInit

LEMMA CarpoolTypesNext ==
  DriverTypeOK /\ RiderInvariant /\ [CarpoolNext]_carpoolVars
    => DriverTypeOK' /\ RiderInvariant'
<1> SUFFICES ASSUME DriverTypeOK, RiderInvariant, [CarpoolNext]_carpoolVars
             PROVE  DriverTypeOK' /\ RiderInvariant'
  OBVIOUS
<1>1. CASE \E d \in Drivers : DriverStep(d) /\ UNCHANGED <<rider, pushes>>
  <2>1. DriverTypeOK'
    BY <1>1, DriverTypeNext DEF DriverNext
  <2> QED
    BY <1>1, <2>1 DEF RiderInvariant, DriverTypeOK
<1>2. CASE \E r \in Riders : RiderStep(r) /\ UNCHANGED driver
  <2>1. RiderInvariant'
    BY <1>2, RiderInvariantNext DEF RiderNext
  <2> QED
    BY <1>2, <2>1 DEF RiderInvariant, DriverTypeOK
<1>3. CASE UNCHANGED carpoolVars
  BY <1>3, DriverTypeNext, RiderInvariantNext
     DEF carpoolVars, driverVars, riderVars, dbVars
<1> QED
  BY <1>1, <1>2, <1>3 DEF CarpoolNext

-----------------------------------------------------------------------------
(* The calls in flight. *)

Nobody == [x \in Riders |-> 0]
One(r) == [x \in Riders |-> IF x = r THEN 1 ELSE 0]

Waiting(details, time, distance, accept) ==
  [details |-> details, time |-> time, distance |-> distance, accept |-> accept]

NoCalls == Waiting(Nobody, 0, 0, Nobody)

LEMMA NothingInFlight == \A d : CallsInFlight(d) <=> driver[d].calls # NoCalls
BY DEF CallsInFlight, FreshMemory, NoCalls, Waiting, Nobody

LEMMA OneCall ==
  ASSUME NEW r \in Riders
  PROVE  /\ [Nobody EXCEPT ![r] = @ + 1] = One(r)
         /\ [One(r) EXCEPT ![r] = @ - 1] = Nobody
         /\ One(r) # Nobody
         /\ \A x \in Riders : One(r)[x] > 0 => x = r
         /\ \A x \in Riders : ~(Nobody[x] > 0)
<1>1. [Nobody EXCEPT ![r] = @ + 1] = One(r)
  BY DEF Nobody, One
<1>2. [One(r) EXCEPT ![r] = @ - 1] = Nobody
  <2>1. \A x \in Riders : [One(r) EXCEPT ![r] = @ - 1][x] = 0
    BY DEF One
  <2> QED
    BY <2>1 DEF Nobody, One
<1>3. One(r)[r] = 1 /\ Nobody[r] = 0
  BY DEF Nobody, One
<1>4. \A x \in Riders : One(r)[x] > 0 => x = r
  BY DEF One
<1>5. \A x \in Riders : ~(Nobody[x] > 0)
  BY DEF Nobody
<1> QED
  BY <1>1, <1>2, <1>3, <1>4, <1>5

(* The fields of typed calls, and those of a memory. *)
LEMMA CallsFields ==
  /\ \A calls \in DriverCalls :
       calls = Waiting(calls.details, calls.time, calls.distance, calls.accept)
  /\ \A a, b, c, e, x, y, z, w :
       Waiting(a, b, c, e) = Waiting(x, y, z, w) <=> a = x /\ b = y /\ c = z /\ e = w
BY DEF DriverCalls, Waiting

LEMMA DriverFields ==
  ASSUME DriverTypeOK, NEW d \in Drivers
  PROVE  /\ driver[d] \in DriverMemory
         /\ driver[d].calls \in DriverCalls
         /\ driver[d].request \in S1CCarpoolRequest
         /\ driver[d].alert \in DriverAlert
         /\ requestEvents[d] \in Seq(RequestNode)
         /\ RouteRequests[d] \in RequestNode
         /\ requestObservers[d] \in Nat
BY DEF DriverTypeOK, DatabaseTypeOK, DriverMemory

-----------------------------------------------------------------------------
(* The invariant. *)

(* The statuses that are written in this protocol.  Only the node's        *)
(* removal is marked `deleted', for the observers.                         *)
Written(node) == node = NoRequest \/ node.status \in {"requested", "accepted", "riderCancelled"}

WrittenDriver(d) ==
  /\ Written(RouteRequests[d])
  /\ driver[d].request.status \in {NoStatus, "requested", "accepted", "riderCancelled"}
  /\ \A i \in DOMAIN requestEvents[d] :
       requestEvents[d][i].status \in {"requested", "accepted", "riderCancelled", "deleted"}
  /\ requestObservers[d] = 0 => requestEvents[d] = <<>>

(* The way of one request: the calls in flight, with no alert; or the      *)
(* alert; or the call for the detour.                                      *)
Idle(m) == m.calls = NoCalls /\ m.alert = NoAlert

InPreparation(m) ==
  LET r == m.request.rider IN
  /\ m.alert = NoAlert
  /\ \/ r \in Riders /\ m.calls = Waiting(One(r), 0, 0, Nobody)
     \/ m.request.details \in {r, NoRider} /\ m.calls = Waiting(Nobody, 1, 0, Nobody)
     \/ m.request.details \in {r, NoRider} /\ m.calls = Waiting(Nobody, 0, 1, Nobody)

OnScreen(m) ==
  /\ m.alert = [state |-> "shown", names |-> m.request.rider]
  /\ m.request.details = m.request.rider
  /\ m.calls = NoCalls

BeingAccepted(m) ==
  /\ m.alert = NoAlert
  /\ m.request.rider \in Riders
  /\ m.calls = Waiting(Nobody, 0, 0, One(m.request.rider))

OneAtATime(m) ==
  \/ Idle(m)
  \/ /\ m.request.status = "requested"
     /\ InPreparation(m) \/ OnScreen(m) \/ BeingAccepted(m)

(* Snapshots before an accepted one are accepted too, or are heard before  *)
(* any of those and change nothing.                                        *)
SkippedBeforeAccepted(queue, status) ==
  \A i, j \in DOMAIN queue :
    i < j /\ queue[j].status = "accepted" =>
      \/ queue[i].status = "accepted"
      \/ /\ status = "requested" /\ queue[i].status \in {"requested", "deleted"}
         /\ \A k \in DOMAIN queue : k < i => queue[k].status # "accepted"

NoneAccepted(queue) == \A i \in DOMAIN queue : queue[i].status # "accepted"

(* An accepted node is the last thing a driver hears of. *)
AcceptedIsLast(node, queue) ==
  node.status = "accepted" /\ node.rider # NoRider /\ queue # <<>>
    => queue[Len(queue)].status = "accepted"

Orderly(d) ==
  /\ OneAtATime(driver[d])
  /\ ~Idle(driver[d]) => /\ NoneAccepted(requestEvents[d])
                         /\ RouteRequests[d].status = "accepted"
                              => RouteRequests[d].rider = NoRider
  /\ SkippedBeforeAccepted(requestEvents[d], driver[d].request.status)
  /\ AcceptedIsLast(RouteRequests[d], requestEvents[d])

CarpoolInvariant ==
  \A d \in Drivers :
    /\ WrittenDriver(d)
    /\ CancellationMeetsCalls(d) => d \in interrupted
    /\ d \notin interrupted => Orderly(d)

LEMMA OrderlyMeans ==
  DriverTypeOK /\ CarpoolInvariant => OneRequestIsPrepared /\ AlertNamesThePickUp
<1> SUFFICES ASSUME DriverTypeOK, CarpoolInvariant, NEW d \in Drivers, d \notin interrupted
             PROVE  /\ LET calls == driver[d].calls IN
                       /\ \A r, s \in Riders :
                            r # s => calls.details[r] = 0 \/ calls.details[s] = 0
                       /\ \A r \in Riders :
                            calls.details[r] + calls.time + calls.distance <= 1
                       /\ driver[d].alert.state # "orphaned"
                    /\ driver[d].alert.state = "shown"
                         => driver[d].alert.names = driver[d].request.rider
  BY DEF OneRequestIsPrepared, AlertNamesThePickUp
<1>1. OneAtATime(driver[d])
  BY DEF CarpoolInvariant, Orderly
<1> QED
  BY <1>1 DEF OneAtATime, Idle, InPreparation, OnScreen, BeingAccepted, NoCalls, Waiting,
     One, Nobody, NoAlert

-----------------------------------------------------------------------------
(* Queues of snapshots. *)

(* What is queued behind a queue. *)
LEMMA QueuedBehind ==
  ASSUME NEW queue \in Seq(RequestNode), NEW n \in Nat, NEW node \in RequestNode
  PROVE  LET longer == queue \o RequestSnapshots(n, node) IN
         /\ longer \in Seq(RequestNode)
         /\ Len(longer) = Len(queue) + (IF IsFiltered(node) THEN 0 ELSE n)
         /\ \A i \in DOMAIN queue : i \in DOMAIN longer /\ longer[i] = queue[i]
         /\ \A i \in DOMAIN longer : i \in DOMAIN queue \/ longer[i] = node
<1> DEFINE added == RequestSnapshots(n, node)
           longer == queue \o added
<1>1. /\ added \in Seq(RequestNode)
      /\ Len(added) = IF IsFiltered(node) THEN 0 ELSE n
      /\ \A i \in 1..Len(added) : added[i] = node
  <2>1. added \in Seq(RequestNode)
    BY RequestSnapshotsType
  <2>2. CASE IsFiltered(node)
    BY <2>1, <2>2 DEF RequestSnapshots
  <2>3. CASE ~IsFiltered(node)
    <3>1. added = [i \in 1..n |-> node]
      BY <2>3 DEF RequestSnapshots
    <3>2. DOMAIN added = 1..n /\ DOMAIN added = 1..Len(added) /\ Len(added) \in Nat
      BY <2>1, <3>1
    <3>3. Len(added) = n
      BY <3>2
    <3> QED
      BY <2>1, <2>3, <3>1, <3>3
  <2> QED
    BY <2>2, <2>3
<1> HIDE DEF added
<1>2. /\ longer \in Seq(RequestNode)
      /\ Len(longer) = Len(queue) + Len(added)
      /\ \A i \in 1..Len(longer) :
           longer[i] = IF i <= Len(queue) THEN queue[i] ELSE added[i - Len(queue)]
  BY <1>1
<1>3. Len(queue) \in Nat /\ Len(added) \in Nat /\ DOMAIN queue = 1..Len(queue)
      /\ DOMAIN longer = 1..Len(longer)
  BY <1>1, <1>2
<1> HIDE DEF longer
<1>4. \A i \in DOMAIN queue : i \in DOMAIN longer /\ longer[i] = queue[i]
  BY <1>2, <1>3
<1>5. ASSUME NEW i \in DOMAIN longer
      PROVE  i \in DOMAIN queue \/ longer[i] = node
  <2>1. CASE i <= Len(queue)
    BY <1>3, <2>1
  <2>2. CASE ~(i <= Len(queue))
    <3>1. i - Len(queue) \in 1..Len(added)
      BY <1>2, <1>3, <2>2
    <3> QED
      BY <1>1, <1>2, <1>3, <2>2, <3>1
  <2> QED
    BY <2>1, <2>2
<1> QED
  BY <1>1, <1>2, <1>4, <1>5 DEF added, longer

(* A queue of which nothing was accepted stays one behind which nothing    *)
(* accepted is queued.                                                     *)
LEMMA NoneAcceptedBehind ==
  ASSUME NEW queue \in Seq(RequestNode), NEW n \in Nat, NEW node \in RequestNode,
         NoneAccepted(queue), node.status = "accepted" => node.rider = NoRider
  PROVE  NoneAccepted(queue \o RequestSnapshots(n, node))
<1> DEFINE longer == queue \o RequestSnapshots(n, node)
<1>1. CASE node.status # "accepted"
  BY <1>1, QueuedBehind DEF NoneAccepted
<1>2. CASE node.status = "accepted"
  <2>1. RequestSnapshots(n, node) = <<>>
    BY <1>2 DEF RequestSnapshots, IsFiltered
  <2>2. longer = queue
    BY <2>1
  <2> QED
    BY <2>2
<1> QED
  BY <1>1, <1>2

(* The order of a queue stays when something is queued behind it, unless   *)
(* it is an accepted node behind one that is not.                          *)
LEMMA OrderBehind ==
  ASSUME NEW queue \in Seq(RequestNode), NEW n \in Nat, NEW node \in RequestNode,
         NEW status, SkippedBeforeAccepted(queue, status),
         \/ node.status # "accepted"
         \/ queue # <<>> => queue[Len(queue)].status = "accepted"
         \/ /\ NoneAccepted(queue) /\ status = "requested"
            /\ \A i \in DOMAIN queue : queue[i].status \in {"requested", "deleted"}
  PROVE  SkippedBeforeAccepted(queue \o RequestSnapshots(n, node), status)
<1> DEFINE longer == queue \o RequestSnapshots(n, node)
           Skipped(q, i) == /\ status = "requested" /\ q[i].status \in {"requested", "deleted"}
                            /\ \A k \in DOMAIN q : k < i => q[k].status # "accepted"
<1>1. /\ \A i \in DOMAIN queue : i \in DOMAIN longer /\ longer[i] = queue[i]
      /\ \A i \in DOMAIN longer : i \in DOMAIN queue \/ longer[i] = node
      /\ DOMAIN queue = 1..Len(queue) /\ Len(queue) \in Nat
      /\ DOMAIN longer = 1..Len(longer) /\ Len(longer) \in Nat
  <2>1. /\ longer \in Seq(RequestNode)
        /\ \A i \in DOMAIN queue : i \in DOMAIN longer /\ longer[i] = queue[i]
        /\ \A i \in DOMAIN longer : i \in DOMAIN queue \/ longer[i] = node
    BY QueuedBehind
  <2> HIDE DEF longer
  <2> QED
    BY <2>1
<1> HIDE DEF longer
<1>2. ASSUME NEW i \in DOMAIN queue, Skipped(queue, i)
      PROVE  Skipped(longer, i)
  BY <1>1, <1>2
<1> SUFFICES ASSUME NEW i \in DOMAIN longer, NEW j \in DOMAIN longer, i < j,
                    longer[j].status = "accepted", longer[i].status # "accepted"
             PROVE  Skipped(longer, i)
  BY DEF SkippedBeforeAccepted, longer
<1>3. CASE j \in DOMAIN queue
  <2>1. i \in DOMAIN queue
    BY <1>1, <1>3
  <2>2. Skipped(queue, i)
    BY <1>1, <1>3, <2>1 DEF SkippedBeforeAccepted
  <2> QED
    BY <1>2, <2>1, <2>2
<1>4. CASE j \notin DOMAIN queue
  <2>1. longer[j] = node /\ i \in DOMAIN queue
    BY <1>1, <1>4
  <2>2. CASE queue # <<>> => queue[Len(queue)].status = "accepted"
    <3>1. /\ Len(queue) \in DOMAIN queue /\ i < Len(queue)
          /\ queue[Len(queue)].status = "accepted"
      BY <1>1, <2>1, <2>2
    <3>2. Skipped(queue, i)
      BY <1>1, <2>1, <3>1 DEF SkippedBeforeAccepted
    <3> QED
      BY <1>2, <2>1, <3>2
  <2>3. CASE /\ NoneAccepted(queue) /\ status = "requested"
             /\ \A k \in DOMAIN queue : queue[k].status \in {"requested", "deleted"}
    BY <1>2, <2>1, <2>3 DEF NoneAccepted
  <2> QED
    BY <2>1, <2>2, <2>3
<1> QED
  BY <1>3, <1>4

(* An accepted node with a rider is seen by whoever is registered.         *)
LEMMA AcceptedBehind ==
  ASSUME NEW queue \in Seq(RequestNode), NEW n \in Nat, NEW node \in RequestNode,
         n = 0 => queue = <<>>
  PROVE  AcceptedIsLast(node, queue \o RequestSnapshots(n, node))
<1> DEFINE longer == queue \o RequestSnapshots(n, node)
<1> SUFFICES ASSUME node.status = "accepted", node.rider # NoRider, longer # <<>>
             PROVE  longer[Len(longer)].status = "accepted"
  BY DEF AcceptedIsLast
<1>1. ~IsFiltered(node)
  BY DEF IsFiltered, NoRequest
<1>2. /\ longer \in Seq(RequestNode)
      /\ Len(longer) = Len(queue) + n
      /\ \A i \in DOMAIN longer : i \in DOMAIN queue \/ longer[i] = node
  BY <1>1, QueuedBehind
<1> HIDE DEF longer
<1>3. Len(longer) \in DOMAIN longer /\ Len(queue) \in Nat /\ DOMAIN queue = 1..Len(queue)
  BY <1>2
<1>4. CASE n = 0
  BY <1>2, <1>3, <1>4
<1>5. CASE n # 0
  BY <1>2, <1>3, <1>5
<1> QED
  BY <1>4, <1>5

(* What waits after the first snapshot is heard.                           *)
LEMMA QueuedAfter ==
  ASSUME NEW queue \in Seq(RequestNode), queue # <<>>
  PROVE  /\ Tail(queue) \in Seq(RequestNode)
         /\ Len(Tail(queue)) = Len(queue) - 1
         /\ \A i \in DOMAIN Tail(queue) : i + 1 \in DOMAIN queue /\ Tail(queue)[i] = queue[i + 1]
         /\ Head(queue) = queue[1] /\ 1 \in DOMAIN queue /\ DOMAIN queue = 1..Len(queue)
         /\ DOMAIN Tail(queue) = 1..Len(Tail(queue)) /\ Len(queue) \in Nat
OBVIOUS

(* The order of a queue stays when its first snapshot is heard, unless     *)
(* that changes the status behind something that is accepted.              *)
LEMMA OrderAfter ==
  ASSUME NEW queue \in Seq(RequestNode), queue # <<>>, NEW status, NEW next,
         SkippedBeforeAccepted(queue, status),
         next = status \/ Head(queue).status = "accepted" \/ NoneAccepted(queue)
  PROVE  SkippedBeforeAccepted(Tail(queue), next)
<1> DEFINE rest == Tail(queue)
<1>1. /\ \A i \in DOMAIN rest : i + 1 \in DOMAIN queue /\ rest[i] = queue[i + 1]
      /\ Head(queue) = queue[1] /\ 1 \in DOMAIN queue
      /\ DOMAIN queue = 1..Len(queue) /\ DOMAIN rest = 1..Len(rest)
      /\ Len(queue) \in Nat /\ Len(rest) \in Nat
  BY QueuedAfter
<1> HIDE DEF rest
<1> SUFFICES ASSUME NEW i \in DOMAIN rest, NEW j \in DOMAIN rest, i < j,
                    rest[j].status = "accepted", rest[i].status # "accepted"
             PROVE  /\ next = "requested" /\ rest[i].status \in {"requested", "deleted"}
                    /\ \A k \in DOMAIN rest : k < i => rest[k].status # "accepted"
  BY DEF SkippedBeforeAccepted, rest
<1>2. /\ i + 1 \in DOMAIN queue /\ j + 1 \in DOMAIN queue /\ i + 1 < j + 1
      /\ rest[i] = queue[i + 1] /\ rest[j] = queue[j + 1]
  BY <1>1
<1>3. /\ status = "requested" /\ queue[i + 1].status \in {"requested", "deleted"}
      /\ \A k \in DOMAIN queue : k < i + 1 => queue[k].status # "accepted"
  BY <1>2 DEF SkippedBeforeAccepted
<1>4. ~NoneAccepted(queue)
  BY <1>2 DEF NoneAccepted
<1>5. 1 < i + 1 /\ \A k \in DOMAIN rest : k < i => k + 1 < i + 1
  BY <1>1
<1>6. Head(queue).status # "accepted"
  BY <1>1, <1>3, <1>5
<1>7. next = status
  BY <1>4, <1>6
<1> QED
  BY <1>1, <1>2, <1>3, <1>5, <1>7

(* What is not accepted, and an accepted snapshot at the end, stay so.     *)
LEMMA AcceptedAfter ==
  ASSUME NEW queue \in Seq(RequestNode), queue # <<>>
  PROVE  /\ NoneAccepted(queue) => NoneAccepted(Tail(queue))
         /\ \A node : AcceptedIsLast(node, queue) => AcceptedIsLast(node, Tail(queue))
<1> DEFINE rest == Tail(queue)
<1>1. /\ rest \in Seq(RequestNode)
      /\ Len(rest) = Len(queue) - 1 /\ DOMAIN rest = 1..Len(rest)
      /\ \A i \in DOMAIN rest : i + 1 \in DOMAIN queue /\ rest[i] = queue[i + 1]
  BY QueuedAfter
<1>2. Len(queue) \in Nat
  OBVIOUS
<1> HIDE DEF rest
<1>3. NoneAccepted(queue) => NoneAccepted(rest)
  BY <1>1 DEF NoneAccepted
<1>4. rest # <<>> => Len(rest) \in DOMAIN rest /\ Len(rest) + 1 = Len(queue)
  BY <1>1, <1>2
<1>5. rest # <<>> => rest[Len(rest)] = queue[Len(queue)]
  BY <1>1, <1>4
<1>6. \A node : AcceptedIsLast(node, queue) => AcceptedIsLast(node, rest)
  BY <1>5 DEF AcceptedIsLast
<1> QED
  BY <1>3, <1>6 DEF rest

-----------------------------------------------------------------------------
(* Steps, by what they do to one driver's app and node. *)

(* Nothing of it changes. *)
LeftAlone(d) ==
  /\ driver'[d].calls = driver[d].calls
  /\ driver'[d].alert = driver[d].alert
  /\ driver'[d].request = driver[d].request
  /\ requestEvents'[d] = requestEvents[d]
  /\ requestObservers'[d] = requestObservers[d]
  /\ RouteRequests'[d] = RouteRequests[d]

LEMMA UntouchedStep ==
  ASSUME NEW d, LeftAlone(d), WrittenDriver(d)
  PROVE  WrittenDriver(d)' /\ (Orderly(d) => Orderly(d)')
<1>1. WrittenDriver(d)'
  BY DEF LeftAlone, WrittenDriver
<1>2. ASSUME Orderly(d)
      PROVE  Orderly(d)'
  BY <1>2 DEF LeftAlone, Orderly, OneAtATime, Idle, InPreparation, OnScreen, BeingAccepted
<1> QED
  BY <1>1, <1>2

(* The end of the process. *)
Ended(d) ==
  /\ driver'[d].calls = NoCalls /\ driver'[d].alert = NoAlert
  /\ driver'[d].request = NoCarpoolRequest
  /\ requestEvents'[d] = <<>> /\ requestObservers'[d] = 0
  /\ RouteRequests'[d] = RouteRequests[d]

(* When all is delivered and answered, the order is there again.           *)
LEMMA QuietIsOrderly ==
  ASSUME NEW d, Idle(driver'[d]), requestEvents'[d] = <<>>
  PROVE  Orderly(d)'
BY DEF Orderly, OneAtATime, Idle, SkippedBeforeAccepted, AcceptedIsLast

LEMMA EndedStep ==
  ASSUME NEW d, Ended(d), WrittenDriver(d)
  PROVE  WrittenDriver(d)' /\ Orderly(d)'
<1>1. WrittenDriver(d)'
  BY DEF Ended, WrittenDriver, NoCarpoolRequest
<1>2. Idle(driver'[d]) /\ requestEvents'[d] = <<>>
  BY DEF Ended, Idle
<1> QED
  BY <1>1, <1>2, QuietIsOrderly

(* A snapshot that accepts nothing is queued, and a request that is on its *)
(* way stays there or leaves it.                                           *)
Queued(d, node) ==
  /\ node \in RequestNode /\ node.status # "accepted"
  /\ \/ /\ requestEvents'[d] = requestEvents[d] \o RequestSnapshots(requestObservers[d], node)
        /\ RouteRequests'[d] \in {node, NoRequest}
     \/ requestEvents'[d] = requestEvents[d] /\ RouteRequests'[d] = RouteRequests[d]
  /\ requestObservers'[d] = requestObservers[d]
  /\ driver'[d].request = driver[d].request
  /\ OneAtATime(driver[d]) => OneAtATime(driver'[d])
  /\ Idle(driver[d]) => Idle(driver'[d])

LEMMA QueuedStep ==
  ASSUME DriverTypeOK, NEW d \in Drivers, NEW node, Queued(d, node), WrittenDriver(d),
         node.status \in {"requested", "riderCancelled", "deleted"} \/ node = NoRequest,
         node.status = "deleted" => RouteRequests'[d] # node
  PROVE  WrittenDriver(d)' /\ (Orderly(d) => Orderly(d)')
<1> DEFINE queue == requestEvents[d]
           n == requestObservers[d]
<1>1. queue \in Seq(RequestNode) /\ n \in Nat /\ node \in RequestNode
  BY DriverFields DEF Queued
<1>2. CASE requestEvents'[d] = requestEvents[d] /\ RouteRequests'[d] = RouteRequests[d]
  <2>1. WrittenDriver(d)'
    BY <1>2 DEF WrittenDriver, Queued
  <2>2. ASSUME Orderly(d)
        PROVE  Orderly(d)'
    BY <1>2, <2>2 DEF Orderly, Queued
  <2> QED
    BY <2>1, <2>2
<1>3. CASE /\ requestEvents'[d] = queue \o RequestSnapshots(n, node)
           /\ RouteRequests'[d] \in {node, NoRequest}
  <2>1. WrittenDriver(d)'
    <3>4. /\ \A i \in DOMAIN queue :
               i \in DOMAIN requestEvents'[d] /\ requestEvents'[d][i] = queue[i]
          /\ \A i \in DOMAIN requestEvents'[d] :
               i \in DOMAIN queue \/ requestEvents'[d][i] = node
      <4> DEFINE longer == queue \o RequestSnapshots(n, node)
      <4>1. /\ \A i \in DOMAIN queue : i \in DOMAIN longer /\ longer[i] = queue[i]
            /\ \A i \in DOMAIN longer : i \in DOMAIN queue \/ longer[i] = node
        BY <1>1, QueuedBehind
      <4>2. requestEvents'[d] = longer
        BY <1>3
      <4> HIDE DEF longer, queue
      <4> QED
        BY <4>1, <4>2
    <3>1. ASSUME NEW i \in DOMAIN requestEvents'[d]
          PROVE  requestEvents'[d][i].status
                   \in {"requested", "accepted", "riderCancelled", "deleted"}
      <4>1. CASE i \in DOMAIN queue
        BY <3>4, <4>1 DEF WrittenDriver
      <4>2. CASE i \notin DOMAIN queue
        <5>1. requestEvents'[d][i] = node
          BY <3>1, <3>4, <4>2
        <5>2. node # NoRequest
          <6>1. CASE IsFiltered(node)
            <7>1. requestEvents'[d] = queue
              BY <1>1, <1>3, <6>1 DEF RequestSnapshots
            <7> QED
              BY <3>1, <4>2, <7>1
          <6>2. CASE ~IsFiltered(node)
            BY <6>2 DEF IsFiltered
          <6> QED
            BY <6>1, <6>2
        <5> QED
          BY <5>1, <5>2
      <4> QED
        BY <4>1, <4>2
    <3>2. Written(RouteRequests'[d])
      BY <1>3 DEF Written
    <3>3. requestObservers'[d] = 0 => requestEvents'[d] = <<>>
      <4>1. RequestSnapshots(0, node) = <<>>
        BY DEF RequestSnapshots
      <4> QED
        BY <1>1, <1>3, <4>1 DEF WrittenDriver, Queued
    <3> QED
      BY <3>1, <3>2, <3>3 DEF WrittenDriver, Queued, Written
  <2>2. ASSUME Orderly(d)
        PROVE  Orderly(d)'
    <3>1. NoneAccepted(queue) => NoneAccepted(requestEvents'[d])
      BY <1>1, <1>3, NoneAcceptedBehind DEF Queued
    <3>2. SkippedBeforeAccepted(requestEvents'[d], driver'[d].request.status)
      BY <1>1, <1>3, <2>2, OrderBehind DEF Orderly, Queued
    <3>3. RouteRequests'[d].status # "accepted"
      BY <1>3 DEF NoRequest, NoStatus, Queued
    <3>4. OneAtATime(driver'[d]) /\ (~Idle(driver'[d]) => ~Idle(driver[d]))
      BY <2>2 DEF Orderly, Queued
    <3> QED
      BY <2>2, <3>1, <3>2, <3>3, <3>4 DEF Orderly, AcceptedIsLast
  <2> QED
    BY <2>1, <2>2
<1> QED
  BY <1>2, <1>3 DEF Queued

-----------------------------------------------------------------------------
(* The driver's steps. *)

StaysOrderly(d) ==
  /\ WrittenDriver(d)'
  /\ Orderly(d) /\ ~CancellationMeetsCalls(d) /\ ~CancellationMeetsCalls(d)' => Orderly(d)'

LEMMA EndOfApp ==
  ASSUME DriverTypeOK, NEW d \in Drivers, NEW how, EndDriverApp(d, how), WrittenDriver(d)
  PROVE  StaysOrderly(d)
<1>1. driver'[d] = FreshMemory(how)
  BY DEF EndDriverApp, DriverTypeOK
<1>2. requestEvents'[d] = <<>> /\ requestObservers'[d] = 0 /\ RouteRequests'[d] = RouteRequests[d]
  BY DEF EndDriverApp, dropRequestObservers, DriverTypeOK, DatabaseTypeOK
<1>3. Ended(d)
  BY <1>1, <1>2 DEF Ended, FreshMemory, NoCalls, Waiting, Nobody
<1> QED
  BY <1>3, EndedStep DEF StaysOrderly

(* A registration hears the node as it is.                                 *)
LEMMA StartCarpoolOrderly ==
  ASSUME DriverTypeOK, NEW d \in Drivers, StartCarpool(d), WrittenDriver(d)
  PROVE  StaysOrderly(d)
<1> DEFINE queue == requestEvents[d]
           node == RouteRequests[d]
           longer == queue \o RequestSnapshots(1, node)
<1>1. queue \in Seq(RequestNode) /\ node \in RequestNode /\ requestObservers[d] \in Nat
  BY DriverFields
<1>2. /\ requestEvents'[d] = longer /\ RouteRequests'[d] = node
      /\ requestObservers'[d] = requestObservers[d] + 1
      /\ driver'[d].calls = driver[d].calls /\ driver'[d].alert = driver[d].alert
      /\ driver'[d].request = driver[d].request
  <2>1. driver'[d].calls = driver[d].calls /\ driver'[d].alert = driver[d].alert
        /\ driver'[d].request = driver[d].request
    BY DEF StartCarpool, DriverTypeOK, DriverMemory
  <2>2. requestEvents'[d] = longer /\ RouteRequests'[d] = node
        /\ requestObservers'[d] = requestObservers[d] + 1
    BY DEF StartCarpool, observeCarpoolRequestForMyDriverID, DriverTypeOK, DatabaseTypeOK
  <2> QED
    BY <2>1, <2>2
<1>3. /\ \A i \in DOMAIN longer : (i \in DOMAIN queue /\ longer[i] = queue[i]) \/ longer[i] = node
      /\ IsFiltered(node) => longer = queue
  <2>2. IsFiltered(node) => longer = queue
    BY <1>1 DEF RequestSnapshots
  <2> HIDE DEF queue, node
  <2>1. /\ \A i \in DOMAIN queue : i \in DOMAIN longer /\ longer[i] = queue[i]
        /\ \A i \in DOMAIN longer : i \in DOMAIN queue \/ longer[i] = node
    <3>1. queue \in Seq(RequestNode) /\ 1 \in Nat /\ node \in RequestNode
      BY <1>1
    <3> QED
      BY <3>1, QueuedBehind
  <2> HIDE DEF longer
  <2> QED
    BY <2>1, <2>2
<1> HIDE DEF longer
<1>4. WrittenDriver(d)'
  <2>1. ASSUME NEW i \in DOMAIN longer
        PROVE  longer[i].status \in {"requested", "accepted", "riderCancelled", "deleted"}
    BY <1>3, <2>1 DEF WrittenDriver, Written, IsFiltered
  <2> QED
    BY <1>1, <1>2, <2>1 DEF WrittenDriver, Written
<1>5. ASSUME Orderly(d)
      PROVE  Orderly(d)'
  <2>1. OneAtATime(driver'[d]) /\ (Idle(driver'[d]) <=> Idle(driver[d]))
    BY <1>2, <1>5
       DEF Orderly, OneAtATime, Idle, InPreparation, OnScreen, BeingAccepted
  <2>2. ~Idle(driver[d]) => NoneAccepted(longer)
    BY <1>1, <1>5, NoneAcceptedBehind DEF Orderly, longer
  <2>3. SkippedBeforeAccepted(longer, driver[d].request.status)
    <3>1. CASE node.status # "accepted" \/ node.rider # NoRider
      BY <1>1, <1>5, <3>1, OrderBehind DEF Orderly, longer, AcceptedIsLast
    <3>2. CASE node.status = "accepted" /\ node.rider = NoRider
      BY <1>3, <1>5, <3>2 DEF IsFiltered, Orderly
    <3> QED
      BY <3>1, <3>2
  <2>4. AcceptedIsLast(node, longer)
    <3>1. CASE node.status = "accepted" /\ node.rider # NoRider
      <4>1. ~IsFiltered(node)
        BY <3>1 DEF IsFiltered, NoRequest
      <4>2. Len(longer) = Len(queue) + 1 /\ longer \in Seq(RequestNode)
        BY <1>1, <4>1, QueuedBehind DEF longer
      <4>3. Len(queue) \in Nat /\ DOMAIN queue = 1..Len(queue) /\ DOMAIN longer = 1..Len(longer)
        BY <1>1, <4>2
      <4>4. Len(longer) \in DOMAIN longer /\ Len(longer) \notin DOMAIN queue
        BY <4>2, <4>3
      <4>5. longer[Len(longer)] = node
        BY <1>3, <4>4
      <4> QED
        BY <3>1, <4>5 DEF AcceptedIsLast
    <3>2. CASE node.status # "accepted" \/ node.rider = NoRider
      BY <3>2 DEF AcceptedIsLast
    <3> QED
      BY <3>1, <3>2
  <2> QED
    BY <1>2, <1>5, <2>1, <2>2, <2>3, <2>4 DEF Orderly
<1> QED
  BY <1>4, <1>5 DEF StaysOrderly

LEMMA NavigationOrderly ==
  ASSUME DriverTypeOK, NEW d \in Drivers, WrittenDriver(d),
         \/ StartCarpool(d)
         \/ DismissNavigation(d)
         \/ \E lastMinute \in BOOLEAN : NavigationProgress(d, lastMinute)
         \/ ArriveAtPickUp(d)
         \/ QuitDriverApp(d)
         \/ LaunchDriverApp(d)
  PROVE  StaysOrderly(d)
<1>1. CASE StartCarpool(d)
  BY <1>1, StartCarpoolOrderly
<1>2. CASE DismissNavigation(d)
  <2>1. LeftAlone(d)
    BY <1>2 DEF DismissNavigation, LeftAlone, DriverTypeOK, DriverMemory
  <2> QED
    BY <2>1, UntouchedStep DEF StaysOrderly
<1>3. CASE \E lastMinute \in BOOLEAN : NavigationProgress(d, lastMinute)
  <2>1. PICK badge : driver' = [driver EXCEPT ![d].legTime = TRUE, ![d].badge = badge]
    BY <1>3 DEF NavigationProgress
  <2>2. driver'[d].calls = driver[d].calls /\ driver'[d].alert = driver[d].alert
        /\ driver'[d].request = driver[d].request
    BY <2>1 DEF DriverTypeOK, DriverMemory
  <2>3. LeftAlone(d)
    BY <1>3, <2>2 DEF NavigationProgress, LeftAlone
  <2> QED
    BY <2>3, UntouchedStep DEF StaysOrderly
<1>4. CASE ArriveAtPickUp(d) \/ QuitDriverApp(d)
  BY <1>4, EndOfApp DEF ArriveAtPickUp, DriverCrashes, QuitDriverApp
<1>5. CASE LaunchDriverApp(d)
  <2>1. LeftAlone(d)
    BY <1>5 DEF LaunchDriverApp, LeftAlone, DriverTypeOK, DriverMemory, dbVars
  <2> QED
    BY <2>1, UntouchedStep DEF StaysOrderly
<1> QED
  BY <1>1, <1>2, <1>3, <1>4, <1>5

(* A rejection takes the alert, and the request's node, away.              *)
LEMMA RejectOrderly ==
  ASSUME DriverTypeOK, NEW d \in Drivers, TapReject(d) \/ TapCancelOnBadge(d),
         WrittenDriver(d)
  PROVE  StaysOrderly(d)
<1> DEFINE node == WithStatus(RouteRequests[d], "deleted")
<1>1. RouteRequests[d] \in RequestNode /\ driver[d] \in DriverMemory
  BY DriverFields
<1>2. node \in RequestNode /\ node.status = "deleted" /\ node # NoRequest
  <2>1. node \in RequestNode
    BY <1>1, NodesAreTyped DEF CarpoolRequestStatus
  <2>2. node.status = "deleted"
    BY <1>1 DEF WithStatus, RequestNode
  <2> QED
    BY <2>1, <2>2 DEF NoRequest, NoStatus
<1>3. /\ driver'[d].calls = driver[d].calls /\ driver'[d].request = driver[d].request
      /\ driver'[d].alert \in {driver[d].alert, Dismissed(driver[d].alert)}
  BY DEF TapReject, TapCancelOnBadge, DriverTypeOK, DriverMemory
<1>4. rejectCarpoolRequest(d)
  BY DEF TapReject, TapCancelOnBadge
<1>5. /\ \/ /\ requestEvents'[d] = requestEvents[d]
                                     \o RequestSnapshots(requestObservers[d], node)
            /\ RouteRequests'[d] = NoRequest
         \/ requestEvents'[d] = requestEvents[d] /\ RouteRequests'[d] = RouteRequests[d]
      /\ requestObservers'[d] = requestObservers[d]
  <2>1. CASE driver[d].riderID = NoRider
    BY <1>4, <2>1 DEF rejectCarpoolRequest
  <2>2. CASE driver[d].riderID # NoRider
    BY <1>4, <2>2
       DEF rejectCarpoolRequest, markAndDeleteRouteRequest, DriverTypeOK, DatabaseTypeOK
  <2> QED
    BY <2>1, <2>2
<1> HIDE DEF node
<1>6. ASSUME OneAtATime(driver[d])
      PROVE  OneAtATime(driver'[d]) /\ (Idle(driver[d]) => Idle(driver'[d]))
  BY <1>3, <1>6 DEF OneAtATime, Idle, InPreparation, OnScreen, BeingAccepted, Dismissed, NoAlert
<1>7. Idle(driver[d]) => OneAtATime(driver[d])
  BY DEF OneAtATime
<1>8. Queued(d, node)
  BY <1>2, <1>3, <1>5, <1>6, <1>7 DEF Queued
<1>9. node.status = "deleted" => RouteRequests'[d] # node
  BY <1>2, <1>5 DEF node, WrittenDriver, Written, NoRequest, NoStatus
<1> QED
  BY <1>2, <1>8, <1>9, QueuedStep DEF StaysOrderly

-----------------------------------------------------------------------------
(* The calls. *)

(* A call in flight, or an alert, says where the request is on its way.    *)
LEMMA WhichCall ==
  ASSUME NEW m, OneAtATime(m)
  PROVE  /\ \A r \in Riders : m.calls.details[r] > 0 =>
              /\ m.request.status = "requested" /\ m.alert = NoAlert
              /\ r = m.request.rider /\ m.calls = Waiting(One(r), 0, 0, Nobody)
         /\ m.calls.time > 0 =>
              /\ m.request.status = "requested" /\ m.alert = NoAlert
              /\ m.request.details \in {m.request.rider, NoRider}
              /\ m.calls = Waiting(Nobody, 1, 0, Nobody)
         /\ m.calls.distance > 0 =>
              /\ m.request.status = "requested" /\ m.alert = NoAlert
              /\ m.request.details \in {m.request.rider, NoRider}
              /\ m.calls = Waiting(Nobody, 0, 1, Nobody)
         /\ \A p \in Riders : m.calls.accept[p] > 0 =>
              /\ m.request.status = "requested" /\ m.alert = NoAlert
              /\ p = m.request.rider /\ m.calls = Waiting(Nobody, 0, 0, One(p))
         /\ m.alert # NoAlert => m.request.status = "requested" /\ OnScreen(m)
<1>1. /\ \A r \in Riders, x \in Riders : One(r)[x] > 0 => x = r
      /\ \A x \in Riders : ~(Nobody[x] > 0)
  BY OneCall
<1>2. \A a, b, c, e : /\ Waiting(a, b, c, e).details = a /\ Waiting(a, b, c, e).time = b
                      /\ Waiting(a, b, c, e).distance = c /\ Waiting(a, b, c, e).accept = e
  BY DEF Waiting
<1>3. CASE Idle(m)
  BY <1>1, <1>2, <1>3 DEF Idle, NoCalls
<1>4. CASE m.request.status = "requested" /\ InPreparation(m)
  BY <1>1, <1>2, <1>4 DEF InPreparation
<1>5. CASE m.request.status = "requested" /\ OnScreen(m)
  BY <1>1, <1>2, <1>5 DEF OnScreen, NoCalls
<1>6. CASE m.request.status = "requested" /\ BeingAccepted(m)
  BY <1>1, <1>2, <1>6 DEF BeingAccepted
<1> QED
  BY <1>3, <1>4, <1>5, <1>6 DEF OneAtATime

(* A step of the app's own memory.                                         *)
LEMMA MemoryStep ==
  ASSUME NEW d, UNCHANGED dbVars, WrittenDriver(d),
         driver'[d].request.status = driver[d].request.status,
         Orderly(d) => OneAtATime(driver'[d]) /\ (Idle(driver[d]) => Idle(driver'[d]))
  PROVE  StaysOrderly(d)
<1>1. requestEvents' = requestEvents /\ requestObservers' = requestObservers
      /\ RouteRequests' = RouteRequests
  BY DEF dbVars
<1>2. WrittenDriver(d)'
  BY <1>1 DEF WrittenDriver
<1>3. Orderly(d) => Orderly(d)'
  BY <1>1 DEF Orderly
<1> QED
  BY <1>2, <1>3 DEF StaysOrderly

LEMMA DetailsOrderly ==
  ASSUME DriverTypeOK, NEW d \in Drivers, NEW r \in Riders, NEW outcome,
         DetailsFetched(d, r, outcome), WrittenDriver(d)
  PROVE  StaysOrderly(d)
<1> DEFINE m == driver[d]
           new == driver'[d]
           fewer == [m.calls.details EXCEPT ![r] = @ - 1]
<1>1. m \in DriverMemory /\ m.calls \in DriverCalls /\ m.request \in S1CCarpoolRequest
  BY DriverFields
<1>2. /\ new.alert = m.alert /\ new.request.status = m.request.status
      /\ new.request.rider = m.request.rider
      /\ outcome = "error" =>
           new.calls = Waiting(fewer, m.calls.time, m.calls.distance, m.calls.accept)
      /\ outcome # "error" =>
           /\ new.calls = Waiting(fewer, m.calls.time + 1, m.calls.distance, m.calls.accept)
           /\ new.request.details \in {r, NoRider}
  <2>1. CASE outcome = "error"
    <3>1. new = [m EXCEPT !.calls = [m.calls EXCEPT !.details = fewer]]
      BY <2>1 DEF DetailsFetched, DriverTypeOK
    <3>2. new.calls = [m.calls EXCEPT !.details = fewer] /\ new.alert = m.alert
          /\ new.request = m.request
      BY <1>1, <3>1 DEF DriverMemory
    <3> HIDE DEF new, fewer
    <3> QED
      BY <1>1, <2>1, <3>2 DEF Waiting, DriverCalls
  <2>2. CASE outcome # "error"
    <3> DEFINE known == IF outcome = "complete" THEN r ELSE NoRider
               memory == [m EXCEPT !.calls.details[r] = @ - 1, !.calls.time = @ + 1,
                                   !.request.details = known]
    <3>1. new = memory
      BY <2>2 DEF DetailsFetched, DriverTypeOK
    <3>2. memory.calls = [m.calls EXCEPT !.details = fewer, !.time = @ + 1]
          /\ memory.alert = m.alert /\ memory.request = [m.request EXCEPT !.details = known]
      BY <1>1 DEF DriverMemory, DriverCalls, S1CCarpoolRequest
    <3> HIDE DEF memory, new, fewer
    <3> QED
      BY <1>1, <2>2, <3>1, <3>2 DEF Waiting, DriverCalls, S1CCarpoolRequest
  <2> QED
    BY <2>1, <2>2
<1>3. m.calls.details[r] > 0 /\ UNCHANGED dbVars
  BY DEF DetailsFetched
<1>4. ASSUME Orderly(d)
      PROVE  OneAtATime(new) /\ ~Idle(m)
  <2>1. /\ m.request.status = "requested" /\ m.alert = NoAlert
        /\ r = m.request.rider /\ m.calls = Waiting(One(r), 0, 0, Nobody)
    BY <1>3, <1>4, WhichCall DEF Orderly
  <2>2. fewer = Nobody /\ m.calls.time = 0 /\ m.calls.distance = 0 /\ m.calls.accept = Nobody
    BY <2>1, OneCall DEF Waiting
  <2>3. ~Idle(m)
    BY <2>1, OneCall, CallsFields DEF Idle, NoCalls
  <2> HIDE DEF m, new, fewer
  <2>4. CASE outcome = "error"
    BY <1>2, <2>1, <2>2, <2>3, <2>4 DEF OneAtATime, Idle, NoCalls
  <2>5. CASE outcome # "error"
    <3>1. new.calls = Waiting(Nobody, 1, 0, Nobody)
      BY <1>2, <2>2, <2>5
    <3> QED
      BY <1>2, <2>1, <2>3, <2>5, <3>1 DEF OneAtATime, InPreparation
  <2> QED
    BY <2>3, <2>4, <2>5
<1> HIDE DEF m, new
<1> QED
  BY <1>2, <1>3, <1>4, MemoryStep DEF m, new

LEMMA TimeOrderly ==
  ASSUME DriverTypeOK, NEW d \in Drivers, NEW found, TimeFetched(d, found), WrittenDriver(d)
  PROVE  StaysOrderly(d)
<1> DEFINE m == driver[d]
           new == driver'[d]
<1>1. m \in DriverMemory /\ m.calls \in DriverCalls /\ m.request \in S1CCarpoolRequest
  BY DriverFields
<1>2. /\ new.alert = m.alert /\ new.request = [m.request EXCEPT !.time = found]
      /\ new.calls = [m.calls EXCEPT !.time = @ - 1, !.distance = @ + 1]
  BY <1>1 DEF TimeFetched, DriverTypeOK, DriverMemory
<1>3. m.calls.time > 0 /\ UNCHANGED dbVars
  BY DEF TimeFetched
<1>4. /\ new.request.status = m.request.status /\ new.request.rider = m.request.rider
      /\ new.request.details = m.request.details
  BY <1>1, <1>2 DEF S1CCarpoolRequest
<1>5. ASSUME Orderly(d)
      PROVE  OneAtATime(new) /\ ~Idle(m)
  <2>1. /\ m.request.status = "requested" /\ m.alert = NoAlert
        /\ m.request.details \in {m.request.rider, NoRider}
        /\ m.calls = Waiting(Nobody, 1, 0, Nobody)
    BY <1>3, <1>5, WhichCall DEF Orderly
  <2>2. new.calls = Waiting(Nobody, 0, 1, Nobody)
    <3>1. m.calls.time = 1 /\ m.calls.distance = 0 /\ m.calls.details = Nobody
          /\ m.calls.accept = Nobody
      BY <2>1 DEF Waiting
    <3> HIDE DEF m, new
    <3>2. m.calls.time - 1 = 0 /\ m.calls.distance + 1 = 1
      BY <3>1
    <3>3. new.calls \in DriverCalls /\ new.calls.time = 0 /\ new.calls.distance = 1
          /\ new.calls.details = Nobody /\ new.calls.accept = Nobody
      BY <1>1, <1>2, <3>1, <3>2 DEF DriverCalls
    <3> QED
      BY <3>3, CallsFields
  <2>3. ~Idle(m)
    BY <2>1, CallsFields DEF Idle, NoCalls
  <2> HIDE DEF m, new
  <2> QED
    BY <1>2, <1>4, <2>1, <2>2, <2>3 DEF OneAtATime, InPreparation
<1> HIDE DEF m, new
<1> QED
  BY <1>3, <1>4, <1>5, MemoryStep DEF m, new

(* The alert is made of the request as it is when the last call ends.      *)
LEMMA DistanceOrderly ==
  ASSUME DriverTypeOK, NEW d \in Drivers, NEW found, DistanceFetched(d, found),
         WrittenDriver(d)
  PROVE  StaysOrderly(d)
<1> DEFINE m == driver[d]
           new == driver'[d]
<1>1. m \in DriverMemory /\ m.calls \in DriverCalls /\ m.request \in S1CCarpoolRequest
  BY DriverFields
<1>2. CASE DriverCrashes(d)
  BY <1>2, EndOfApp DEF DriverCrashes
<1>3. CASE ~DriverCrashes(d)
  <2>1. PICK alert :
          /\ driver' = [driver EXCEPT ![d].calls.distance = @ - 1, ![d].alert = alert]
          /\ m.alert = NoAlert => alert \in {NoAlert, [state |-> "shown",
                                                       names |-> m.request.details]}
    BY <1>3 DEF DistanceFetched
  <2>2. m.calls.distance > 0 /\ m.request.details # NoRider /\ UNCHANGED dbVars
    BY <1>3 DEF DistanceFetched
  <2>3. /\ new.alert = alert /\ new.request = m.request
        /\ new.calls = [m.calls EXCEPT !.distance = @ - 1]
    BY <1>1, <2>1 DEF DriverTypeOK, DriverMemory
  <2>4. ASSUME Orderly(d)
        PROVE  OneAtATime(new) /\ ~Idle(m)
    <3>1. /\ m.request.status = "requested" /\ m.alert = NoAlert
          /\ m.request.details \in {m.request.rider, NoRider}
          /\ m.calls = Waiting(Nobody, 0, 1, Nobody)
      BY <2>2, <2>4, WhichCall DEF Orderly
    <3>2. new.calls = NoCalls
      BY <2>3, <3>1 DEF Waiting, NoCalls
    <3>3. ~Idle(m)
      BY <3>1, CallsFields DEF Idle, NoCalls
    <3> HIDE DEF m, new
    <3> QED
      BY <2>1, <2>2, <2>3, <3>1, <3>2, <3>3 DEF OneAtATime, Idle, OnScreen
  <2> HIDE DEF m, new
  <2> QED
    BY <2>2, <2>3, <2>4, MemoryStep DEF m, new
<1> QED
  BY <1>2, <1>3

-----------------------------------------------------------------------------
(* The way from the alert to the answer. *)

LEMMA TapAcceptOrderly ==
  ASSUME DriverTypeOK, NEW d \in Drivers, TapAccept(d), WrittenDriver(d)
  PROVE  StaysOrderly(d)
<1> DEFINE m == driver[d]
           new == driver'[d]
           p == m.request.rider
<1>1. m \in DriverMemory /\ m.calls \in DriverCalls /\ m.request \in S1CCarpoolRequest
  BY DriverFields
<1>2. CASE DriverCrashes(d)
  BY <1>2, EndOfApp DEF DriverCrashes
<1>3. CASE ~DriverCrashes(d)
  <2>1. /\ p # NoRider /\ m.alert # NoAlert /\ UNCHANGED dbVars
        /\ driver' = [driver EXCEPT ![d].calls.accept[p] = @ + 1, ![d].badge = "pickUp",
                                    ![d].alert = Dismissed(@)]
    BY <1>3 DEF TapAccept
  <2>2. /\ new.alert = Dismissed(m.alert) /\ new.request = m.request
        /\ new.calls = [m.calls EXCEPT !.accept = [m.calls.accept EXCEPT ![p] = @ + 1]]
    BY <1>1, <2>1 DEF DriverTypeOK, DriverMemory
  <2>3. p \in Riders
    BY <1>1, <2>1 DEF S1CCarpoolRequest, OptionalRider
  <2>4. ASSUME Orderly(d)
        PROVE  OneAtATime(new) /\ ~Idle(m)
    <3>1. /\ m.request.status = "requested" /\ m.alert = [state |-> "shown", names |-> p]
          /\ m.calls = NoCalls
      BY <2>1, <2>4, WhichCall DEF Orderly, OnScreen
    <3>2. [m.calls.accept EXCEPT ![p] = @ + 1] = One(p)
      BY <2>3, <3>1, OneCall DEF NoCalls, Waiting
    <3>3. m.calls.details = Nobody /\ m.calls.time = 0 /\ m.calls.distance = 0
      BY <3>1 DEF NoCalls, Waiting
    <3>4. new.alert = NoAlert
      BY <2>2, <3>1 DEF Dismissed
    <3> HIDE DEF m, new, p
    <3>5. new.calls = Waiting(Nobody, 0, 0, One(p))
      <4>1. One(p) \in [Riders -> Nat]
        BY DEF One
      <4>2. new.calls \in DriverCalls /\ new.calls.time = 0 /\ new.calls.distance = 0
            /\ new.calls.details = Nobody /\ new.calls.accept = One(p)
        BY <1>1, <2>2, <3>2, <3>3, <4>1 DEF DriverCalls
      <4> QED
        BY <4>2, CallsFields
    <3>6. BeingAccepted(new) /\ new.request.status = "requested"
      BY <2>2, <2>3, <3>1, <3>4, <3>5 DEF BeingAccepted, p
    <3>7. ~Idle(m)
      BY <2>1 DEF Idle, m
    <3> QED
      BY <3>6, <3>7 DEF OneAtATime
  <2> HIDE DEF m, new
  <2> QED
    BY <2>1, <2>2, <2>4, MemoryStep DEF m, new
<1> QED
  BY <1>2, <1>3

(* What remains of the call for the detour.                                *)
LEMMA DetourFetched ==
  ASSUME DriverTypeOK, NEW d \in Drivers, NEW p \in Riders, NEW route,
         driver[d].calls.accept[p] > 0,
         driver' = [driver EXCEPT ![d].calls.accept[p] = @ - 1, ![d].route = route]
           \/ driver' = [driver EXCEPT ![d].calls.accept[p] = @ - 1]
  PROVE  /\ driver'[d].request = driver[d].request
         /\ Orderly(d) => /\ driver[d].request.status = "requested"
                          /\ driver[d].calls # NoCalls /\ Idle(driver'[d])
<1> DEFINE m == driver[d]
           new == driver'[d]
<1>1. m \in DriverMemory /\ m.calls \in DriverCalls /\ m.request \in S1CCarpoolRequest
  BY DriverFields
<1>2. /\ new.alert = m.alert /\ new.request = m.request
      /\ new.calls = [m.calls EXCEPT !.accept = [m.calls.accept EXCEPT ![p] = @ - 1]]
  BY <1>1 DEF DriverTypeOK, DriverMemory
<1>3. ASSUME Orderly(d)
      PROVE  m.request.status = "requested" /\ m.calls # NoCalls /\ Idle(new)
  <2>1. /\ m.request.status = "requested" /\ m.alert = NoAlert
        /\ m.calls = Waiting(Nobody, 0, 0, One(p))
    BY <1>3, WhichCall DEF Orderly
  <2>2. m.calls # NoCalls
    BY <2>1, OneCall, CallsFields DEF NoCalls
  <2>3. [m.calls.accept EXCEPT ![p] = @ - 1] = Nobody
    BY <2>1, OneCall DEF Waiting
  <2>4. m.calls.details = Nobody /\ m.calls.time = 0 /\ m.calls.distance = 0
    BY <2>1 DEF Waiting
  <2> HIDE DEF m, new
  <2>5. Nobody \in [Riders -> Nat]
    BY DEF Nobody
  <2>6. new.calls \in DriverCalls /\ new.calls.time = 0 /\ new.calls.distance = 0
        /\ new.calls.details = Nobody /\ new.calls.accept = Nobody
    BY <1>1, <1>2, <2>3, <2>4, <2>5 DEF DriverCalls
  <2>7. new.calls = NoCalls
    BY <2>6, CallsFields DEF NoCalls
  <2> QED
    BY <1>2, <2>1, <2>2, <2>7 DEF Idle
<1> QED
  BY <1>2, <1>3

(* The accepted node is the last thing that is queued: no snapshot waits   *)
(* that is not skipped before it.                                          *)
LEMMA AcceptOrderly ==
  ASSUME DriverTypeOK, NEW d \in Drivers, NEW p \in Riders,
         AcceptRouteReady(d, p) \/ AcceptRouteFails(d, p), WrittenDriver(d)
  PROVE  StaysOrderly(d)
<1>1. CASE AcceptRouteFails(d, p)
  <2>1. /\ driver[d].calls.accept[p] > 0 /\ UNCHANGED dbVars
        /\ driver' = [driver EXCEPT ![d].calls.accept[p] = @ - 1]
    BY <1>1 DEF AcceptRouteFails
  <2>2. driver'[d].request = driver[d].request /\ (Orderly(d) => Idle(driver'[d]))
    BY <2>1, DetourFetched
  <2> QED
    BY <2>1, <2>2, MemoryStep DEF OneAtATime
<1>2. CASE AcceptRouteReady(d, p)
  <2> DEFINE queue == requestEvents[d]
             n == requestObservers[d]
             node == WithStatus(RouteRequests[d], "accepted")
             longer == queue \o RequestSnapshots(n, node)
  <2>1. /\ driver[d].calls.accept[p] > 0
        /\ driver' = [driver EXCEPT ![d].calls.accept[p] = @ - 1, ![d].route = p]
        /\ requestObservers' = requestObservers
        /\ WriteRequest(d, node)
    BY <1>2 DEF AcceptRouteReady, setRouteRequest
  <2>2. /\ driver'[d].request = driver[d].request
        /\ Orderly(d) => /\ driver[d].request.status = "requested"
                         /\ driver[d].calls # NoCalls /\ Idle(driver'[d])
    BY <2>1, DetourFetched
  <2>3. /\ queue \in Seq(RequestNode) /\ n \in Nat /\ RouteRequests[d] \in RequestNode
        /\ node \in RequestNode /\ node.status = "accepted"
        /\ node.rider = RouteRequests[d].rider
    <3>1. node \in RequestNode
      BY DriverFields, NodesAreTyped DEF CarpoolRequestStatus
    <3>2. node.status = "accepted" /\ node.rider = RouteRequests[d].rider
      BY DriverFields DEF WithStatus, RequestNode
    <3> QED
      BY <3>1, <3>2, DriverFields
  <2>4. /\ RouteRequests'[d] = node
        /\ \/ requestEvents'[d] = queue /\ RouteRequests[d] = node
           \/ requestEvents'[d] = longer
    BY <2>1 DEF WriteRequest, DriverTypeOK, DatabaseTypeOK
  <2> HIDE DEF node
  <2>5. \A i \in DOMAIN longer : (i \in DOMAIN queue /\ longer[i] = queue[i]) \/ longer[i] = node
    <3> HIDE DEF queue, n
    <3>1. /\ \A i \in DOMAIN queue : i \in DOMAIN longer /\ longer[i] = queue[i]
          /\ \A i \in DOMAIN longer : i \in DOMAIN queue \/ longer[i] = node
      BY <2>3, QueuedBehind
    <3> HIDE DEF longer
    <3> QED
      BY <3>1
  <2>6. n = 0 => longer = <<>>
    <3>1. RequestSnapshots(0, node) = <<>>
      BY DEF RequestSnapshots
    <3> QED
      BY <2>3, <3>1 DEF WrittenDriver
  <2>7. WrittenDriver(d)'
    <3> HIDE DEF longer
    <3> QED
      BY <2>1, <2>2, <2>3, <2>4, <2>5, <2>6 DEF WrittenDriver, Written
  <2>8. ASSUME Orderly(d), ~CancellationMeetsCalls(d)
        PROVE  Orderly(d)'
    <3>1. NoneAccepted(queue) /\ (RouteRequests[d].status = "accepted" => node.rider = NoRider)
      BY <2>2, <2>3, <2>8 DEF Orderly, Idle
    <3>2. \A i \in DOMAIN queue : queue[i].status \in {"requested", "deleted"}
      BY <2>2, <2>8, <3>1, NothingInFlight
         DEF CancellationMeetsCalls, WrittenDriver, NoneAccepted
    <3>3. SkippedBeforeAccepted(requestEvents'[d], driver'[d].request.status)
      <4>1. SkippedBeforeAccepted(queue, driver[d].request.status)
        BY <2>8 DEF Orderly
      <4>2. SkippedBeforeAccepted(longer, driver[d].request.status)
        BY <2>2, <2>3, <2>8, <3>1, <3>2, <4>1, OrderBehind
      <4> HIDE DEF longer
      <4> QED
        BY <2>2, <2>4, <4>1, <4>2
    <3>4. AcceptedIsLast(node, requestEvents'[d])
      <4>1. AcceptedIsLast(node, longer)
        BY <2>3, AcceptedBehind DEF WrittenDriver
      <4>2. CASE requestEvents'[d] = queue /\ RouteRequests[d] = node
        BY <2>3, <3>1, <4>2 DEF AcceptedIsLast
      <4> HIDE DEF longer
      <4> QED
        BY <2>4, <4>1, <4>2
    <3> QED
      BY <2>2, <2>4, <2>8, <3>3, <3>4 DEF Orderly, OneAtATime
  <2> QED
    BY <2>7, <2>8 DEF StaysOrderly
<1> QED
  BY <1>1, <1>2

-----------------------------------------------------------------------------
(* Snapshots. *)

Heard(d) ==
  /\ requestEvents[d] # <<>> /\ requestEvents'[d] = Tail(requestEvents[d])
  /\ RouteRequests'[d] = RouteRequests[d] /\ requestObservers'[d] = requestObservers[d]

(* What has to be shown of the first snapshot that waits.                  *)
LEMMA HeardStep ==
  ASSUME DriverTypeOK, NEW d \in Drivers, Heard(d), WrittenDriver(d),
         driver'[d].request.status \in {NoStatus, "requested", "accepted", "riderCancelled"},
         Orderly(d) /\ ~CancellationMeetsCalls(d) =>
           /\ OneAtATime(driver'[d])
           /\ ~Idle(driver'[d]) => ~Idle(driver[d]) \/ NoneAccepted(requestEvents[d])
           /\ \/ driver'[d].request.status = driver[d].request.status
              \/ Head(requestEvents[d]).status = "accepted"
              \/ NoneAccepted(requestEvents[d])
  PROVE  StaysOrderly(d)
<1> DEFINE queue == requestEvents[d]
           rest == Tail(queue)
<1>1. queue \in Seq(RequestNode) /\ queue # <<>> /\ requestEvents'[d] = rest
  BY DriverFields DEF Heard
<1>2. \A i \in DOMAIN rest : i + 1 \in DOMAIN queue /\ rest[i] = queue[i + 1]
  BY <1>1, QueuedAfter
<1>3. WrittenDriver(d)'
  <2> HIDE DEF rest
  <2> QED
    BY <1>1, <1>2 DEF WrittenDriver, Heard
<1>4. ASSUME Orderly(d), ~CancellationMeetsCalls(d)
      PROVE  Orderly(d)'
  <2>1. SkippedBeforeAccepted(rest, driver'[d].request.status)
    BY <1>1, <1>4, OrderAfter DEF Orderly
  <2>2. /\ NoneAccepted(queue) => NoneAccepted(rest)
        /\ AcceptedIsLast(RouteRequests[d], rest)
    BY <1>1, <1>4, AcceptedAfter DEF Orderly
  <2>3. NoneAccepted(queue) /\ RouteRequests[d].status = "accepted"
          => RouteRequests[d].rider = NoRider
    <3>1. Len(queue) \in DOMAIN queue
      BY <1>1
    <3> QED
      BY <1>1, <1>4, <3>1 DEF Orderly, AcceptedIsLast, NoneAccepted
  <2> HIDE DEF rest
  <2> QED
    BY <1>1, <1>4, <2>1, <2>2, <2>3 DEF Orderly, Heard
<1> QED
  BY <1>3, <1>4 DEF StaysOrderly

(* A first snapshot that neither is accepted nor is skipped has nothing    *)
(* accepted behind it.                                                     *)
LEMMA NothingAcceptedBehind ==
  ASSUME NEW queue \in Seq(RequestNode), queue # <<>>, NEW status,
         SkippedBeforeAccepted(queue, status), Head(queue).status # "accepted",
         status # "requested" \/ Head(queue).status \notin {"requested", "deleted"}
  PROVE  NoneAccepted(queue)
<1>1. Head(queue) = queue[1] /\ 1 \in DOMAIN queue /\ DOMAIN queue = 1..Len(queue)
  BY QueuedAfter
<1>2. ASSUME NEW i \in DOMAIN queue, queue[i].status = "accepted"
      PROVE  FALSE
  <2>1. i # 1
    BY <1>1, <1>2
  <2>2. 1 < i
    BY <1>1, <2>1
  <2> QED
    BY <1>1, <1>2, <2>2 DEF SkippedBeforeAccepted
<1> QED
  BY <1>2 DEF NoneAccepted

LEMMA HearRequestedOrderly ==
  ASSUME DriverTypeOK, NEW d \in Drivers, Heard(d), WrittenDriver(d),
         NEW node, node = Head(requestEvents[d]), ~FailsForcedCast(node), HearRequested(d, node)
  PROVE  StaysOrderly(d)
<1> DEFINE m == driver[d]
           new == driver'[d]
           r == node.rider
<1>1. /\ m \in DriverMemory /\ m.calls \in DriverCalls /\ requestEvents[d] \in Seq(RequestNode)
      /\ requestEvents[d] # <<>>
  BY DriverFields DEF Heard
<1>2. node \in RequestNode /\ node.status = "requested" /\ m.request.status # "requested"
  BY <1>1 DEF HearRequested
<1>3. r \in Riders
  <2>1. ~IsFiltered(node)
    BY <1>2 DEF IsFiltered, NoRequest, NoStatus
  <2>2. r # NoRider
    BY <2>1 DEF FailsForcedCast
  <2> QED
    BY <1>2, <2>2 DEF RequestNode, OptionalRider
<1>4. /\ new.request = NewCarpoolRequest(node) /\ new.alert = m.alert
      /\ new.calls = [m.calls EXCEPT !.details = [m.calls.details EXCEPT ![r] = @ + 1]]
  BY <1>1 DEF HearRequested, DriverTypeOK, DriverMemory
<1>5. new.request.status = "requested" /\ new.request.rider = r
  BY <1>2, <1>4 DEF NewCarpoolRequest, NoCarpoolRequest
<1>6. ASSUME Orderly(d)
      PROVE  OneAtATime(new) /\ NoneAccepted(requestEvents[d])
  <2>1. m.calls = NoCalls /\ m.alert = NoAlert
    BY <1>2, <1>6 DEF Orderly, OneAtATime, Idle
  <2>2. [m.calls.details EXCEPT ![r] = @ + 1] = One(r)
    BY <1>3, <2>1, OneCall DEF NoCalls, Waiting
  <2>3. m.calls.accept = Nobody /\ m.calls.time = 0 /\ m.calls.distance = 0
    BY <2>1 DEF NoCalls, Waiting
  <2>4. NoneAccepted(requestEvents[d])
    BY <1>1, <1>2, <1>6, NothingAcceptedBehind DEF Orderly
  <2> HIDE DEF m, new, r
  <2>5. One(r) \in [Riders -> Nat]
    BY DEF One
  <2>6. new.calls \in DriverCalls /\ new.calls.time = 0 /\ new.calls.distance = 0
        /\ new.calls.details = One(r) /\ new.calls.accept = Nobody
    BY <1>1, <1>4, <2>2, <2>3, <2>5 DEF DriverCalls
  <2>7. new.calls = Waiting(One(r), 0, 0, Nobody)
    BY <2>6, CallsFields
  <2>8. InPreparation(new)
    BY <1>3, <1>4, <1>5, <2>1, <2>7 DEF InPreparation
  <2> QED
    BY <1>5, <2>4, <2>8 DEF OneAtATime
<1> HIDE DEF m, new
<1> QED
  BY <1>5, <1>6, HeardStep DEF m, new

LEMMA HearCancelledOrderly ==
  ASSUME DriverTypeOK, NEW d \in Drivers, Heard(d), WrittenDriver(d),
         NEW node, node = Head(requestEvents[d]), HearRiderCancelled(d, node)
  PROVE  StaysOrderly(d)
<1> DEFINE m == driver[d]
           new == driver'[d]
<1>1. m \in DriverMemory /\ requestEvents[d] \in Seq(RequestNode) /\ requestEvents[d] # <<>>
  BY DriverFields DEF Heard
<1>2. node.status = "riderCancelled" /\ m.request.status # "riderCancelled"
  BY DEF HearRiderCancelled
<1>3. /\ new.request = NewCarpoolRequest(node) /\ new.alert = Dismissed(m.alert)
      /\ new.calls = m.calls
  BY <1>1 DEF HearRiderCancelled, DriverTypeOK, DriverMemory
<1>4. new.request.status = "riderCancelled"
  BY <1>2, <1>3 DEF NewCarpoolRequest, NoCarpoolRequest
<1>5. ASSUME Orderly(d), ~CancellationMeetsCalls(d)
      PROVE  Idle(new) /\ NoneAccepted(requestEvents[d])
  <2>1. node = requestEvents[d][1] /\ 1 \in DOMAIN requestEvents[d]
    BY <1>1, QueuedAfter
  <2>2. m.calls = NoCalls
    BY <1>2, <1>5, <2>1, NothingInFlight DEF CancellationMeetsCalls
  <2>3. new.alert = NoAlert
    <3>1. CASE m.alert = NoAlert
      BY <1>3, <3>1 DEF Dismissed
    <3>2. CASE m.alert # NoAlert
      <4>1. OnScreen(m)
        BY <1>5, <3>2, WhichCall DEF Orderly
      <4> QED
        BY <1>3, <4>1 DEF OnScreen, Dismissed
    <3> QED
      BY <3>1, <3>2
  <2>4. NoneAccepted(requestEvents[d])
    BY <1>1, <1>2, <1>5, NothingAcceptedBehind DEF Orderly
  <2> QED
    BY <1>3, <2>2, <2>3, <2>4 DEF Idle
<1> HIDE DEF m, new
<1> QED
  BY <1>4, <1>5, HeardStep DEF m, new, OneAtATime

LEMMA RequestEventOrderly ==
  ASSUME DriverTypeOK, NEW d \in Drivers, RequestEvent(d), WrittenDriver(d)
  PROVE  StaysOrderly(d)
<1> DEFINE node == Head(requestEvents[d])
           m == driver[d]
           new == driver'[d]
<1>1. /\ m \in DriverMemory /\ requestEvents[d] \in Seq(RequestNode) /\ requestEvents[d] # <<>>
      /\ node = requestEvents[d][1] /\ 1 \in DOMAIN requestEvents[d]
  BY DriverFields, QueuedAfter DEF RequestEvent
<1>2. node.status \in {"requested", "accepted", "riderCancelled", "deleted"}
  BY <1>1 DEF WrittenDriver
<1>3. CASE DriverCrashes(d)
  BY <1>3, EndOfApp DEF DriverCrashes
<1>4. ASSUME dropRequestEvent(d)
      PROVE  Heard(d)
  BY <1>1, <1>4 DEF dropRequestEvent, Heard, DriverTypeOK, DatabaseTypeOK
<1>5. CASE ~FailsForcedCast(node) /\ HearRequested(d, node)
  <2>1. Heard(d)
    BY <1>4, <1>5 DEF HearRequested
  <2> HIDE DEF node
  <2> QED
    BY <1>5, <2>1, HearRequestedOrderly DEF node
<1>6. CASE HearAcceptedOrConfirmed(d, node)
  <2>1. Heard(d) /\ node.status = "accepted"
    BY <1>2, <1>4, <1>6 DEF HearAcceptedOrConfirmed
  <2>2. new.calls = m.calls /\ new.alert = m.alert /\ new.request.status = node.status
    BY <1>1, <1>6 DEF HearAcceptedOrConfirmed, DriverTypeOK, DriverMemory, S1CCarpoolRequest
  <2>3. ASSUME Orderly(d)
        PROVE  Idle(m)
    BY <1>1, <2>1, <2>3 DEF Orderly, NoneAccepted
  <2>4. Idle(m) => Idle(new) /\ OneAtATime(new)
    BY <2>2 DEF Idle, OneAtATime
  <2> HIDE DEF m, new
  <2> QED
    BY <2>1, <2>2, <2>3, <2>4, HeardStep DEF m, new
<1>7. CASE HearRiderCancelled(d, node)
  <2>1. Heard(d)
    BY <1>4, <1>7 DEF HearRiderCancelled
  <2> QED
    BY <1>7, <2>1, HearCancelledOrderly
<1>8. CASE HearCancelled(d, node)
  BY <1>2, <1>8 DEF HearCancelled
<1>9. CASE HearNothingNew(d, node)
  <2>1. Heard(d)
    BY <1>4, <1>9 DEF HearNothingNew
  <2>2. new.calls = m.calls /\ new.alert = m.alert /\ new.request = m.request
    BY <1>1, <1>9 DEF HearNothingNew, DriverTypeOK, DriverMemory
  <2>3. (Idle(new) <=> Idle(m)) /\ (OneAtATime(m) => OneAtATime(new))
    BY <2>2 DEF OneAtATime, Idle, InPreparation, OnScreen, BeingAccepted
  <2>4. m.request.status \in {NoStatus, "requested", "accepted", "riderCancelled"}
    BY DEF WrittenDriver
  <2> HIDE DEF m, new
  <2> QED
    BY <2>1, <2>2, <2>3, <2>4, HeardStep DEF m, new, Orderly
<1> QED
  BY <1>3, <1>5, <1>6, <1>7, <1>8, <1>9 DEF RequestEvent

LEMMA DriverStepOrderly ==
  ASSUME DriverTypeOK, NEW d \in Drivers, DriverStep(d), WrittenDriver(d)
  PROVE  StaysOrderly(d)
BY NavigationOrderly, RejectOrderly, TapAcceptOrderly, RequestEventOrderly, DetailsOrderly,
   TimeOrderly, DistanceOrderly, AcceptOrderly DEF DriverStep, DriverCallbacks

(* A driver's step leaves the others' apps and nodes alone.                *)
LEMMA OtherDriversUntouched ==
  ASSUME DriverTypeOK, NEW d \in Drivers, NEW e \in Drivers, d # e, DriverStep(e)
  PROVE  LeftAlone(d) /\ driver'[d] = driver[d]
<1>1. driver'[d] = driver[d]
  BY DEF DriverStep, DriverCallbacks, StartCarpool, DismissNavigation, NavigationProgress,
     ArriveAtPickUp, TapReject, TapCancelOnBadge, TapAccept, QuitDriverApp, LaunchDriverApp,
     DriverCrashes, EndDriverApp, RequestEvent, HearRequested, HearAcceptedOrConfirmed,
     HearRiderCancelled, HearCancelled, HearNothingNew, DetailsFetched, TimeFetched,
     DistanceFetched, AcceptRouteReady, AcceptRouteFails, DriverTypeOK
<1>2. requestObservers'[d] = requestObservers[d]
  BY DEF DriverStep, DriverCallbacks, StartCarpool, DismissNavigation, NavigationProgress,
     ArriveAtPickUp, TapReject, TapCancelOnBadge, TapAccept, QuitDriverApp, LaunchDriverApp,
     DriverCrashes, EndDriverApp, RequestEvent, HearRequested, HearAcceptedOrConfirmed,
     HearRiderCancelled, HearCancelled, HearNothingNew, DetailsFetched, TimeFetched,
     DistanceFetched, AcceptRouteReady, AcceptRouteFails, DriverTypeOK, DatabaseTypeOK, dbVars,
     dropRequestObservers, dropRequestEvent, observeCarpoolRequestForMyDriverID,
     rejectCarpoolRequest
<1>3. RouteRequests'[d] = RouteRequests[d]
  BY DEF DriverStep, DriverCallbacks, StartCarpool, DismissNavigation, NavigationProgress,
     ArriveAtPickUp, TapReject, TapCancelOnBadge, TapAccept, QuitDriverApp, LaunchDriverApp,
     DriverCrashes, EndDriverApp, RequestEvent, HearRequested, HearAcceptedOrConfirmed,
     HearRiderCancelled, HearCancelled, HearNothingNew, DetailsFetched, TimeFetched,
     DistanceFetched, AcceptRouteReady, AcceptRouteFails, DriverTypeOK, DatabaseTypeOK, dbVars,
     dropRequestEvent, rejectCarpoolRequest, markAndDeleteRouteRequest, setRouteRequest,
     WriteRequest
<1>4. requestEvents'[d] = requestEvents[d]
  BY DEF DriverStep, DriverCallbacks, StartCarpool, DismissNavigation, NavigationProgress,
     ArriveAtPickUp, TapReject, TapCancelOnBadge, TapAccept, QuitDriverApp, LaunchDriverApp,
     DriverCrashes, EndDriverApp, RequestEvent, HearRequested, HearAcceptedOrConfirmed,
     HearRiderCancelled, HearCancelled, HearNothingNew, DetailsFetched, TimeFetched,
     DistanceFetched, AcceptRouteReady, AcceptRouteFails, DriverTypeOK, DatabaseTypeOK, dbVars,
     dropRequestObservers, dropRequestEvent, observeCarpoolRequestForMyDriverID,
     rejectCarpoolRequest, markAndDeleteRouteRequest, setRouteRequest, WriteRequest
<1> QED
  BY <1>1, <1>2, <1>3, <1>4 DEF LeftAlone

-----------------------------------------------------------------------------
(* The riders' steps. *)

(* All a rider's app may do to the drivers' nodes: ask, cancel or clear,   *)
(* whoever the request at the driver is from.                              *)
RiderWrites(r) ==
  /\ requestObservers' = requestObservers
  /\ \/ UNCHANGED <<RouteRequests, requestEvents>>
     \/ \E e \in Drivers :
          \E node \in {RequestFrom(r), WithStatus(RouteRequests[e], "riderCancelled"), NoRequest} :
            WriteRequest(e, node)

LEMMA NothingWritten ==
  ASSUME NEW r, \/ \E m : OnlyMemory(r, m)
                \/ RiderCrashes(r)
                \/ QuitRiderApp(r) \/ LaunchRiderApp(r) \/ SendPush(r)
  PROVE  RiderWrites(r)
BY DEF OnlyMemory, RiderCrashes, QuitRiderApp, LaunchRiderApp, SendPush, EndRiderApp,
   RiderWrites, dbVars

LEMMA CancellationWrites ==
  ASSUME RiderInvariant, NEW r \in Riders, NEW m, CancelCarpool(r, m)
  PROVE  RiderWrites(r)
<1> DEFINE e == rider[r].result.driver
<1>1. CASE OnlyMemory(r, m) \/ RiderCrashes(r)
  BY <1>1, NothingWritten
<1>2. CASE ~(OnlyMemory(r, m) \/ RiderCrashes(r))
  <2>1. e \in Drivers
    BY <1>2, MemoryFields DEF CancelCarpool, OptionalDriver
  <2>2. cancelRouteRequest(e) \/ UNCHANGED <<RouteRequests, requestEvents>>
    BY <1>2 DEF CancelCarpool
  <2>3. requestObservers' = requestObservers
    BY <1>2 DEF CancelCarpool
  <2> HIDE DEF e
  <2> QED
    BY <2>1, <2>2, <2>3 DEF RiderWrites, cancelRouteRequest, setRouteRequest
<1> QED
  BY <1>1, <1>2

LEMMA AnswerWrites ==
  ASSUME RiderInvariant, NEW r \in Riders, NEW s, NEW rest, ProcessStatus(r, s, rest)
  PROVE  RiderWrites(r)
<1> DEFINE e == rider[r].result.driver
<1>1. CASE RiderCrashes(r)
  BY <1>1, NothingWritten
<1>2. CASE ~RiderCrashes(r)
  <2>1. requestObservers' = requestObservers
    BY <1>2 DEF ProcessStatus, ProcessAccepted, ProcessRejected, ProcessConfirmed,
       ProcessArrived, ProcessKnown, Processed, UnchangedButAnswers
  <2>2. \/ UNCHANGED <<RouteRequests, requestEvents>>
        \/ e # NoDriver /\ removeRouteRequest(e)
    BY <1>2 DEF ProcessStatus, ProcessAccepted, ProcessRejected, ProcessConfirmed,
       ProcessArrived, ProcessKnown
  <2>3. e # NoDriver => e \in Drivers
    BY MemoryFields DEF OptionalDriver
  <2> HIDE DEF e
  <2> QED
    BY <2>1, <2>2, <2>3 DEF RiderWrites, removeRouteRequest
<1> QED
  BY <1>1, <1>2

LEMMA RiderStepWrites ==
  ASSUME RiderInvariant, NEW r \in Riders, RiderStep(r)
  PROVE  RiderWrites(r)
<1>1. CASE \/ MapRoutesEvent(r) \/ (\E near \in BOOLEAN : MapLocationsEvent(r, near))
           \/ FindCarpool(r) \/ SearchStep(r)
  <2>1. (\E m : OnlyMemory(r, m)) \/ RiderCrashes(r)
    BY <1>1 DEF MapRoutesEvent, MapLocationsEvent, FindCarpool, SearchStep,
       SearchDetailsFetched, PlanFetched, DriverRouteFetched, WalkingRouteFetched,
       RideDistanceFetched, SearchFails
  <2> QED
    BY <2>1, NothingWritten
<1>2. CASE TapSend(r)
  <2>1. CASE RiderCrashes(r)
    BY <2>1, NothingWritten
  <2>2. CASE ~RiderCrashes(r)
    <3>1. PICK e : e # NoDriver /\ e = rider[r].result.driver /\ requestCarpool(r, e)
      BY <1>2, <2>2 DEF TapSend
    <3>2. e \in Drivers
      BY <3>1, MemoryFields DEF OptionalDriver
    <3>3. requestObservers' = requestObservers
      BY <1>2, <2>2 DEF TapSend
    <3> QED
      BY <3>1, <3>2, <3>3 DEF RiderWrites, requestCarpool
  <2> QED
    BY <2>1, <2>2
<1>3. CASE TapCancelSuggestion(r) \/ TapCancelRide(r) \/ TapCancelProximity(r)
  BY <1>3, CancellationWrites DEF TapCancelSuggestion, TapCancelRide, TapCancelProximity
<1>4. CASE TapConfirmProximity(r) \/ DismissRejection(r)
  BY <1>4, NothingWritten DEF TapConfirmProximity, DismissRejection
<1>5. CASE AcceptEvent(r) \/ \E s \in PushStatuses : PushReceived(r, s)
  BY <1>5, AnswerWrites, NothingWritten DEF AcceptEvent, PushReceived
<1>6. CASE RiderCompletion(r)
  BY <1>6 DEF RiderCompletion, WriteCompletes, RemovalIsDenied, UnchangedByCompletion,
     RiderWrites
<1>7. CASE QuitRiderApp(r) \/ LaunchRiderApp(r) \/ SendPush(r)
  BY <1>7, NothingWritten
<1> QED
  BY <1>1, <1>2, <1>3, <1>4, <1>5, <1>6, <1>7 DEF RiderStep

LEMMA RiderStepOrderly ==
  ASSUME DriverTypeOK, NEW r \in Riders, RiderWrites(r), driver' = driver,
         NEW d \in Drivers, WrittenDriver(d)
  PROVE  WrittenDriver(d)' /\ (Orderly(d) => Orderly(d)')
<1>1. CASE UNCHANGED <<RouteRequests, requestEvents>>
  <2>1. LeftAlone(d)
    BY <1>1 DEF RiderWrites, LeftAlone
  <2> QED
    BY <2>1, UntouchedStep
<1>2. ASSUME NEW e \in Drivers,
             NEW node \in {RequestFrom(r), WithStatus(RouteRequests[e], "riderCancelled"),
                           NoRequest},
             WriteRequest(e, node)
      PROVE  WrittenDriver(d)' /\ (Orderly(d) => Orderly(d)')
  <2>1. CASE e # d
    <3>1. LeftAlone(d)
      BY <1>2, <2>1 DEF RiderWrites, LeftAlone, WriteRequest, DriverTypeOK, DatabaseTypeOK
    <3> QED
      BY <3>1, UntouchedStep
  <2>2. CASE e = d
    <3>1. node \in RequestNode
      BY <1>2, <2>2, NodesAreTyped, DriverFields DEF CarpoolRequestStatus
    <3>2. node.status \in {"requested", "riderCancelled"} \/ node = NoRequest
      BY <2>2, DriverFields DEF RequestFrom, WithStatus, RequestNode
    <3>3. node.status \notin {"accepted", "deleted"}
      BY <3>2 DEF NoRequest, NoStatus
    <3>4. Queued(d, node)
      BY <1>2, <2>2, <3>1, <3>3
         DEF Queued, RiderWrites, WriteRequest, DriverTypeOK, DatabaseTypeOK
    <3> QED
      BY <3>2, <3>3, <3>4, QueuedStep
  <2> QED
    BY <2>1, <2>2
<1> QED
  BY <1>1, <1>2 DEF RiderWrites

-----------------------------------------------------------------------------
(* The whole protocol. *)

LEMMA CarpoolInvariantInit == CarpoolInit => CarpoolInvariant
<1> SUFFICES ASSUME CarpoolInit, NEW d \in Drivers
             PROVE  WrittenDriver(d) /\ ~CancellationMeetsCalls(d) /\ Orderly(d)
  BY DEF CarpoolInvariant
<1>1. /\ driver[d] = FreshMemory("running")
      /\ requestEvents[d] = <<>> /\ RouteRequests[d] = NoRequest
  BY DEF CarpoolInit, DriverInit, DatabaseInit
<1>2. WrittenDriver(d)
  BY <1>1 DEF WrittenDriver, Written, FreshMemory, NoCarpoolRequest
<1>3. ~CancellationMeetsCalls(d)
  BY <1>1 DEF CancellationMeetsCalls
<1>4. Idle(driver[d])
  BY <1>1 DEF Idle, FreshMemory, NoCalls, Waiting, Nobody
<1>5. Orderly(d)
  BY <1>1, <1>4 DEF Orderly, OneAtATime, SkippedBeforeAccepted, AcceptedIsLast
<1> QED
  BY <1>2, <1>3, <1>5

LEMMA CarpoolInvariantNext ==
  DriverTypeOK /\ RiderInvariant /\ CarpoolInvariant /\ [CarpoolNext]_carpoolVars
    => CarpoolInvariant'
<1> SUFFICES ASSUME DriverTypeOK, RiderInvariant, CarpoolInvariant, [CarpoolNext]_carpoolVars,
                    NEW d \in Drivers
             PROVE  /\ WrittenDriver(d)'
                    /\ CancellationMeetsCalls(d)' => d \in interrupted'
                    /\ d \notin interrupted' => Orderly(d)'
  BY DEF CarpoolInvariant
<1>1. WrittenDriver(d) /\ (d \notin interrupted => Orderly(d) /\ ~CancellationMeetsCalls(d))
  BY DEF CarpoolInvariant
<1>2. CASE CarpoolNext
  <2>1. StaysOrderly(d)
    <3>1. ASSUME NEW e \in Drivers, DriverStep(e)
          PROVE  StaysOrderly(d)
      <4>1. CASE e = d
        BY <1>1, <3>1, <4>1, DriverStepOrderly
      <4>2. CASE e # d
        BY <1>1, <3>1, <4>2, OtherDriversUntouched, UntouchedStep DEF StaysOrderly
      <4> QED
        BY <4>1, <4>2
    <3>2. ASSUME NEW r \in Riders, RiderStep(r), driver' = driver
          PROVE  StaysOrderly(d)
      BY <1>1, <3>2, RiderStepWrites, RiderStepOrderly DEF StaysOrderly
    <3> QED
      BY <1>2, <3>1, <3>2 DEF CarpoolNext
  <2>2. interrupted' = {x \in Drivers : \/ CancellationMeetsCalls(x)'
                                        \/ x \in interrupted /\ ~DriverIsQuiet(x)'}
    BY <1>2 DEF CarpoolNext
  <2>3. CancellationMeetsCalls(d)' => d \in interrupted'
    BY <2>2
  <2>4. ASSUME d \notin interrupted'
        PROVE  Orderly(d)'
    <3>1. ~CancellationMeetsCalls(d)' /\ (d \notin interrupted \/ DriverIsQuiet(d)')
      BY <2>2, <2>4
    <3>2. CASE d \notin interrupted
      BY <1>1, <2>1, <3>1, <3>2 DEF StaysOrderly
    <3>3. CASE DriverIsQuiet(d)'
      <4>1. Idle(driver'[d]) /\ requestEvents'[d] = <<>>
        BY <3>3 DEF DriverIsQuiet, CallsInFlight, Idle, FreshMemory, NoCalls, Waiting, Nobody
      <4> QED
        BY <4>1, QuietIsOrderly
    <3> QED
      BY <3>1, <3>2, <3>3
  <2> QED
    BY <2>1, <2>3, <2>4 DEF StaysOrderly
<1>3. CASE UNCHANGED carpoolVars
  <2>1. LeftAlone(d) /\ interrupted' = interrupted
    BY <1>3 DEF carpoolVars, dbVars, LeftAlone
  <2>2. CancellationMeetsCalls(d)' <=> CancellationMeetsCalls(d)
    BY <1>3 DEF carpoolVars, dbVars, CancellationMeetsCalls, CallsInFlight
  <2> QED
    BY <1>1, <2>1, <2>2, UntouchedStep DEF CarpoolInvariant
<1> QED
  BY <1>2, <1>3

LEMMA CarpoolInvariantHolds == CarpoolSpec => [](DriverTypeOK /\ CarpoolInvariant)
BY CarpoolTypesInit, CarpoolTypesNext, CarpoolInvariantInit, CarpoolInvariantNext, PTL
   DEF CarpoolSpec

(* However many riders ask, cancel and ask again, and however the calls    *)
(* end: a driver at whom no cancellation has met a call in flight since    *)
(* all was last delivered prepares one request at a time, and no alert is  *)
(* put above another.                                                      *)
THEOREM RequestsArePreparedSingly == CarpoolSpec => []OneRequestIsPrepared
BY CarpoolInvariantHolds, OrderlyMeans, PTL

(* And its alert names the rider whose pick-up an acceptance leads to.     *)
THEOREM AlertLeadsToItsRider == CarpoolSpec => []AlertNamesThePickUp
BY CarpoolInvariantHolds, OrderlyMeans, PTL

(* Both sides of the composition keep their types: a driver's app never    *)
(* counts fewer calls than it made, nor a rider's a write, whatever the    *)
(* other side does.                                                        *)
THEOREM CarpoolTypesCorrect == CarpoolSpec => [](DriverTypeOK /\ RiderTypeOK)
<1>1. DriverTypeOK /\ RiderInvariant => DriverTypeOK /\ RiderTypeOK
  BY RiderInvariantMeans
<1> QED
  BY <1>1, CarpoolTypesInit, CarpoolTypesNext, PTL DEF CarpoolSpec

-----------------------------------------------------------------------------
(***************************************************************************)
(* The answer reaches the rider: in the first request of an app's life,    *)
(* with writes granted and without notifications.  A rider listens to one  *)
(* driver c.  Its node is what the last snapshot on its way says, or has   *)
(* been emptied; once all snapshots are heard it is c's answer, as that of *)
(* another driver ends the app.  Only c's answer is ever removed, and that *)
(* is what a write of this rider that waits for its completion will do.    *)
(***************************************************************************)
NoWrites(m) == \A w \in Drivers \X BOOLEAN : m.writes[w] = 0

WritesOnlyTo(c, m) ==
  \A w \in Drivers \X BOOLEAN : m.writes[w] # 0 => w = <<c, TRUE>>

Attentive(c, m, events, node) ==
  /\ m.result.driver \in {c, NoDriver}
  /\ WritesOnlyTo(c, m)
  /\ \A i \in DOMAIN events : events[i].captured = c /\ events[i].answer # NoAnswer
  /\ events # <<>> => node \in {NoAnswer, events[Len(events)].answer}
  /\ events = <<>> /\ node # NoAnswer =>
       /\ node.driver = c
       /\ node.status = "accepted" => m.status = "accepted" \/ ~NoWrites(m)

ListensToOne(r) ==
  IF acceptObservers[r] = <<>>
  THEN NoWrites(rider[r])
  ELSE \E c \in Drivers : /\ acceptObservers[r] = <<c>>
                          /\ Attentive(c, rider[r], acceptEvents[r], RideAccepts[r])

(* What the invariant was made for: that a rider who listens and hears     *)
(* nothing more has been told of the acceptance.                           *)
LEMMA ListensMeans ==
  (\A r \in Riders : ListensToOne(r)) => AcceptedAnswerReachesRider
<1> SUFFICES ASSUME NEW r \in Riders, ListensToOne(r), acceptObservers[r] # <<>>,
                    RiderIsQuiet(r), RideAccepts[r].status = "accepted"
             PROVE  rider[r].status = "accepted"
  BY DEF AcceptedAnswerReachesRider
<1>1. RideAccepts[r] # NoAnswer
  BY DEF NoAnswer, NoStatus
<1> QED
  BY <1>1 DEF ListensToOne, Attentive, RiderIsQuiet, NoWrites

(* What a step leaves of a rider's side of the database. *)
SameAnswers(r) ==
  /\ acceptObservers'[r] = acceptObservers[r]
  /\ acceptEvents'[r] = acceptEvents[r]
  /\ RideAccepts'[r] = RideAccepts[r]

OthersKeepAnswers(r) == \A e \in Riders \ {r} : RideAccepts'[e] = RideAccepts[e]

(* A step before the request, or one that only touches what an answer      *)
(* does not depend on.                                                     *)
LEMMA ListensOn ==
  ASSUME NEW r \in Riders, ListensToOne(r), SameAnswers(r),
         rider'[r].writes = rider[r].writes,
         acceptObservers[r] # <<>> =>
           /\ rider'[r].status = rider[r].status
           /\ rider'[r].result.driver \in {rider[r].result.driver, NoDriver}
  PROVE  ListensToOne(r)'
<1>1. NoWrites(rider'[r]) <=> NoWrites(rider[r])
  BY DEF NoWrites
<1>2. ASSUME NEW c \in Drivers, acceptObservers[r] = <<c>>,
             Attentive(c, rider[r], acceptEvents[r], RideAccepts[r])
      PROVE  Attentive(c, rider'[r], acceptEvents'[r], RideAccepts'[r])
  <2>1. acceptObservers[r] # <<>>
    BY <1>2
  <2> QED
    BY <1>1, <1>2, <2>1 DEF Attentive, SameAnswers, WritesOnlyTo
<1>3. CASE acceptObservers[r] = <<>>
  BY <1>1, <1>3 DEF ListensToOne, SameAnswers
<1>4. CASE acceptObservers[r] # <<>>
  BY <1>2, <1>4 DEF ListensToOne, SameAnswers
<1> QED
  BY <1>3, <1>4

LEMMA EndOfListening ==
  ASSUME RiderInvariant, NEW r \in Riders, NEW how, EndRiderApp(r, how)
  PROVE  /\ ListensToOne(r)'
         /\ OthersKeepAnswers(r)
<1>1. rider'[r] = FreshRider(how) /\ acceptObservers'[r] = <<>> /\ RideAccepts' = RideAccepts
  BY DEF EndRiderApp, dropAcceptObservers, RiderInvariant, DatabaseTypeOK
<1>2. NoWrites(FreshRider(how))
  BY DEF NoWrites, FreshRider
<1> QED
  BY <1>1, <1>2 DEF ListensToOne, OthersKeepAnswers

(* A step that leaves the app with memory m and the database as it was. *)
LEMMA OnlyMemoryListens ==
  ASSUME RiderInvariant, NEW r \in Riders, ListensToOne(r), NEW m, OnlyMemory(r, m),
         m.writes = rider[r].writes,
         acceptObservers[r] # <<>> =>
           m.status = rider[r].status /\ m.result.driver \in {rider[r].result.driver, NoDriver}
  PROVE  ListensToOne(r)' /\ RideAccepts' = RideAccepts
<1>1. rider'[r] = m /\ SameAnswers(r) /\ RideAccepts' = RideAccepts
  BY DEF OnlyMemory, dbVars, SameAnswers, RiderInvariant
<1> QED
  BY <1>1, ListensOn

LEMMA MapListens ==
  ASSUME RiderInvariant, NEW r \in Riders, ListensToOne(r),
         MapRoutesEvent(r) \/ \E near \in BOOLEAN : MapLocationsEvent(r, near)
  PROVE  ListensToOne(r)' /\ OthersKeepAnswers(r)
<1> DEFINE old == rider[r]
           Like(x) == x.writes = old.writes /\ x.status = old.status /\ x.result = old.result
           m == [old EXCEPT !.mapLocations = DriverLocations]
           k == [old EXCEPT !.mapRoutes = {d \in Drivers : DriverRoutes[d] # NoRoute}]
           met == [m EXCEPT !.didShow = TRUE]
           n == WithProximityAlert(met)
<1>0. old \in RiderMemory
  BY MemoryFields
<1>1. Like(m) /\ Like(k)
  BY <1>0 DEF RiderMemory
<1>2. Like(n)
  <2>1. Like(met) /\ n.writes = met.writes /\ n.status = met.status /\ n.result = met.result
    BY <1>0 DEF RiderMemory, WithProximityAlert
  <2> QED
    BY <2>1
<1> HIDE DEF k, n
<1>3. OnlyMemory(r, m) \/ OnlyMemory(r, k) \/ OnlyMemory(r, n) \/ RiderCrashes(r)
  BY DEF MapRoutesEvent, MapLocationsEvent, k, n
<1> HIDE DEF m
<1> QED
  BY <1>1, <1>2, <1>3, OnlyMemoryListens, EndOfListening DEF RiderCrashes, OthersKeepAnswers

(* A search is only under way before the request, and writes nothing. *)
LEMMA SearchWritesNothing ==
  ASSUME RiderInvariant, NEW r \in Riders, FindCarpool(r) \/ SearchStep(r), ~RiderCrashes(r)
  PROVE  rider'[r].writes = rider[r].writes /\ UNCHANGED dbVars
<1> DEFINE old == rider[r]
<1>0. old \in RiderMemory /\ \A m : OnlyMemory(r, m) => rider'[r] = m /\ UNCHANGED dbVars
  BY MemoryFields DEF OnlyMemory, RiderInvariant
<1>1. CASE FindCarpool(r)
  <2> DEFINE up == [old EXCEPT !.hud = TRUE, !.result.destination = TRUE]
  <2>1. up \in RiderMemory /\ up.writes = old.writes
    BY <1>0 DEF RiderMemory, S1CCarpoolSearchResult
  <2>2. /\ [up EXCEPT !.hud = FALSE].writes = old.writes
        /\ \A s : [up EXCEPT !.search = s].writes = old.writes
    <3> HIDE DEF up
    <3> QED
      BY <2>1 DEF RiderMemory
  <2>3. \/ OnlyMemory(r, up) \/ OnlyMemory(r, [up EXCEPT !.hud = FALSE])
        \/ \E s : OnlyMemory(r, [up EXCEPT !.search = s])
    BY <1>1 DEF FindCarpool
  <2> HIDE DEF up
  <2> QED
    BY <1>0, <2>1, <2>2, <2>3
<1>2. ASSUME NEW outcome \in SearchDetails, SearchDetailsFetched(r, outcome)
      PROVE  rider'[r].writes = old.writes /\ UNCHANGED dbVars
  <2> DEFINE dropped == [old EXCEPT !.search = NoSearch]
             nobody == [old EXCEPT !.search.stage = "plan", !.search.driver = NoDriver]
             known == [old EXCEPT !.search.stage = "plan",
                                  !.search.usable = (outcome = "complete")]
  <2>1. /\ dropped.writes = old.writes /\ nobody.writes = old.writes
        /\ known.writes = old.writes
    BY <1>0 DEF RiderMemory
  <2> HIDE DEF dropped, nobody, known
  <2>2. OnlyMemory(r, dropped) \/ OnlyMemory(r, nobody) \/ OnlyMemory(r, known)
    BY <1>2 DEF SearchDetailsFetched, dropped, nobody, known
  <2> QED
    BY <1>0, <2>1, <2>2
<1>3. ASSUME NEW planned \in PlanOutcomes, PlanFetched(r, planned)
      PROVE  rider'[r].writes = old.writes /\ UNCHANGED dbVars
  <2> DEFINE known == [old EXCEPT !.result.driver = old.search.driver,
                                  !.result.usable = old.search.usable]
             shown == [known EXCEPT !.search = NoSearch, !.result.distance = TRUE,
                                    !.result.riderTime = TRUE,
                                    !.page = Present(@, "suggestion"),
                                    !.hasBulletin = TRUE]
             goesOn == [known EXCEPT !.search.stage = "route"]
  <2>1. known \in RiderMemory /\ known.writes = old.writes
    BY <1>0 DEF RiderMemory, Search, S1CCarpoolSearchResult
  <2>2. shown.writes = old.writes /\ goesOn.writes = old.writes
    <3> HIDE DEF known
    <3> QED
      BY <2>1 DEF RiderMemory
  <2> HIDE DEF shown, goesOn
  <2>3. OnlyMemory(r, shown) \/ OnlyMemory(r, goesOn)
    BY <1>3 DEF PlanFetched, shown, goesOn
  <2> QED
    BY <1>0, <2>2, <2>3
<1>4. ASSUME NEW found \in SearchOutcomes,
             DriverRouteFetched(r, found) \/ WalkingRouteFetched(r, found)
      PROVE  rider'[r].writes = old.writes /\ UNCHANGED dbVars
  <2> DEFINE failed == [old EXCEPT !.hud = FALSE, !.search = NoSearch]
             walks == [old EXCEPT !.result.driverTime = TRUE, !.search.stage = "walk"]
             rides == [old EXCEPT !.result.riderTime = TRUE, !.search.stage = "distance"]
  <2>1. /\ failed.writes = old.writes /\ walks.writes = old.writes
        /\ rides.writes = old.writes
    BY <1>0 DEF RiderMemory
  <2> HIDE DEF failed, walks, rides
  <2>2. OnlyMemory(r, failed) \/ OnlyMemory(r, walks) \/ OnlyMemory(r, rides)
    BY <1>4 DEF DriverRouteFetched, WalkingRouteFetched, SearchFails, failed, walks, rides
  <2> QED
    BY <1>0, <2>1, <2>2
<1>5. ASSUME NEW found \in SearchOutcomes, RideDistanceFetched(r, found)
      PROVE  rider'[r].writes = old.writes /\ UNCHANGED dbVars
  <2> DEFINE m == [old EXCEPT !.search = NoSearch, !.result.distance = @ \/ found]
             shown == [m EXCEPT !.page = Present(@, "suggestion"), !.hasBulletin = TRUE]
  <2>1. m.writes = old.writes
    BY <1>0 DEF RiderMemory
  <2>2. shown.writes = m.writes
    BY <1>0 DEF RiderMemory
  <2> HIDE DEF shown
  <2>3. OnlyMemory(r, m) \/ OnlyMemory(r, shown)
    BY <1>5 DEF RideDistanceFetched, shown
  <2> HIDE DEF m
  <2> QED
    BY <1>0, <2>1, <2>2, <2>3
<1> QED
  BY <1>1, <1>2, <1>3, <1>4, <1>5 DEF SearchStep

LEMMA SearchListens ==
  ASSUME RiderInvariant, MaxRequests \in 0..1, NEW r \in Riders, FirstRide(r), ListensToOne(r),
         FindCarpool(r) \/ SearchStep(r)
  PROVE  ListensToOne(r)' /\ OthersKeepAnswers(r)
<1>1. acceptObservers[r] = <<>>
  <2>1. CASE FindCarpool(r)
    BY <2>1, NotSentYet DEF FindCarpool
  <2>2. CASE SearchStep(r)
    <3>1. rider[r].search.stage # "idle"
      BY <2>2 DEF SearchStep, SearchDetailsFetched, PlanFetched, DriverRouteFetched,
         WalkingRouteFetched, RideDistanceFetched, Searching
    <3> QED
      BY <3>1, ManagerTypes DEF FirstRide, Controlled
  <2> QED
    BY <2>1, <2>2
<1>2. CASE RiderCrashes(r)
  BY <1>2, EndOfListening DEF RiderCrashes
<1>3. CASE ~RiderCrashes(r)
  BY <1>1, <1>3, SearchWritesNothing, ListensOn DEF SameAnswers, OthersKeepAnswers, dbVars
<1> QED
  BY <1>2, <1>3

(* One registration hears an answer once. *)
LEMMA SnapshotOfOne ==
  ASSUME NEW c, NEW answer
  PROVE  AcceptSnapshots(<<c>>, answer) = <<[captured |-> c, answer |-> answer]>>
<1> DEFINE e == [captured |-> c, answer |-> answer]
<1>1. Len(<<c>>) = 1 /\ <<c>>[1] = c
  OBVIOUS
<1>2. AcceptSnapshots(<<c>>, answer) = [i \in 1..1 |-> e]
  BY <1>1 DEF AcceptSnapshots
<1>3. [i \in 1..1 |-> e] = <<e>>
  <2> HIDE DEF e
  <2> QED
    OBVIOUS
<1> QED
  BY <1>2, <1>3

(* The observer of the request hears an earlier answer first. *)
LEMMA TapSendListens ==
  ASSUME RiderInvariant, MaxRequests \in 0..1, NEW r \in Riders, FirstRide(r), ListensToOne(r),
         TapSend(r)
  PROVE  ListensToOne(r)' /\ OthersKeepAnswers(r)
<1> DEFINE old == rider[r]
           d == old.result.driver
           m == [old EXCEPT !.hud = FALSE, !.page = DismissedPage(@)]
<1>1. CASE RiderCrashes(r)
  BY <1>1, EndOfListening DEF RiderCrashes
<1>2. CASE ~RiderCrashes(r)
  <2>0. old \in RiderMemory /\ d \in OptionalDriver
    BY MemoryFields
  <2>1. acceptObservers[r] = <<>> /\ d \in Drivers
    BY <1>2, <2>0, NotSentYet DEF TapSend, OptionalDriver
  <2>2. NoWrites(old) /\ m.writes = old.writes /\ m.result.driver = d
    BY <2>0, <2>1 DEF ListensToOne, RiderMemory
  <2>3. /\ rider'[r] = m /\ RideAccepts' = RideAccepts
        /\ startObservingRideAcceptForMyRiderID(r, d)
    BY <1>2 DEF TapSend, RiderInvariant
  <2>4. acceptObservers'[r] = <<d>>
    <3>1. acceptObservers'[r] = Append(<<>>, d)
      BY <2>1, <2>3 DEF startObservingRideAcceptForMyRiderID, RiderInvariant, DatabaseTypeOK
    <3> QED
      BY <2>1, <3>1
  <2>5. acceptEvents[r] = <<>>
    BY <2>1 DEF FirstRide
  <2> DEFINE e == [captured |-> d, answer |-> RideAccepts[r]]
  <2>6. acceptEvents'[r] = IF RideAccepts[r] = NoAnswer THEN <<>> ELSE <<>> \o <<e>>
    BY <2>3, <2>5, SnapshotOfOne
       DEF startObservingRideAcceptForMyRiderID, RiderInvariant, DatabaseTypeOK
  <2>7. acceptEvents'[r] = IF RideAccepts[r] = NoAnswer THEN <<>> ELSE <<e>>
    <3> HIDE DEF e
    <3> QED
      BY <2>6
  <2>8. e.captured = d /\ e.answer = RideAccepts[r]
    OBVIOUS
  <2>9. Attentive(d, m, acceptEvents'[r], RideAccepts[r])
    <3>1. \A w \in Drivers \X BOOLEAN : m.writes[w] = 0
      BY <2>2 DEF NoWrites
    <3>2. m.result.driver = d
      BY <2>2
    <3> HIDE DEF m, d, e
    <3>3. DOMAIN <<e>> = {1} /\ Len(<<e>>) = 1 /\ <<e>>[1] = e /\ <<e>> # <<>>
      OBVIOUS
    <3>4. CASE RideAccepts[r] = NoAnswer
      <4>1. acceptEvents'[r] = <<>> /\ DOMAIN <<>> = {}
        BY <2>7, <3>4
      <4>2. DOMAIN (acceptEvents'[r]) = {}
        BY <4>1
      <4> QED
        BY <3>1, <3>2, <3>4, <4>1, <4>2 DEF Attentive, WritesOnlyTo
    <3>5. CASE RideAccepts[r] # NoAnswer
      BY <2>7, <2>8, <3>1, <3>2, <3>3, <3>5 DEF Attentive, WritesOnlyTo
    <3> QED
      BY <3>4, <3>5
  <2>10. acceptObservers'[r] # <<>>
    BY <2>4
  <2> QED
    BY <2>1, <2>3, <2>4, <2>9, <2>10 DEF ListensToOne, OthersKeepAnswers
<1> QED
  BY <1>1, <1>2

-----------------------------------------------------------------------------
(* A step that adds a write: only ever to the driver the rider listens to. *)
LEMMA WriteAdded ==
  ASSUME NEW m, m.writes \in [Drivers \X BOOLEAN -> Nat], NEW c \in Drivers,
         WritesOnlyTo(c, m),
         NEW n, n.writes = [m.writes EXCEPT ![<<c, TRUE>>] = @ + 1]
  PROVE  /\ WritesOnlyTo(c, n)
         /\ ~NoWrites(n)
<1> DEFINE own == <<c, TRUE>>
<1>1. own \in Drivers \X BOOLEAN
  OBVIOUS
<1> HIDE DEF own
<1>2. n.writes = [m.writes EXCEPT ![own] = @ + 1]
  BY DEF own
<1>3. \A w \in Drivers \X BOOLEAN : n.writes[w] = IF w = own THEN m.writes[w] + 1 ELSE m.writes[w]
  BY <1>1, <1>2
<1>4. m.writes[own] \in Nat /\ n.writes[own] = m.writes[own] + 1
  BY <1>1, <1>3
<1>5. n.writes[own] # 0
  <2>1. \A k \in Nat : k + 1 # 0
    OBVIOUS
  <2> QED
    BY <1>4, <2>1, Zenon
<1>6. ~NoWrites(n)
  BY <1>1, <1>5, Zenon DEF NoWrites
<1> QED
  BY <1>3, <1>6 DEF own, WritesOnlyTo

LEMMA CancelListens ==
  ASSUME RiderInvariant, WriteOutcomes \subseteq {TRUE}, NEW r \in Riders,
         FirstRide(r), ListensToOne(r), NEW m \in RiderMemory, CancelCarpool(r, m),
         m.writes = rider[r].writes, m.status = rider[r].status, m.result = rider[r].result
  PROVE  ListensToOne(r)' /\ OthersKeepAnswers(r)
<1> DEFINE old == rider[r]
           d == old.result.driver
           n(granted) == [m EXCEPT !.writes[<<d, granted>>] = @ + 1]
<1>1. CASE RiderCrashes(r)
  BY <1>1, EndOfListening DEF RiderCrashes
<1>2. CASE OnlyMemory(r, m)
  BY <1>2, OnlyMemoryListens DEF OthersKeepAnswers
<1>3. CASE ~RiderCrashes(r) /\ ~OnlyMemory(r, m)
  <2>1. old.status # NoStatus /\ d # NoDriver /\ SameAnswers(r) /\ RideAccepts' = RideAccepts
    BY <1>3 DEF CancelCarpool, SameAnswers
  <2>2. PICK granted \in WriteOutcomes : rider' = [rider EXCEPT ![r] = n(granted)]
    BY <1>3 DEF CancelCarpool
  <2>3. granted = TRUE /\ rider'[r] = n(TRUE)
    BY <2>2 DEF RiderInvariant
  <2>4. acceptObservers[r] # <<>>
    BY <2>1 DEF FirstRide, Controlled
  <2>5. PICK c \in Drivers : /\ acceptObservers[r] = <<c>>
                             /\ Attentive(c, old, acceptEvents[r], RideAccepts[r])
    BY <2>4 DEF ListensToOne
  <2>6. d = c
    BY <2>1, <2>5 DEF Attentive
  <2>7. /\ n(TRUE).writes = [m.writes EXCEPT ![<<c, TRUE>>] = @ + 1]
        /\ n(TRUE).status = old.status /\ n(TRUE).result.driver = c
    BY <2>6 DEF RiderMemory
  <2>8. m.writes \in [Drivers \X BOOLEAN -> Nat]
    BY DEF RiderMemory
  <2> HIDE DEF n, d
  <2>9. WritesOnlyTo(c, m)
    BY <2>5 DEF Attentive, WritesOnlyTo
  <2>10. /\ WritesOnlyTo(c, n(TRUE))
         /\ ~NoWrites(n(TRUE))
    BY <2>7, <2>8, <2>9, WriteAdded
  <2>11. Attentive(c, n(TRUE), acceptEvents[r], RideAccepts[r])
    BY <2>5, <2>7, <2>10 DEF Attentive
  <2> QED
    BY <2>1, <2>3, <2>4, <2>5, <2>11 DEF ListensToOne, SameAnswers, OthersKeepAnswers
<1> QED
  BY <1>1, <1>2, <1>3

LEMMA ButtonsListen ==
  ASSUME RiderInvariant, WriteOutcomes \subseteq {TRUE}, NEW r \in Riders,
         FirstRide(r), ListensToOne(r),
         \/ TapCancelSuggestion(r) \/ TapCancelRide(r) \/ TapConfirmProximity(r)
         \/ TapCancelProximity(r) \/ DismissRejection(r)
  PROVE  ListensToOne(r)' /\ OthersKeepAnswers(r)
<1> DEFINE old == rider[r]
           Like(x) == /\ x \in RiderMemory /\ x.writes = old.writes /\ x.status = old.status
                      /\ x.result = old.result
           away == [old EXCEPT !.page = DismissedPage(@), !.hud = FALSE]
           faded == [old EXCEPT !.badge = "none"]
           met == [old EXCEPT !.page = DismissedPage(@), !.badge = "notice"]
           swiped == [old EXCEPT !.page = NoPage]
<1>0. old \in RiderMemory
  BY MemoryFields
<1>1. Like(away) /\ Like(faded) /\ Like(met) /\ Like(swiped)
  <2>1. DismissedPage(old.page) \in Page /\ NoPage \in Page
    BY <1>0, ManagerTypes DEF RiderMemory
  <2> QED
    BY <1>0, <2>1 DEF RiderMemory
<1> HIDE DEF away, faded, met, swiped
<1>2. \/ CancelCarpool(r, away) \/ CancelCarpool(r, faded)
      \/ OnlyMemory(r, met) \/ OnlyMemory(r, swiped)
  BY DEF TapCancelSuggestion, TapCancelRide, TapConfirmProximity, TapCancelProximity,
     DismissRejection, away, faded, met, swiped
<1>3. \A x : Like(x) /\ CancelCarpool(r, x)
        => ListensToOne(r)' /\ OthersKeepAnswers(r)
  BY CancelListens
<1>4. \A x : Like(x) /\ OnlyMemory(r, x)
        => ListensToOne(r)' /\ OthersKeepAnswers(r)
  BY OnlyMemoryListens DEF OthersKeepAnswers
<1> QED
  BY <1>1, <1>2, <1>3, <1>4

(* The head of the queue has been heard: it was this rider's driver's, and *)
(* an acceptance made the app accepted.                                    *)
LEMMA HeardAnswer ==
  ASSUME RiderInvariant, NEW r \in Riders, acceptEvents[r] # <<>>,
         NEW c \in Drivers, acceptObservers[r] = <<c>>,
         Attentive(c, rider[r], acceptEvents[r], RideAccepts[r]),
         Head(acceptEvents[r]).answer.driver = c,
         NEW m, Processed(r, m, Tail(acceptEvents[r])),
         m.result.driver \in {c, NoDriver},
         WritesOnlyTo(c, m),
         Head(acceptEvents[r]).answer.status = "accepted" => m.status = "accepted"
  PROVE  ListensToOne(r)' /\ OthersKeepAnswers(r)
<1> DEFINE events == acceptEvents[r]
           rest == Tail(events)
<1>1. events \in Seq(AcceptEvents)
  BY DEF RiderInvariant, DatabaseTypeOK
<1>2. /\ rider'[r] = m /\ acceptEvents'[r] = rest /\ acceptObservers'[r] = <<c>>
      /\ RideAccepts' = RideAccepts
  BY DEF Processed, UnchangedButAnswers, RiderInvariant, DatabaseTypeOK
<1>3. /\ \A i \in DOMAIN events : events[i].captured = c /\ events[i].answer # NoAnswer
      /\ RideAccepts[r] \in {NoAnswer, events[Len(events)].answer}
  BY DEF Attentive
<1> HIDE DEF events
<1>4. /\ \A i \in DOMAIN rest : rest[i] = events[i + 1] /\ i + 1 \in DOMAIN events
      /\ rest # <<>> => rest[Len(rest)] = events[Len(events)]
      /\ rest = <<>> => events[Len(events)] = Head(events)
  <2>1. events # <<>>
    BY DEF events
  <2>2. Len(events) \in Nat \ {0} /\ Len(rest) = Len(events) - 1 /\ DOMAIN rest = 1..Len(rest)
        /\ \A i \in 1..Len(rest) : rest[i] = events[i + 1]
        /\ Head(events) = events[1] /\ DOMAIN events = 1..Len(events)
        /\ rest \in Seq(AcceptEvents)
    BY <1>1, <2>1
  <2>3. rest # <<>> => Len(rest) \in 1..Len(rest)
    BY <2>2
  <2>4. rest = <<>> => Len(rest) = 0
    <3> HIDE DEF rest
    <3> QED
      OBVIOUS
  <2> HIDE DEF rest
  <2> QED
    BY <2>2, <2>3, <2>4
<1>5. \A i \in DOMAIN rest : rest[i].captured = c /\ rest[i].answer # NoAnswer
  BY <1>3, <1>4
<1>6. rest # <<>> => RideAccepts[r] \in {NoAnswer, rest[Len(rest)].answer}
  BY <1>3, <1>4
<1>7. ASSUME rest = <<>>, RideAccepts[r] # NoAnswer
      PROVE  /\ RideAccepts[r].driver = c
             /\ RideAccepts[r].status = "accepted" => m.status = "accepted"
  BY <1>3, <1>4, <1>7 DEF events
<1> HIDE DEF rest
<1>8. Attentive(c, m, rest, RideAccepts[r])
  BY <1>5, <1>6, <1>7 DEF Attentive
<1>9. acceptObservers'[r] # <<>>
  BY <1>2
<1> QED
  BY <1>2, <1>8, <1>9 DEF ListensToOne, OthersKeepAnswers

LEMMA AnswersListen ==
  ASSUME RiderInvariant, PushStatuses = {}, WriteOutcomes \subseteq {TRUE}, NEW r \in Riders,
         FirstRide(r), ListensToOne(r),
         AcceptEvent(r) \/ \E s \in PushStatuses : PushReceived(r, s)
  PROVE  ListensToOne(r)' /\ OthersKeepAnswers(r)
<1> DEFINE old == rider[r]
           d == old.result.driver
           s == Head(acceptEvents[r]).answer.status
           rest == Tail(acceptEvents[r])
           accepted == [old EXCEPT !.status = "accepted", !.badge = "cancel",
                                   !.page = DismissedPage(@)]
           shown == [old EXCEPT !.status = "rejected", !.badge = "none",
                                !.page = PushOrPresent(@, "rejected")]
           clean == [shown EXCEPT !.status = NoStatus, !.didShow = FALSE, !.result = NoResult]
           n(granted) == [shown EXCEPT !.writes[<<d, granted>>] = @ + 1]
           confirmed == [old EXCEPT !.status = "confirmed"]
           met == WithProximityAlert(confirmed)
           arrived == [old EXCEPT !.status = "arrived", !.badge = "notice"]
<1>0. old \in RiderMemory /\ old.writes \in [Drivers \X BOOLEAN -> Nat]
  BY MemoryFields
<1>1. AcceptEvent(r) /\ acceptEvents[r] # <<>>
  BY DEF AcceptEvent
<1>2. PICK c \in Drivers : /\ acceptObservers[r] = <<c>>
                           /\ Attentive(c, old, acceptEvents[r], RideAccepts[r])
  BY <1>1 DEF FirstRide, ListensToOne
<1>3. /\ Head(acceptEvents[r]).captured = c
      /\ d \in {c, NoDriver}
      /\ WritesOnlyTo(c, old)
  <2>1. acceptEvents[r] \in Seq(AcceptEvents)
    BY DEF RiderInvariant, DatabaseTypeOK
  <2>2. 1 \in DOMAIN acceptEvents[r] /\ Head(acceptEvents[r]) = acceptEvents[r][1]
    BY <1>1, <2>1
  <2> QED
    BY <1>2, <2>2 DEF Attentive
<1> DEFINE Kept(x) == x.writes = old.writes /\ x.result.driver \in {d, NoDriver}
<1>4. Kept(accepted) /\ accepted.status = "accepted"
  BY <1>0 DEF RiderMemory
<1>5. Kept(shown) /\ shown.status = "rejected" /\ shown \in RiderMemory
  BY <1>0, ManagerTypes DEF RiderMemory, CarpoolAcceptStatus
<1>6. Kept(clean)
  <2> HIDE DEF shown
  <2> QED
    BY <1>5, ManagerTypes DEF RiderMemory
<1>7. n(TRUE).writes = [old.writes EXCEPT ![<<d, TRUE>>] = @ + 1] /\ n(TRUE).result.driver = d
  <2>1. shown.result = old.result
    BY <1>0 DEF RiderMemory
  <2> HIDE DEF shown
  <2> QED
    BY <1>5, <2>1 DEF RiderMemory
<1>8. Kept(met) /\ Kept(arrived)
  BY <1>0 DEF RiderMemory, WithProximityAlert
<1> HIDE DEF accepted, shown, clean, n, met, arrived
<1>9. \/ RiderCrashes(r)
      \/ /\ Head(acceptEvents[r]).answer.driver = c
         /\ \/ Processed(r, accepted, rest)
            \/ s # "accepted" /\ \/ Processed(r, clean, rest)
                                 \/ d # NoDriver /\ Processed(r, n(TRUE), rest)
                                 \/ Processed(r, met, rest)
                                 \/ Processed(r, arrived, rest)
            \/ old.status = s /\ Processed(r, old, rest)
  BY <1>1, <1>3 DEF AcceptEvent, ProcessStatus, ProcessAccepted, ProcessRejected,
     ProcessConfirmed, ProcessArrived, ProcessKnown, accepted, shown, clean, n, met, arrived
<1>10. ASSUME d # NoDriver
       PROVE  /\ n(TRUE).result.driver \in {c, NoDriver}
              /\ WritesOnlyTo(c, n(TRUE))
  <2>1. d = c
    BY <1>3, <1>10
  <2>2. n(TRUE).writes = [old.writes EXCEPT ![<<c, TRUE>>] = @ + 1]
    BY <1>7, <2>1
  <2> HIDE DEF d, old
  <2> QED
    BY <1>0, <1>3, <1>7, <2>1, <2>2, WriteAdded
<1>11. \A x : Kept(x) => /\ x.result.driver \in {c, NoDriver}
                         /\ WritesOnlyTo(c, x)
  BY <1>3 DEF WritesOnlyTo
<1>12. Kept(old)
  OBVIOUS
<1> HIDE DEF Kept
<1>13. CASE RiderCrashes(r)
  BY <1>13, EndOfListening DEF RiderCrashes
<1>14. CASE Head(acceptEvents[r]).answer.driver = c /\ ~RiderCrashes(r)
  <2>1. ASSUME NEW x, Processed(r, x, rest), x.result.driver \in {c, NoDriver},
               WritesOnlyTo(c, x),
               s = "accepted" => x.status = "accepted"
        PROVE  ListensToOne(r)' /\ OthersKeepAnswers(r)
    BY <1>1, <1>2, <1>14, <2>1, HeardAnswer
  <2> HIDE DEF s, rest
  <2>2. CASE Processed(r, accepted, rest)
    BY <1>4, <1>11, <2>1, <2>2
  <2>3. CASE s # "accepted" /\ (\/ Processed(r, clean, rest) \/ Processed(r, met, rest)
                                \/ Processed(r, arrived, rest))
    BY <1>6, <1>8, <1>11, <2>1, <2>3
  <2>4. CASE s # "accepted" /\ d # NoDriver /\ Processed(r, n(TRUE), rest)
    BY <1>10, <2>1, <2>4
  <2>5. CASE old.status = s /\ Processed(r, old, rest)
    BY <1>11, <1>12, <2>1, <2>5
  <2> QED
    BY <1>9, <1>14, <2>2, <2>3, <2>4, <2>5
<1> QED
  BY <1>9, <1>13, <1>14

(* Who listens with writes granted is never told of a denied removal.      *)
LEMMA NothingIsDenied ==
  ASSUME RiderInvariant, NEW r \in Riders, FirstRide(r), ListensToOne(r)
  PROVE  ~RemovalIsDenied(r)
<1> SUFFICES ASSUME acceptEvents[r] # <<>>, Head(acceptEvents[r]).answer = NoAnswer
             PROVE  FALSE
  BY DEF RemovalIsDenied
<1>1. PICK c \in Drivers : Attentive(c, rider[r], acceptEvents[r], RideAccepts[r])
  BY DEF FirstRide, ListensToOne
<1>2. acceptEvents[r] \in Seq(AcceptEvents)
  BY DEF RiderInvariant, DatabaseTypeOK
<1>3. 1 \in DOMAIN acceptEvents[r] /\ Head(acceptEvents[r]) = acceptEvents[r][1]
  BY <1>2
<1> QED
  BY <1>1, <1>3 DEF Attentive

(* The clearance is complete: the driver's answer goes, and it is the only *)
(* one that can be there when all snapshots are heard.                     *)
LEMMA CompletionListens ==
  ASSUME RiderInvariant, WriteOutcomes \subseteq {TRUE}, NEW r \in Riders,
         FirstRide(r), ListensToOne(r), RiderCompletion(r)
  PROVE  ListensToOne(r)' /\ OthersKeepAnswers(r)
<1>1. PICK d \in Drivers, granted \in BOOLEAN : WriteCompletes(r, d, granted)
  BY NothingIsDenied DEF RiderCompletion
<1> DEFINE old == rider[r]
           own == <<d, granted>>
           taken == [old EXCEPT !.writes[own] = @ - 1]
           m == CleanedUp(taken)
<1>0. old \in RiderMemory /\ old.writes \in [Drivers \X BOOLEAN -> Nat]
  BY MemoryFields
<1>2. own \in Drivers \X BOOLEAN /\ old.writes[own] > 0
  BY <1>1 DEF WriteCompletes
<1>3. /\ rider'[r] = m
      /\ acceptObservers' = acceptObservers
  BY <1>1 DEF WriteCompletes, UnchangedByCompletion, RiderInvariant
<1>4. m.writes = taken.writes /\ m.result.driver = NoDriver
  <2>1. taken \in RiderMemory
    BY <1>2, WriteTakenType
  <2> HIDE DEF taken
  <2> QED
    BY <2>1, ManagerTypes DEF CleanedUp, RiderMemory
<1>5. \A w \in Drivers \X BOOLEAN : old.writes[w] = 0 => m.writes[w] = 0
  <2> HIDE DEF own, m
  <2>1. \A w \in Drivers \X BOOLEAN : w # own => m.writes[w] = old.writes[w]
    BY <1>0, <1>2, <1>4 DEF RiderMemory
  <2> QED
    BY <1>2, <2>1
<1>6. acceptObservers[r] # <<>>
  BY <1>0, <1>2 DEF ListensToOne, NoWrites
<1>7. PICK c \in Drivers : /\ acceptObservers[r] = <<c>>
                           /\ Attentive(c, old, acceptEvents[r], RideAccepts[r])
  BY <1>6 DEF ListensToOne
<1>8. d = c /\ granted = TRUE
  <2>1. own = <<c, TRUE>>
    <3>1. old.writes[own] # 0
      BY <1>0, <1>2
    <3> HIDE DEF own
    <3> QED
      BY <1>2, <1>7, <3>1 DEF Attentive, WritesOnlyTo
  <2> QED
    BY <2>1
<1>9. /\ RideAccepts'[r] = IF RideAccepts[r].driver = c THEN NoAnswer ELSE RideAccepts[r]
      /\ OthersKeepAnswers(r) /\ acceptEvents' = acceptEvents
  <2>1. removeRideAccept(r, c)
    BY <1>1, <1>8 DEF WriteCompletes, SecondWrite, RiderInvariant
  <2> QED
    BY <2>1 DEF removeRideAccept, OthersKeepAnswers, RiderInvariant, DatabaseTypeOK
<1> HIDE DEF m, own, taken
<1>10. WritesOnlyTo(c, m)
  BY <1>5, <1>7 DEF Attentive, WritesOnlyTo
<1>11. Attentive(c, m, acceptEvents[r], RideAccepts'[r])
  BY <1>4, <1>7, <1>9, <1>10 DEF Attentive
<1>12. acceptObservers'[r] # <<>>
  BY <1>3, <1>6
<1> QED
  BY <1>3, <1>7, <1>9, <1>11, <1>12 DEF ListensToOne

LEMMA LifeListens ==
  ASSUME RiderInvariant, NEW r \in Riders, ListensToOne(r),
         QuitRiderApp(r) \/ LaunchRiderApp(r) \/ SendPush(r)
  PROVE  ListensToOne(r)' /\ OthersKeepAnswers(r)
<1>1. CASE QuitRiderApp(r)
  BY <1>1, EndOfListening DEF QuitRiderApp
<1>2. CASE LaunchRiderApp(r)
  <2> DEFINE m == [rider[r] EXCEPT !.app = "running"]
  <2>1. /\ m.writes = rider[r].writes /\ m.status = rider[r].status
        /\ m.result = rider[r].result
    BY MemoryFields DEF RiderMemory
  <2>2. OnlyMemory(r, m)
    BY <1>2 DEF LaunchRiderApp
  <2> HIDE DEF m
  <2> QED
    BY <2>1, <2>2, OnlyMemoryListens DEF OthersKeepAnswers
<1>3. CASE SendPush(r)
  BY <1>3, ListensOn DEF SendPush, dbVars, SameAnswers, OthersKeepAnswers
<1> QED
  BY <1>1, <1>2, <1>3

(* An answer goes to the end of the queue, with the driver it is meant for. *)
LEMMA AnsweredListens ==
  ASSUME RiderInvariant, NEW e \in Riders, ListensToOne(e), NEW d \in Drivers, NEW q, NEW s,
         setRideAccept(d, q, s), rider' = rider, acceptObservers' = acceptObservers
  PROVE  ListensToOne(e)'
<1>1. CASE q # e
  <2>1. SameAnswers(e)
    BY <1>1 DEF setRideAccept, SameAnswers, RiderInvariant, DatabaseTypeOK
  <2> QED
    BY <2>1, ListensOn
<1>2. CASE acceptObservers[e] = <<>>
  BY <1>2 DEF ListensToOne
<1>3. CASE q = e /\ acceptObservers[e] # <<>>
  <2> DEFINE answer == [driver |-> d, status |-> s]
             events == acceptEvents[e]
  <2>1. PICK c \in Drivers : /\ acceptObservers[e] = <<c>>
                             /\ Attentive(c, rider[e], acceptEvents[e], RideAccepts[e])
    BY <1>3 DEF ListensToOne
  <2> DEFINE last == [captured |-> c, answer |-> answer]
  <2>2. RideAccepts'[e] = answer
    BY <1>3 DEF setRideAccept, RiderInvariant, DatabaseTypeOK
  <2>3. acceptEvents'[e] = events \o <<last>>
    BY <1>3, <2>1, SnapshotOfOne DEF setRideAccept, RiderInvariant, DatabaseTypeOK
  <2>4. events \in Seq(AcceptEvents)
    BY DEF RiderInvariant, DatabaseTypeOK
  <2>5. \A i \in DOMAIN events : events[i].captured = c /\ events[i].answer # NoAnswer
    BY <2>1 DEF Attentive
  <2>6. last.captured = c /\ last.answer = answer /\ answer # NoAnswer
    BY IdentityAssumption DEF NoAnswer
  <2> HIDE DEF last, events
  <2> DEFINE longer == events \o <<last>>
  <2>7. /\ longer # <<>> /\ longer[Len(longer)] = last
        /\ \A i \in DOMAIN longer : longer[i] = last \/ (i \in DOMAIN events /\ longer[i] = events[i])
    BY <2>4
  <2> HIDE DEF longer
  <2>8. acceptEvents'[e] = longer
    BY <2>3 DEF longer
  <2>9. Attentive(c, rider[e], longer, answer)
    <3> HIDE DEF answer
    <3> QED
      BY <2>1, <2>5, <2>6, <2>7 DEF Attentive
  <2> QED
    BY <1>3, <2>1, <2>2, <2>8, <2>9 DEF ListensToOne
<1> QED
  BY <1>1, <1>2, <1>3

(* All a driver's app may do to the riders' nodes and queues. *)
LEMMA DriverStepAnswers ==
  ASSUME NEW d \in Drivers, DriverStep(d)
  PROVE  /\ acceptObservers' = acceptObservers
         /\ \/ RideAccepts' = RideAccepts /\ acceptEvents' = acceptEvents
            \/ \E q, s : setRideAccept(d, q, s)
<1>1. acceptObservers' = acceptObservers
  BY DEF DriverStep, DriverCallbacks, StartCarpool, DismissNavigation, NavigationProgress,
     ArriveAtPickUp, TapReject, TapCancelOnBadge, TapAccept, QuitDriverApp, LaunchDriverApp,
     DriverCrashes, EndDriverApp, RequestEvent, HearRequested, HearAcceptedOrConfirmed,
     HearRiderCancelled, HearCancelled, HearNothingNew, DetailsFetched, TimeFetched,
     DistanceFetched, AcceptRouteReady, AcceptRouteFails, dbVars, dropRequestEvent,
     rejectCarpoolRequest
<1>2. \/ RideAccepts' = RideAccepts /\ acceptEvents' = acceptEvents
      \/ \E q, s : setRideAccept(d, q, s)
  BY DEF DriverStep, DriverCallbacks, StartCarpool, DismissNavigation, NavigationProgress,
     ArriveAtPickUp, TapReject, TapCancelOnBadge, TapAccept, QuitDriverApp, LaunchDriverApp,
     DriverCrashes, EndDriverApp, RequestEvent, HearRequested, HearAcceptedOrConfirmed,
     HearRiderCancelled, HearCancelled, HearNothingNew, DetailsFetched, TimeFetched,
     DistanceFetched, AcceptRouteReady, AcceptRouteFails, dbVars, dropRequestEvent,
     rejectCarpoolRequest
<1> QED
  BY <1>1, <1>2

(* The first ride of section RiderClientProofs, against the real drivers.  *)
LEMMA FirstRideInCarpool ==
  ASSUME MaxRequests \in 0..1, PushStatuses = {}, RiderInvariant,
         \A r \in Riders : FirstRide(r), [CarpoolNext]_carpoolVars
  PROVE  \A r \in Riders : FirstRide(r)'
<1> SUFFICES ASSUME NEW e \in Riders
             PROVE  FirstRide(e)'
  OBVIOUS
<1>1. ASSUME NEW d \in Drivers, DriverStep(d), rider' = rider
      PROVE  FirstRide(e)'
  BY <1>1, DriverStepAnswers, AnsweredRide
<1>2. ASSUME NEW r \in Riders, RiderStep(r)
      PROVE  FirstRide(e)'
  <2>1. FirstRide(r)' /\ \A f \in Riders \ {r} : Untouched(f)
    BY <1>2, StepOfRide
  <2> QED
    BY <2>1, UntouchedRide
<1>3. CASE UNCHANGED carpoolVars
  BY <1>3, UntouchedRide DEF carpoolVars, dbVars, Untouched
<1> QED
  BY <1>1, <1>2, <1>3 DEF CarpoolNext

LEMMA ListensNext ==
  ASSUME MaxRequests \in 0..1, PushStatuses = {}, WriteOutcomes \subseteq {TRUE}, RiderInvariant,
         \A r \in Riders : FirstRide(r) /\ ListensToOne(r), [CarpoolNext]_carpoolVars
  PROVE  \A r \in Riders : ListensToOne(r)'
<1> SUFFICES ASSUME NEW e \in Riders
             PROVE  ListensToOne(e)'
  OBVIOUS
<1>1. ASSUME NEW d \in Drivers, DriverStep(d), rider' = rider
      PROVE  ListensToOne(e)'
  <2>1. acceptObservers' = acceptObservers
    BY <1>1, DriverStepAnswers
  <2>2. CASE RideAccepts' = RideAccepts /\ acceptEvents' = acceptEvents
    BY <1>1, <2>1, <2>2, ListensOn DEF SameAnswers
  <2>3. CASE \E q, s : setRideAccept(d, q, s)
    BY <1>1, <2>1, <2>3, AnsweredListens
  <2> QED
    BY <1>1, <2>2, <2>3, DriverStepAnswers
<1>2. ASSUME NEW r \in Riders, RiderStep(r)
      PROVE  ListensToOne(e)'
  <2>1. ListensToOne(r)' /\ OthersKeepAnswers(r)
    BY <1>2, MapListens, SearchListens, TapSendListens, ButtonsListen, AnswersListen,
       CompletionListens, LifeListens DEF RiderStep
  <2>2. ASSUME e # r
        PROVE  ListensToOne(e)'
    <3>1. Untouched(e) /\ RideAccepts'[e] = RideAccepts[e]
      BY <1>2, <2>1, <2>2, StepOfRide DEF OthersKeepAnswers
    <3> QED
      BY <3>1, ListensOn DEF Untouched, SameAnswers
  <2> QED
    BY <2>1, <2>2
<1>3. CASE UNCHANGED carpoolVars
  BY <1>3, ListensOn DEF carpoolVars, dbVars, SameAnswers
<1> QED
  BY <1>1, <1>2, <1>3 DEF CarpoolNext

(* The first request of an app's life, with writes granted and without     *)
(* notifications: whatever cancellations, clearances and answers of any    *)
(* drivers came in between, and however often either app ended, once all   *)
(* is delivered a rider who listens has been told of the accepting answer  *)
(* at its node.                                                            *)
THEOREM AcceptanceIsHeard ==
  ASSUME MaxRequests \in 0..1, PushStatuses = {}, WriteOutcomes \subseteq {TRUE}
  PROVE  CarpoolSpec => []AcceptedAnswerReachesRider
<1> DEFINE Inv == \A r \in Riders : FirstRide(r) /\ ListensToOne(r)
           Typed == DriverTypeOK /\ RiderInvariant
<1>1. CarpoolInit => Inv
  <2> SUFFICES ASSUME CarpoolInit, NEW r \in Riders
               PROVE  FirstRide(r) /\ ListensToOne(r)
    OBVIOUS
  <2>1. RiderInit /\ acceptObservers[r] = <<>> /\ NoWrites(rider[r])
    BY DEF CarpoolInit, RiderInit, DriverInit, DatabaseInit, FreshRider, NoWrites
  <2> QED
    BY <2>1, FirstRideInit DEF ListensToOne
<1>2. Typed /\ Inv /\ [CarpoolNext]_carpoolVars => Inv'
  BY FirstRideInCarpool, ListensNext
<1>3. Inv => AcceptedAnswerReachesRider
  BY ListensMeans
<1>4. CarpoolInit => Typed
  BY CarpoolTypesInit
<1>5. Typed /\ [CarpoolNext]_carpoolVars => Typed'
  BY CarpoolTypesNext
<1> QED
  BY <1>1, <1>2, <1>3, <1>4, <1>5, PTL DEF CarpoolSpec

(* And an accepted rider keeps a control to cancel its ride by, now        *)
(* against the real drivers' apps.                                         *)
THEOREM AcceptedRideKeepsCancelInCarpool ==
  ASSUME MaxRequests \in 0..1, PushStatuses = {}
  PROVE  CarpoolSpec => []AcceptedRideCanBeCancelled
<1> DEFINE Inv == \A r \in Riders : FirstRide(r)
           Typed == DriverTypeOK /\ RiderInvariant
<1>1. CarpoolInit => Inv
  BY FirstRideInit DEF CarpoolInit, RiderInit, DriverInit
<1>2. Typed /\ Inv /\ [CarpoolNext]_carpoolVars => Inv'
  BY FirstRideInCarpool
<1>3. Inv => AcceptedRideCanBeCancelled
  BY DEF FirstRide, Controlled, AcceptedRideCanBeCancelled, HasCancelControl
<1>4. CarpoolInit => Typed
  BY CarpoolTypesInit
<1>5. Typed /\ [CarpoolNext]_carpoolVars => Typed'
  BY CarpoolTypesNext
<1> QED
  BY <1>1, <1>2, <1>3, <1>4, <1>5, PTL DEF CarpoolSpec

-----------------------------------------------------------------------------
(***************************************************************************)
(* The composition implements the open component a driver's app was        *)
(* checked and proved in: what a rider's app does to the nodes is what     *)
(* that component allows any rider.  Seen from there the riders' observers *)
(* do not exist.                                                           *)
(***************************************************************************)
LEMMA DriverViewValues ==
  /\ DriverView!NoAlert = NoAlert
  /\ DriverView!NoRequest = NoRequest
  /\ \A how : DriverView!FreshMemory(how) = FreshMemory(how)
  /\ \A node : /\ DriverView!NewCarpoolRequest(node) = NewCarpoolRequest(node)
               /\ DriverView!FailsForcedCast(node) <=> FailsForcedCast(node)
               /\ \A s : DriverView!WithStatus(node, s) = WithStatus(node, s)
               /\ \A k : DriverView!RequestSnapshots(k, node) = RequestSnapshots(k, node)
  /\ \A r : DriverView!RequestFrom(r) = RequestFrom(r)
  /\ \A alert : DriverView!Dismissed(alert) = Dismissed(alert)
<1>1. /\ DriverView!NoAlert = NoAlert /\ DriverView!NoRequest = NoRequest
      /\ DriverView!NoCarpoolRequest = NoCarpoolRequest
  BY DEF NoAlert, DriverView!NoAlert, NoRequest, DriverView!NoRequest, NoStatus,
     DriverView!NoStatus, NoCarpoolRequest, DriverView!NoCarpoolRequest
<1>2. \A how : DriverView!FreshMemory(how) = FreshMemory(how)
  BY <1>1 DEF FreshMemory, DriverView!FreshMemory
<1>3. \A node : DriverView!NewCarpoolRequest(node) = NewCarpoolRequest(node)
  BY <1>1 DEF NewCarpoolRequest, DriverView!NewCarpoolRequest
<1>4. \A node : /\ DriverView!IsFiltered(node) <=> IsFiltered(node)
                /\ DriverView!FailsForcedCast(node) <=> FailsForcedCast(node)
  BY <1>1 DEF IsFiltered, DriverView!IsFiltered, FailsForcedCast, DriverView!FailsForcedCast
<1>5. \A node, s : DriverView!WithStatus(node, s) = WithStatus(node, s)
  BY DEF WithStatus, DriverView!WithStatus
<1>6. \A node, k : DriverView!RequestSnapshots(k, node) = RequestSnapshots(k, node)
  BY <1>4 DEF RequestSnapshots, DriverView!RequestSnapshots
<1>7. \A r : DriverView!RequestFrom(r) = RequestFrom(r)
  BY DEF RequestFrom, DriverView!RequestFrom
<1>8. \A alert : DriverView!Dismissed(alert) = Dismissed(alert)
  BY <1>1 DEF Dismissed, DriverView!Dismissed
<1> QED
  BY <1>1, <1>2, <1>3, <1>4, <1>5, <1>6, <1>7, <1>8

LEMMA DriverViewState ==
  ASSUME NEW d
  PROVE  /\ DriverView!Running(d) <=> Running(d)
         /\ DriverView!NavigatedAfterReset(d) = NavigatedAfterReset(d)
         /\ DriverView!PublishedAfterReset(d) = PublishedAfterReset(d)
         /\ DriverView!HasRoom(d)
<1>1. \A k : DriverView!\prec(k, Unbounded)
  BY DEF DriverView!\prec
<1> QED
BY <1>1 DEF DriverView!Running, Running, DriverView!NavigatedAfterReset, NavigatedAfterReset,
   DriverView!PublishedAfterReset, PublishedAfterReset, DriverView!HasRoom

(* The operations of the data managers, seen from the driver's side. *)
LEMMA DriverViewWrites ==
  /\ \A d, node : WriteRequest(d, node) => DriverView!WriteRequest(d, node)
  /\ \A d, s : setRouteRequest(d, s) => DriverView!setRouteRequest(d, s)
  /\ \A d : markAndDeleteRouteRequest(d) => DriverView!markAndDeleteRouteRequest(d)
  /\ \A d : observeCarpoolRequestForMyDriverID(d)
              => DriverView!observeCarpoolRequestForMyDriverID(d)
  /\ \A d, p : setRoute(d, p) => DriverView!setRoute(d, p)
  /\ \A d : removeRoute(d) => DriverView!removeRoute(d)
  /\ \A d : setCurrentLocation(d) => DriverView!setCurrentLocation(d)
  /\ \A d : dropRequestObservers(d) => DriverView!dropRequestObservers(d)
  /\ \A d : dropRequestEvent(d) => DriverView!dropRequestEvent(d)
  /\ \A r, d : requestCarpool(r, d) => DriverView!requestCarpool(r, d)
  /\ \A d : cancelRouteRequest(d) => DriverView!cancelRouteRequest(d)
  /\ \A d : removeRouteRequest(d) => DriverView!removeRouteRequest(d)
  /\ \A r, d : removeRideAccept(r, d) => DriverView!removeRideAccept(r, d)
<1>1. \A d, node : WriteRequest(d, node) => DriverView!WriteRequest(d, node)
  BY DriverViewValues DEF WriteRequest, DriverView!WriteRequest
<1>2. \A d, s : setRouteRequest(d, s) => DriverView!setRouteRequest(d, s)
  BY <1>1, DriverViewValues DEF setRouteRequest, DriverView!setRouteRequest
<1>3. \A d : markAndDeleteRouteRequest(d) => DriverView!markAndDeleteRouteRequest(d)
  BY DriverViewValues DEF markAndDeleteRouteRequest, DriverView!markAndDeleteRouteRequest
<1>4. \A d : observeCarpoolRequestForMyDriverID(d)
              => DriverView!observeCarpoolRequestForMyDriverID(d)
  BY DriverViewValues
     DEF observeCarpoolRequestForMyDriverID, DriverView!observeCarpoolRequestForMyDriverID
<1>5. /\ \A d, p : setRoute(d, p) => DriverView!setRoute(d, p)
      /\ \A d : removeRoute(d) => DriverView!removeRoute(d)
      /\ \A d : setCurrentLocation(d) => DriverView!setCurrentLocation(d)
  BY DEF setRoute, DriverView!setRoute, removeRoute, DriverView!removeRoute,
     setCurrentLocation, DriverView!setCurrentLocation
<1>6. /\ \A d : dropRequestObservers(d) => DriverView!dropRequestObservers(d)
      /\ \A d : dropRequestEvent(d) => DriverView!dropRequestEvent(d)
  BY DEF dropRequestObservers, DriverView!dropRequestObservers, dropRequestEvent,
     DriverView!dropRequestEvent
<1>7. /\ \A r, d : requestCarpool(r, d) => DriverView!requestCarpool(r, d)
      /\ \A d : cancelRouteRequest(d) => DriverView!cancelRouteRequest(d)
      /\ \A d : removeRouteRequest(d) => DriverView!removeRouteRequest(d)
  BY <1>1, <1>2, DriverViewValues
     DEF requestCarpool, DriverView!requestCarpool, cancelRouteRequest,
     DriverView!cancelRouteRequest, removeRouteRequest, DriverView!removeRouteRequest
<1>8. \A r, d : removeRideAccept(r, d) => DriverView!removeRideAccept(r, d)
  BY DEF removeRideAccept, DriverView!removeRideAccept, NoAnswer, DriverView!NoAnswer,
     NoStatus, DriverView!NoStatus
<1> QED
  BY <1>1, <1>2, <1>3, <1>4, <1>5, <1>6, <1>7, <1>8

(* An answer reaches no observer there. *)
LEMMA DriverViewAnswers ==
  ASSUME NEW d, NEW r, NEW s, setRideAccept(d, r, s)
  PROVE  DriverView!setRideAccept(d, r, s)
<1> DEFINE nothing == [x \in Riders |-> <<>>]
           answer == [driver |-> d, status |-> s]
<1>1. \A x \in Riders : nothing[x] \o DriverView!AcceptSnapshots(nothing[x], answer) = <<>>
  <2>1. DriverView!AcceptSnapshots(<<>>, answer) = <<>>
    BY DEF DriverView!AcceptSnapshots
  <2>2. <<>> \o <<>> = <<>>
    OBVIOUS
  <2> HIDE DEF answer
  <2> QED
    BY <2>1, <2>2
<1> HIDE DEF answer
<1>2. nothing = [nothing EXCEPT ![r] = @ \o DriverView!AcceptSnapshots(nothing[r], answer)]
  BY <1>1
<1> QED
  BY <1>2 DEF setRideAccept, DriverView!setRideAccept, answer

LEMMA DriverViewReject ==
  ASSUME NEW d, rejectCarpoolRequest(d)
  PROVE  DriverView!rejectCarpoolRequest(d)
<1>1. /\ DriverView!PublishedAfterReset(d) = PublishedAfterReset(d)
      /\ markAndDeleteRouteRequest(d) => DriverView!markAndDeleteRouteRequest(d)
  BY DriverViewState, DriverViewWrites
<1> QED
  BY <1>1, DriverViewAnswers DEF rejectCarpoolRequest, DriverView!rejectCarpoolRequest

LEMMA DriverViewEnd ==
  ASSUME NEW d, NEW how, EndDriverApp(d, how)
  PROVE  DriverView!EndDriverApp(d, how)
BY DriverViewValues, DriverViewWrites DEF EndDriverApp, DriverView!EndDriverApp

(* A step of the driver's app is one of that component: nothing bounds it. *)
LEMMA DriverViewStep ==
  ASSUME NEW d \in Drivers, DriverStep(d)
  PROVE  DriverView!DriverStep(d)
<1>0. /\ DriverView!Running(d) <=> Running(d)
      /\ DriverView!NavigatedAfterReset(d) = NavigatedAfterReset(d)
      /\ DriverView!PublishedAfterReset(d) = PublishedAfterReset(d)
      /\ DriverView!HasRoom(d)
      /\ DriverCrashes(d) => DriverView!DriverCrashes(d)
      /\ \A k : DriverView!\prec(k, Unbounded)
  BY DriverViewState, DriverViewEnd DEF DriverCrashes, DriverView!DriverCrashes, DriverView!\prec
<1>1. CASE StartCarpool(d)
  <2>1. DriverView!StartCarpool(d)
    BY <1>0, <1>1, DriverViewValues, DriverViewWrites DEF StartCarpool, DriverView!StartCarpool
  <2> QED
    BY <2>1 DEF DriverView!DriverStep
<1>2. CASE DismissNavigation(d)
  <2>1. DriverView!DismissNavigation(d)
    BY <1>0, <1>2, DriverViewValues, DriverViewWrites
       DEF DismissNavigation, DriverView!DismissNavigation
  <2> QED
    BY <2>1 DEF DriverView!DriverStep
<1>3. ASSUME NEW lastMinute \in BOOLEAN, NavigationProgress(d, lastMinute)
      PROVE  DriverView!DriverStep(d)
  <2>1. DriverView!NavigationProgress(d, lastMinute)
    BY <1>0, <1>3, DriverViewWrites DEF NavigationProgress, DriverView!NavigationProgress
  <2> QED
    BY <2>1 DEF DriverView!DriverStep
<1>4. CASE ArriveAtPickUp(d)
  BY <1>0, <1>4 DEF ArriveAtPickUp, DriverView!ArriveAtPickUp, DriverView!DriverStep
<1>5. CASE TapReject(d)
  <2>1. DriverView!TapReject(d)
    BY <1>0, <1>5, DriverViewValues, DriverViewReject DEF TapReject, DriverView!TapReject
  <2> QED
    BY <2>1 DEF DriverView!DriverStep
<1>6. CASE TapCancelOnBadge(d)
  <2>1. DriverView!TapCancelOnBadge(d)
    BY <1>0, <1>6, DriverViewReject DEF TapCancelOnBadge, DriverView!TapCancelOnBadge
  <2> QED
    BY <2>1 DEF DriverView!DriverStep
<1>7. CASE TapAccept(d)
  <2>1. DriverView!TapAccept(d)
    BY <1>0, <1>7, DriverViewValues DEF TapAccept, DriverView!TapAccept, dbVars,
       DriverView!dbVars
  <2> QED
    BY <2>1 DEF DriverView!DriverStep
<1>8. CASE RequestEvent(d)
  <2>1. ASSUME NEW node
        PROVE  /\ HearRequested(d, node) => DriverView!HearRequested(d, node)
               /\ HearAcceptedOrConfirmed(d, node) => DriverView!HearAcceptedOrConfirmed(d, node)
               /\ HearRiderCancelled(d, node) => DriverView!HearRiderCancelled(d, node)
               /\ HearCancelled(d, node) => DriverView!HearCancelled(d, node)
               /\ HearNothingNew(d, node) => DriverView!HearNothingNew(d, node)
    <3>1. dropRequestEvent(d) => DriverView!dropRequestEvent(d)
      BY DriverViewWrites
    <3> QED
      BY <1>0, <3>1, DriverViewValues DEF HearRequested, DriverView!HearRequested,
         HearAcceptedOrConfirmed, DriverView!HearAcceptedOrConfirmed, HearRiderCancelled,
         DriverView!HearRiderCancelled, HearCancelled, DriverView!HearCancelled,
         HearNothingNew, DriverView!HearNothingNew
  <2>2. DriverView!RequestEvent(d)
    BY <1>0, <1>8, <2>1, DriverViewValues DEF RequestEvent, DriverView!RequestEvent
  <2> QED
    BY <2>2 DEF DriverView!DriverStep, DriverView!DriverCallbacks
<1>9. ASSUME NEW r \in Riders, NEW outcome \in DetailsOutcomes, DetailsFetched(d, r, outcome)
      PROVE  DriverView!DriverStep(d)
  <2>1. DriverView!DetailsFetched(d, r, outcome)
    BY <1>0, <1>9 DEF DetailsFetched, DriverView!DetailsFetched, dbVars, DriverView!dbVars
  <2> QED
    BY <2>1 DEF DriverView!DriverStep, DriverView!DriverCallbacks
<1>10. ASSUME NEW found \in RoutingOutcomes, TimeFetched(d, found)
       PROVE  DriverView!DriverStep(d)
  <2>1. DriverView!TimeFetched(d, found)
    BY <1>0, <1>10 DEF TimeFetched, DriverView!TimeFetched, dbVars, DriverView!dbVars
  <2> QED
    BY <2>1 DEF DriverView!DriverStep, DriverView!DriverCallbacks
<1>11. ASSUME NEW found \in RoutingOutcomes, DistanceFetched(d, found)
       PROVE  DriverView!DriverStep(d)
  <2>1. DriverView!DistanceFetched(d, found)
    BY <1>0, <1>11, DriverViewValues DEF DistanceFetched, DriverView!DistanceFetched, dbVars,
       DriverView!dbVars
  <2> QED
    BY <2>1 DEF DriverView!DriverStep, DriverView!DriverCallbacks
<1>12. ASSUME NEW p \in Riders, AcceptRouteReady(d, p) \/ AcceptRouteFails(d, p)
       PROVE  DriverView!DriverStep(d)
  <2>1. AcceptRouteReady(d, p) => DriverView!AcceptRouteReady(d, p)
    BY <1>0, DriverViewWrites, DriverViewAnswers DEF AcceptRouteReady, DriverView!AcceptRouteReady
  <2>2. AcceptRouteFails(d, p) => DriverView!AcceptRouteFails(d, p)
    BY <1>0 DEF AcceptRouteFails, DriverView!AcceptRouteFails, dbVars, DriverView!dbVars
  <2> QED
    BY <1>12, <2>1, <2>2 DEF DriverView!DriverStep, DriverView!DriverCallbacks
<1>13. CASE QuitDriverApp(d)
  BY <1>0, <1>13, DriverViewEnd
     DEF QuitDriverApp, DriverView!QuitDriverApp, DriverView!DriverStep
<1>14. CASE LaunchDriverApp(d)
  <2>1. DriverView!LaunchDriverApp(d)
    BY <1>0, <1>14 DEF LaunchDriverApp, DriverView!LaunchDriverApp, dbVars, DriverView!dbVars
  <2> QED
    BY <2>1 DEF DriverView!DriverStep
<1> QED
  BY <1>1, <1>2, <1>3, <1>4, <1>5, <1>6, <1>7, <1>8, <1>9, <1>10, <1>11, <1>12, <1>13, <1>14
     DEF DriverStep, DriverCallbacks

(* What a step of a rider's app does to the nodes a driver's app sees.     *)
DriverSees == <<driver, RouteRequests, RideAccepts, DriverRoutes, DriverLocations,
                requestObservers, requestEvents, asked>>

LEMMA RiderStepSeen ==
  ASSUME RiderInvariant, NEW r \in Riders, RiderStep(r), driver' = driver
  PROVE  \/ UNCHANGED DriverSees
         \/ /\ UNCHANGED <<driver, DriverRoutes, DriverLocations, requestObservers>>
            /\ \E d \in Drivers :
                 \/ requestCarpool(r, d) /\ RideAccepts' = RideAccepts
                 \/ /\ cancelRouteRequest(d) \/ removeRouteRequest(d)
                    /\ UNCHANGED <<RideAccepts, asked>>
                 \/ /\ removeRideAccept(r, d)
                    /\ UNCHANGED <<RouteRequests, requestEvents, asked>>
<1>0. /\ \A m : OnlyMemory(r, m) => UNCHANGED DriverSees
      /\ RiderCrashes(r) => UNCHANGED DriverSees
  BY DEF OnlyMemory, DriverSees, dbVars, RiderCrashes, EndRiderApp
<1>1. CASE \/ MapRoutesEvent(r) \/ (\E near \in BOOLEAN : MapLocationsEvent(r, near))
           \/ FindCarpool(r) \/ SearchStep(r) \/ TapConfirmProximity(r) \/ DismissRejection(r)
  <2>1. (\E m : OnlyMemory(r, m)) \/ RiderCrashes(r)
    BY <1>1 DEF MapRoutesEvent, MapLocationsEvent, FindCarpool, SearchStep,
       SearchDetailsFetched, PlanFetched, DriverRouteFetched, WalkingRouteFetched,
       RideDistanceFetched, SearchFails, TapConfirmProximity, DismissRejection
  <2> QED
    BY <1>0, <2>1
<1> DEFINE d == rider[r].result.driver
<1>2. d # NoDriver => d \in Drivers
  BY MemoryFields DEF OptionalDriver
<1>3. CASE TapSend(r) /\ ~RiderCrashes(r)
  <2>1. /\ d # NoDriver /\ requestCarpool(r, d)
        /\ UNCHANGED <<RideAccepts, DriverRoutes, DriverLocations, requestObservers>>
    BY <1>3 DEF TapSend
  <2> HIDE DEF d
  <2> QED
    BY <1>2, <2>1
<1>4. ASSUME NEW m, CancelCarpool(r, m), ~RiderCrashes(r), ~OnlyMemory(r, m),
             ~UNCHANGED DriverSees
      PROVE  /\ d # NoDriver /\ cancelRouteRequest(d)
             /\ UNCHANGED <<RideAccepts, DriverRoutes, DriverLocations, requestObservers, asked>>
  BY <1>4 DEF CancelCarpool, DriverSees
<1>5. CASE TapCancelSuggestion(r) \/ TapCancelRide(r) \/ TapCancelProximity(r)
  <2>1. PICK m : CancelCarpool(r, m)
    BY <1>5 DEF TapCancelSuggestion, TapCancelRide, TapCancelProximity
  <2> HIDE DEF d
  <2> QED
    BY <1>0, <1>2, <1>4, <2>1
<1>6. CASE AcceptEvent(r) \/ \E s \in PushStatuses : PushReceived(r, s)
  <2>1. RiderCrashes(r) \/ \E s, rest : ProcessStatus(r, s, rest)
    BY <1>6 DEF AcceptEvent, PushReceived
  <2>2. ASSUME NEW s, NEW rest, ProcessStatus(r, s, rest), ~RiderCrashes(r)
        PROVE  /\ UNCHANGED <<RideAccepts, DriverRoutes, DriverLocations, requestObservers, asked>>
               /\ \/ UNCHANGED <<RouteRequests, requestEvents>>
                  \/ d # NoDriver /\ removeRouteRequest(d)
    BY <2>2 DEF ProcessStatus, ProcessAccepted, ProcessRejected, ProcessConfirmed,
       ProcessArrived, ProcessKnown, Processed, UnchangedButAnswers
  <2> HIDE DEF d
  <2> QED
    BY <1>0, <1>2, <2>1, <2>2 DEF DriverSees
<1>7. CASE RiderCompletion(r)
  <2>1. /\ UNCHANGED <<driver, DriverRoutes, DriverLocations, requestObservers,
                       RouteRequests, requestEvents, asked>>
        /\ \/ RideAccepts' = RideAccepts
           \/ \E c \in Drivers : removeRideAccept(r, c)
    BY <1>7 DEF RiderCompletion, WriteCompletes, SecondWrite, removeRideAcceptDenied,
       RemovalIsDenied, UnchangedByCompletion
  <2> QED
    BY <2>1 DEF DriverSees
<1>8. CASE QuitRiderApp(r) \/ LaunchRiderApp(r) \/ SendPush(r)
  BY <1>0, <1>8 DEF QuitRiderApp, LaunchRiderApp, SendPush, EndRiderApp, DriverSees, dbVars
<1> QED
  BY <1>0, <1>1, <1>3, <1>5, <1>6, <1>7, <1>8 DEF RiderStep

LEMMA DriverViewRiderStep ==
  ASSUME RiderInvariant, NEW r \in Riders, RiderStep(r), driver' = driver
  PROVE  DriverView!DriverNext \/ UNCHANGED DriverView!driverVars
<1>1. CASE UNCHANGED DriverSees
  BY <1>1 DEF DriverSees, DriverView!driverVars, DriverView!dbVars
<1>2. ASSUME NEW d \in Drivers,
             UNCHANGED <<driver, DriverRoutes, DriverLocations, requestObservers>>,
             \/ requestCarpool(r, d) /\ RideAccepts' = RideAccepts
             \/ /\ cancelRouteRequest(d) \/ removeRouteRequest(d)
                /\ UNCHANGED <<RideAccepts, asked>>
             \/ /\ removeRideAccept(r, d)
                /\ UNCHANGED <<RouteRequests, requestEvents, asked>>
      PROVE  DriverView!DriverNext
  <2>1. DriverView!RiderMayWrite(d)
    BY DriverViewState DEF DriverView!RiderMayWrite, DriverView!\prec
  <2>2. DriverView!RiderSide(d)
    BY <1>2, <2>1, DriverViewWrites DEF DriverView!RiderSide, DriverView!AnyRiderRequests,
       DriverView!AnyRiderWritesRequest, DriverView!AnyRiderRemovesAnswer
  <2> QED
    BY <2>2 DEF DriverView!DriverNext
<1> QED
  BY <1>1, <1>2, RiderStepSeen

(* Whatever riders' apps do, a driver's app meets nothing in the whole     *)
(* protocol that it was not checked and proved against.                    *)
THEOREM DriversMeetTheirRidersAlways == CarpoolSpec => DriversMeetTheirRiders
<1> DEFINE Typed == DriverTypeOK /\ RiderInvariant
<1>1. CarpoolInit => DriverView!DriverInit
  BY DriverViewValues DEF CarpoolInit, DriverInit, DriverView!DriverInit, DatabaseInit,
     DriverView!DatabaseInit, NoAnswer, DriverView!NoAnswer, NoStatus, DriverView!NoStatus
<1>2. Typed /\ [CarpoolNext]_carpoolVars => [DriverView!DriverNext]_(DriverView!driverVars)
  <2> SUFFICES ASSUME Typed, [CarpoolNext]_carpoolVars
               PROVE  DriverView!DriverNext \/ UNCHANGED DriverView!driverVars
    OBVIOUS
  <2>1. CASE \E d \in Drivers : DriverStep(d) /\ UNCHANGED <<rider, pushes>>
    BY <2>1, DriverViewStep DEF DriverView!DriverNext
  <2>2. CASE \E r \in Riders : RiderStep(r) /\ UNCHANGED driver
    BY <2>2, DriverViewRiderStep
  <2>3. CASE UNCHANGED carpoolVars
    BY <2>3 DEF carpoolVars, dbVars, DriverView!driverVars, DriverView!dbVars
  <2> QED
    BY <2>1, <2>2, <2>3 DEF CarpoolNext
<1>3. CarpoolInit => Typed
  BY CarpoolTypesInit
<1>4. Typed /\ [CarpoolNext]_carpoolVars => Typed'
  BY CarpoolTypesNext
<1> HIDE DEF Typed
<1> QED
  BY <1>1, <1>2, <1>3, <1>4, PTL DEF CarpoolSpec, DriversMeetTheirRiders, DriverView!DriverSpec

-----------------------------------------------------------------------------
(***************************************************************************)
(* The composition also implements the open component a rider's app was    *)
(* checked and proved in.  For that a driver's app must answer only riders *)
(* who asked it, and must reset its route when it rejects: whom it answers *)
(* it has heard of, in a navigation it has started.                        *)
(***************************************************************************)
Addressed(d) ==
  LET m == driver[d] IN
  /\ requestObservers[d] # 0 => m.original
  /\ m.riderID # NoRider => m.original
  /\ m.riderID = NoRider => m.request.rider = NoRider /\ \A p \in Riders : m.calls.accept[p] = 0
  /\ \A i \in DOMAIN requestEvents[d] : ~IsFiltered(requestEvents[d][i])

(* A step that leaves whom the app knows, while snapshots are queued.      *)
KeepsAddress(d) ==
  /\ driver'[d].riderID = driver[d].riderID
  /\ driver[d].original => driver'[d].original
  /\ driver[d].riderID = NoRider =>
       /\ driver'[d].request.rider = driver[d].request.rider
       /\ driver'[d].calls.accept = driver[d].calls.accept

QueueGrows(d) ==
  \/ requestEvents'[d] = requestEvents[d]
  \/ \E n \in Nat, node \in RequestNode :
       requestEvents'[d] = requestEvents[d] \o RequestSnapshots(n, node)

LEMMA GrownQueueIsFiltered ==
  ASSUME DriverTypeOK, NEW d \in Drivers, Addressed(d), QueueGrows(d)
  PROVE  \A i \in DOMAIN requestEvents'[d] : ~IsFiltered(requestEvents'[d][i])
<1> DEFINE queue == requestEvents[d]
<1>1. queue \in Seq(RequestNode)
  BY DriverFields
<1>2. ASSUME NEW n \in Nat, NEW node \in RequestNode,
             requestEvents'[d] = queue \o RequestSnapshots(n, node),
             NEW i \in DOMAIN requestEvents'[d]
      PROVE  ~IsFiltered(requestEvents'[d][i])
  <2>1. CASE IsFiltered(node)
    <3>1. requestEvents'[d] = queue
      BY <1>1, <1>2, <2>1 DEF RequestSnapshots
    <3> QED
      BY <1>2, <3>1 DEF Addressed
  <2>2. CASE ~IsFiltered(node)
    <3> DEFINE longer == queue \o RequestSnapshots(n, node)
    <3>1. /\ \A j \in DOMAIN queue : j \in DOMAIN longer /\ longer[j] = queue[j]
          /\ \A j \in DOMAIN longer : j \in DOMAIN queue \/ longer[j] = node
      BY <1>1, QueuedBehind
    <3>2. requestEvents'[d] = longer
      BY <1>2
    <3>3. \A j \in DOMAIN queue : ~IsFiltered(queue[j])
      BY DEF Addressed
    <3> HIDE DEF longer, queue
    <3> QED
      BY <1>2, <2>2, <3>1, <3>2, <3>3
  <2> QED
    BY <2>1, <2>2
<1> QED
  BY <1>2 DEF QueueGrows, Addressed

LEMMA AddressKept ==
  ASSUME DriverTypeOK, NEW d \in Drivers, Addressed(d), KeepsAddress(d), QueueGrows(d),
         requestObservers'[d] = requestObservers[d] \/ driver'[d].original
  PROVE  Addressed(d)'
<1>1. \A i \in DOMAIN requestEvents'[d] : ~IsFiltered(requestEvents'[d][i])
  BY GrownQueueIsFiltered
<1>2. driver[d].original => driver'[d].original
  BY DEF KeepsAddress
<1> QED
  BY <1>1, <1>2 DEF Addressed, KeepsAddress

LEMMA EndOfAppAddressed ==
  ASSUME DriverTypeOK, NEW d \in Drivers, NEW how, EndDriverApp(d, how)
  PROVE  Addressed(d)'
<1>1. driver'[d] = FreshMemory(how)
  BY DEF EndDriverApp, DriverTypeOK
<1>2. requestEvents'[d] = <<>> /\ requestObservers'[d] = 0
  BY DEF EndDriverApp, dropRequestObservers, DriverTypeOK, DatabaseTypeOK
<1> QED
  BY <1>1, <1>2 DEF Addressed, FreshMemory, NoCarpoolRequest

(* An answer queues a snapshot of the node, or of its removal.             *)
LEMMA AnswerQueues ==
  ASSUME DriverTypeOK, NEW d \in Drivers,
         \/ rejectCarpoolRequest(d)
         \/ \E s \in CarpoolRequestStatus : setRouteRequest(d, s)
  PROVE  QueueGrows(d)
<1>1. /\ RouteRequests[d] \in RequestNode /\ requestObservers[d] \in Nat
      /\ \A s \in CarpoolRequestStatus : WithStatus(RouteRequests[d], s) \in RequestNode
  BY DriverFields, NodesAreTyped
<1>2. "deleted" \in CarpoolRequestStatus
  BY DEF CarpoolRequestStatus
<1>3. CASE rejectCarpoolRequest(d)
  <2>1. \/ requestEvents' = requestEvents
        \/ requestEvents' = [requestEvents EXCEPT
             ![d] = @ \o RequestSnapshots(requestObservers[d],
                                          WithStatus(RouteRequests[d], "deleted"))]
    BY <1>3 DEF rejectCarpoolRequest, markAndDeleteRouteRequest
  <2> QED
    BY <1>1, <1>2, <2>1 DEF QueueGrows, DriverTypeOK, DatabaseTypeOK
<1>4. ASSUME NEW s \in CarpoolRequestStatus, setRouteRequest(d, s)
      PROVE  QueueGrows(d)
  <2> DEFINE node == WithStatus(RouteRequests[d], s)
  <2>1. \/ requestEvents' = requestEvents
        \/ requestEvents' = [requestEvents EXCEPT
             ![d] = @ \o RequestSnapshots(requestObservers[d], node)]
    BY <1>4 DEF setRouteRequest, WriteRequest
  <2>2. node \in RequestNode
    BY <1>1, <1>4
  <2> HIDE DEF node
  <2> QED
    BY <1>1, <2>1, <2>2 DEF QueueGrows, DriverTypeOK, DatabaseTypeOK
<1> QED
  BY <1>3, <1>4

(* A driver's app hears of a rider before it answers, whatever it is told. *)
LEMMA RequestEventAddressed ==
  ASSUME DriverTypeOK, NEW d \in Drivers, RequestEvent(d), WrittenDriver(d), Addressed(d)
  PROVE  Addressed(d)'
<1> DEFINE queue == requestEvents[d]
           node == Head(queue)
<1>1. queue \in Seq(RequestNode) /\ queue # <<>>
  BY DriverFields DEF RequestEvent
<1>2. /\ ~IsFiltered(node)
      /\ \A i \in DOMAIN Tail(queue) : ~IsFiltered(Tail(queue)[i])
  <2>1. Head(queue) = queue[1] /\ 1 \in DOMAIN queue
    BY <1>1, QueuedAfter
  <2>2. \A i \in DOMAIN Tail(queue) : i + 1 \in DOMAIN queue /\ Tail(queue)[i] = queue[i + 1]
    BY <1>1, QueuedAfter
  <2> QED
    BY <2>1, <2>2 DEF Addressed
<1>3. driver[d] \in DriverMemory
  BY DriverFields
<1>4. driver[d].original
  BY <1>1, DriverFields DEF WrittenDriver, Addressed
<1> HIDE DEF node
<1>5. CASE DriverCrashes(d)
  BY <1>5, EndOfAppAddressed DEF DriverCrashes
<1>6. CASE ~FailsForcedCast(node)
           /\ \/ HearRequested(d, node) \/ HearAcceptedOrConfirmed(d, node)
              \/ HearRiderCancelled(d, node) \/ HearCancelled(d, node)
              \/ HearNothingNew(d, node)
  <2>1. node.rider # NoRider
    BY <1>2, <1>6 DEF FailsForcedCast
  <2>2. driver'[d].riderID = node.rider /\ driver'[d].original = driver[d].original
    <3>1. CASE HearRequested(d, node)
      <4>1. driver'[d] = [driver[d] EXCEPT !.riderID = node.rider,
                                           !.request = NewCarpoolRequest(node),
                                           !.calls.details[node.rider] = @ + 1]
        BY <3>1 DEF HearRequested, DriverTypeOK
      <4> QED
        BY <1>3, <4>1 DEF DriverMemory
    <3>2. CASE HearAcceptedOrConfirmed(d, node)
      BY <1>3, <3>2 DEF HearAcceptedOrConfirmed, DriverTypeOK, DriverMemory
    <3>3. CASE HearRiderCancelled(d, node)
      BY <1>3, <3>3 DEF HearRiderCancelled, DriverTypeOK, DriverMemory
    <3>4. CASE HearCancelled(d, node)
      <4>1. driver'[d] = [driver[d] EXCEPT !.riderID = node.rider, !.badge = "notice",
                                           !.alert = Dismissed(@)]
        BY <3>4 DEF HearCancelled, DriverTypeOK
      <4> QED
        BY <1>3, <4>1 DEF DriverMemory
    <3>5. CASE HearNothingNew(d, node)
      BY <1>3, <3>5 DEF HearNothingNew, DriverTypeOK, DriverMemory
    <3> QED
      BY <1>6, <3>1, <3>2, <3>3, <3>4, <3>5
  <2>3. dropRequestEvent(d)
    BY <1>6 DEF HearRequested, HearAcceptedOrConfirmed, HearRiderCancelled, HearCancelled,
       HearNothingNew
  <2>4. requestEvents'[d] = Tail(queue)
    BY <2>3 DEF dropRequestEvent, DriverTypeOK, DatabaseTypeOK
  <2> HIDE DEF queue
  <2> QED
    BY <1>2, <1>4, <2>1, <2>2, <2>4 DEF Addressed
<1> QED
  BY <1>5, <1>6 DEF RequestEvent, node

LEMMA DriverStepAddressed ==
  ASSUME DriverTypeOK, NEW d \in Drivers, DriverStep(d), WrittenDriver(d), Addressed(d)
  PROVE  Addressed(d)'
<1>0. driver[d] \in DriverMemory /\ driver[d].calls \in DriverCalls
      /\ driver[d].request \in S1CCarpoolRequest
  BY DriverFields
<1>1. CASE StartCarpool(d)
  <2>1. KeepsAddress(d) /\ driver'[d].original
    BY <1>0, <1>1 DEF StartCarpool, KeepsAddress, DriverTypeOK, DriverMemory
  <2>2. QueueGrows(d)
    <3>1. requestEvents'[d] = requestEvents[d] \o RequestSnapshots(1, RouteRequests[d])
      BY <1>1 DEF StartCarpool, observeCarpoolRequestForMyDriverID, DriverTypeOK, DatabaseTypeOK
    <3> QED
      BY <3>1, DriverFields DEF QueueGrows
  <2> QED
    BY <2>1, <2>2, AddressKept
<1>2. CASE DismissNavigation(d) \/ LaunchDriverApp(d)
           \/ \E lastMinute \in BOOLEAN : NavigationProgress(d, lastMinute)
  <2>1. KeepsAddress(d)
    BY <1>0, <1>2
       DEF DismissNavigation, LaunchDriverApp, NavigationProgress, KeepsAddress, DriverTypeOK,
       DriverMemory
  <2>2. UNCHANGED <<requestEvents, requestObservers>>
    BY <1>2 DEF DismissNavigation, LaunchDriverApp, NavigationProgress, dbVars
  <2> QED
    BY <2>1, <2>2, AddressKept DEF QueueGrows
<1>3. CASE DriverCrashes(d) \/ QuitDriverApp(d) \/ ArriveAtPickUp(d)
  BY <1>3, EndOfAppAddressed DEF DriverCrashes, QuitDriverApp, ArriveAtPickUp
<1>4. CASE TapReject(d) \/ TapCancelOnBadge(d)
  <2>1. KeepsAddress(d)
    BY <1>0, <1>4 DEF TapReject, TapCancelOnBadge, KeepsAddress, DriverTypeOK, DriverMemory
  <2>2. rejectCarpoolRequest(d)
    BY <1>4 DEF TapReject, TapCancelOnBadge
  <2>3. requestObservers' = requestObservers
    BY <2>2 DEF rejectCarpoolRequest
  <2> QED
    BY <2>1, <2>2, <2>3, AnswerQueues, AddressKept
<1>5. CASE TapAccept(d) /\ ~DriverCrashes(d)
  <2>1. /\ driver[d].request.rider # NoRider /\ UNCHANGED dbVars
        /\ driver'[d] = [driver[d] EXCEPT !.calls.accept[driver[d].request.rider] = @ + 1,
                                          !.badge = "pickUp",
                                          !.alert = Dismissed(@)]
    BY <1>5 DEF TapAccept, DriverTypeOK
  <2>2. driver[d].riderID # NoRider
    BY <2>1 DEF Addressed
  <2>3. driver'[d].riderID = driver[d].riderID /\ driver'[d].original = driver[d].original
    BY <1>0, <2>1 DEF DriverMemory
  <2>4. KeepsAddress(d)
    BY <2>2, <2>3 DEF KeepsAddress
  <2> QED
    BY <2>1, <2>4, AddressKept DEF QueueGrows, dbVars
<1>6. CASE RequestEvent(d)
  BY <1>6, RequestEventAddressed
<1>7. CASE \/ \E r \in Riders, outcome \in DetailsOutcomes : DetailsFetched(d, r, outcome)
           \/ \E found \in RoutingOutcomes : TimeFetched(d, found)
           \/ \E found \in RoutingOutcomes : DistanceFetched(d, found)
  <2>1. CASE DriverCrashes(d)
    BY <2>1, EndOfAppAddressed DEF DriverCrashes
  <2>2. CASE ~DriverCrashes(d)
    <3>1. AppKept(d)
      BY <1>7, <2>2, PreparationKeepsApp
    <3>2. UNCHANGED dbVars
      BY <1>7, <2>2 DEF DetailsFetched, TimeFetched, DistanceFetched
    <3>3. KeepsAddress(d)
      BY <3>1 DEF AppKept, KeepsAddress
    <3> QED
      BY <3>2, <3>3, AddressKept DEF QueueGrows, dbVars
  <2> QED
    BY <2>1, <2>2
<1>8. CASE \E p \in Riders : AcceptRouteReady(d, p) \/ AcceptRouteFails(d, p)
  <2>1. PICK p \in Riders : AcceptRouteReady(d, p) \/ AcceptRouteFails(d, p)
    BY <1>8
  <2>2. /\ driver[d].calls.accept[p] > 0
        /\ \E route : driver'[d] = [driver[d] EXCEPT !.calls.accept[p] = @ - 1, !.route = route]
    <3>1. CASE AcceptRouteReady(d, p)
      BY <3>1 DEF AcceptRouteReady, DriverTypeOK
    <3>2. CASE AcceptRouteFails(d, p)
      <4>1. driver'[d] = [driver[d] EXCEPT !.calls.accept[p] = @ - 1]
        BY <3>2 DEF AcceptRouteFails, DriverTypeOK
      <4>2. driver'[d] = [driver[d] EXCEPT !.calls.accept[p] = @ - 1, !.route = driver[d].route]
        BY <1>0, <4>1 DEF DriverMemory
      <4> QED
        BY <3>2, <4>2 DEF AcceptRouteFails
    <3> QED
      BY <2>1, <3>1, <3>2
  <2>3. driver[d].riderID # NoRider
    BY <2>2 DEF Addressed
  <2>4. driver'[d].riderID = driver[d].riderID /\ driver'[d].original = driver[d].original
    BY <1>0, <2>2 DEF DriverMemory
  <2>5. QueueGrows(d) /\ requestObservers' = requestObservers
    <3>1. "accepted" \in CarpoolRequestStatus
      BY DEF CarpoolRequestStatus
    <3> QED
      BY <2>1, <3>1, AnswerQueues DEF AcceptRouteReady, AcceptRouteFails, QueueGrows, dbVars
  <2>6. KeepsAddress(d)
    BY <2>3, <2>4 DEF KeepsAddress
  <2> QED
    BY <2>5, <2>6, AddressKept
<1> QED
  BY <1>1, <1>2, <1>3, <1>4, <1>5, <1>6, <1>7, <1>8 DEF DriverStep, DriverCallbacks

LEMMA RiderStepAddressed ==
  ASSUME DriverTypeOK, NEW r \in Riders, RiderWrites(r), driver' = driver,
         NEW d \in Drivers, Addressed(d)
  PROVE  Addressed(d)'
<1>1. QueueGrows(d)
  <2>1. ASSUME NEW e \in Drivers,
               NEW node \in {RequestFrom(r), WithStatus(RouteRequests[e], "riderCancelled"),
                             NoRequest},
               WriteRequest(e, node)
        PROVE  QueueGrows(d)
    <3>1. node \in RequestNode
      BY <2>1, NodesAreTyped, DriverFields DEF CarpoolRequestStatus
    <3>2. requestObservers[d] \in Nat
      BY DriverFields
    <3>3. requestEvents'[d] \in
            {requestEvents[d], requestEvents[d] \o RequestSnapshots(requestObservers[d], node)}
      BY <2>1 DEF WriteRequest, DriverTypeOK, DatabaseTypeOK
    <3> QED
      BY <3>1, <3>2, <3>3 DEF QueueGrows
  <2> QED
    BY <2>1 DEF RiderWrites, QueueGrows
<1>2. KeepsAddress(d) /\ requestObservers'[d] = requestObservers[d]
  BY DEF KeepsAddress, RiderWrites
<1> QED
  BY <1>1, <1>2, AddressKept

(* What holds of both sides together: types, whom a driver holds and       *)
(* answers, and that it was asked on the way it listens.                   *)
Acquainted ==
  /\ DriverTypeOK /\ RiderInvariant
  /\ \A d \in Drivers : WrittenDriver(d) /\ Addressed(d)
  /\ AskersInvariant

LEMMA AcquaintedInit == CarpoolInit => CarpoolInvariant /\ Acquainted
<1> SUFFICES ASSUME CarpoolInit PROVE CarpoolInvariant /\ Acquainted
  OBVIOUS
<1>1. DriverTypeOK /\ RiderInvariant /\ CarpoolInvariant /\ DriverInit
  BY CarpoolTypesInit, CarpoolInvariantInit DEF CarpoolInit
<1>2. ASSUME NEW d \in Drivers
      PROVE  Addressed(d)
  <2>1. driver[d] = FreshMemory("running") /\ requestEvents[d] = <<>> /\ requestObservers[d] = 0
    BY <1>1 DEF DriverInit, DatabaseInit
  <2> QED
    BY <2>1 DEF Addressed, FreshMemory, NoCarpoolRequest
<1>3. AskersInvariant
  BY <1>1, AskersInit
<1> QED
  BY <1>1, <1>2, <1>3 DEF Acquainted, CarpoolInvariant

LEMMA AcquaintedNext ==
  CarpoolInvariant /\ Acquainted /\ [CarpoolNext]_carpoolVars
    => CarpoolInvariant' /\ Acquainted'
<1> SUFFICES ASSUME CarpoolInvariant, Acquainted, [CarpoolNext]_carpoolVars
             PROVE  CarpoolInvariant' /\ Acquainted'
  OBVIOUS
<1>1. DriverTypeOK' /\ RiderInvariant' /\ CarpoolInvariant'
  BY CarpoolTypesNext, CarpoolInvariantNext DEF Acquainted
<1>2. \A d \in Drivers : WrittenDriver(d)'
  BY <1>1 DEF CarpoolInvariant
<1>3. ASSUME NEW d \in Drivers
      PROVE  Addressed(d)'
  <2>1. ASSUME NEW e \in Drivers, DriverStep(e)
        PROVE  Addressed(d)'
    <3>1. CASE e = d
      BY <2>1, <3>1, DriverStepAddressed DEF Acquainted
    <3>2. CASE e # d
      <4>1. LeftAlone(d) /\ driver'[d] = driver[d]
        BY <2>1, <3>2, OtherDriversUntouched DEF Acquainted
      <4> QED
        BY <4>1 DEF Acquainted, Addressed, LeftAlone
    <3> QED
      BY <3>1, <3>2
  <2>2. ASSUME NEW r \in Riders, RiderStep(r), driver' = driver
        PROVE  Addressed(d)'
    BY <2>2, RiderStepWrites, RiderStepAddressed DEF Acquainted
  <2>3. CASE UNCHANGED carpoolVars
    BY <2>3 DEF Acquainted, Addressed, carpoolVars, dbVars
  <2> QED
    BY <2>1, <2>2, <2>3 DEF CarpoolNext
<1>4. AskersInvariant'
  <2>1. ASSUME NEW d \in Drivers, DriverStep(d)
        PROVE  AskersInvariant'
    BY <2>1, DriverStepServesAskers DEF Acquainted
  <2>2. ASSUME NEW r \in Riders, RiderStep(r), driver' = driver
        PROVE  AskersInvariant'
    <3>1. CASE UNCHANGED DriverSees
      BY <3>1 DEF DriverSees, Acquainted, AskersInvariant, HeldRiders, AskersOf
    <3>2. CASE ~UNCHANGED DriverSees
      <4>1. PICK d \in Drivers :
              \/ requestCarpool(r, d) /\ RideAccepts' = RideAccepts
              \/ /\ cancelRouteRequest(d) \/ removeRouteRequest(d)
                 /\ UNCHANGED <<RideAccepts, asked>>
              \/ /\ removeRideAccept(r, d)
                 /\ UNCHANGED <<RouteRequests, requestEvents, asked>>
        BY <2>2, <3>2, RiderStepSeen DEF Acquainted
      <4>2. UNCHANGED <<driver, DriverRoutes>>
        BY <2>2, <3>2, RiderStepSeen DEF Acquainted
      <4>3. "riderCancelled" \in CarpoolRequestStatus
        BY DEF CarpoolRequestStatus
      <4>4. RidersWriteAt(d)
        BY <2>2, <4>1, <4>2, <4>3 DEF RidersWriteAt, cancelRouteRequest
      <4> QED
        BY <4>4, RidersWritesServeAskers DEF Acquainted
    <3> QED
      BY <3>1, <3>2
  <2>3. CASE UNCHANGED carpoolVars
    BY <2>3 DEF carpoolVars, dbVars, Acquainted, AskersInvariant, HeldRiders, AskersOf
  <2> QED
    BY <2>1, <2>2, <2>3 DEF CarpoolNext
<1> QED
  BY <1>1, <1>2, <1>3, <1>4 DEF Acquainted

-----------------------------------------------------------------------------
(* What a rider's app sees: no driver's observer exists. *)

LEMMA RiderViewValues ==
  /\ RiderView!NoAnswer = NoAnswer /\ RiderView!NoRequest = NoRequest
  /\ RiderView!NoStatus = NoStatus /\ RiderView!NoPage = NoPage
  /\ RiderView!NoSearch = NoSearch /\ RiderView!NoResult = NoResult
  /\ \A how : RiderView!FreshRider(how) = FreshRider(how)
  /\ \A result : RiderView!filled(result) <=> filled(result)
  /\ \A page : /\ RiderView!DismissedPage(page) = DismissedPage(page)
               /\ \A kind : /\ RiderView!Present(page, kind) = Present(page, kind)
                            /\ RiderView!PushOrPresent(page, kind) = PushOrPresent(page, kind)
  /\ \A m : /\ RiderView!CanShowProximityAlert(m) <=> CanShowProximityAlert(m)
            /\ RiderView!WithProximityAlert(m) = WithProximityAlert(m)
            /\ RiderView!CleanedUp(m) = CleanedUp(m)
  /\ \A node, s : RiderView!WithStatus(node, s) = WithStatus(node, s)
  /\ \A r : RiderView!RequestFrom(r) = RequestFrom(r)
  /\ \A observers, answer : RiderView!AcceptSnapshots(observers, answer)
                              = AcceptSnapshots(observers, answer)
  /\ \A k : RiderView!\prec(k, Unbounded)
<1>1. /\ RiderView!NoAnswer = NoAnswer /\ RiderView!NoRequest = NoRequest
      /\ RiderView!NoStatus = NoStatus /\ RiderView!NoPage = NoPage
      /\ RiderView!NoSearch = NoSearch /\ RiderView!NoResult = NoResult
  BY DEF NoAnswer, RiderView!NoAnswer, NoRequest, RiderView!NoRequest, NoStatus,
     RiderView!NoStatus, NoPage, RiderView!NoPage, NoSearch, RiderView!NoSearch, NoResult,
     RiderView!NoResult
<1>2. \A how : RiderView!FreshRider(how) = FreshRider(how)
  BY <1>1 DEF FreshRider, RiderView!FreshRider
<1>3. \A result : RiderView!filled(result) <=> filled(result)
  BY DEF filled, RiderView!filled
<1>4. \A page, kind : /\ RiderView!DismissedPage(page) = DismissedPage(page)
                      /\ RiderView!Present(page, kind) = Present(page, kind)
                      /\ RiderView!PushOrPresent(page, kind) = PushOrPresent(page, kind)
  BY <1>1 DEF DismissedPage, RiderView!DismissedPage, Present, RiderView!Present,
     PushOrPresent, RiderView!PushOrPresent
<1>5. \A m : /\ RiderView!CanShowProximityAlert(m) <=> CanShowProximityAlert(m)
             /\ RiderView!WithProximityAlert(m) = WithProximityAlert(m)
             /\ RiderView!CleanedUp(m) = CleanedUp(m)
  BY <1>1, <1>4 DEF CanShowProximityAlert, RiderView!CanShowProximityAlert, WithProximityAlert,
     RiderView!WithProximityAlert, CleanedUp, RiderView!CleanedUp
<1>6. /\ \A node, s : RiderView!WithStatus(node, s) = WithStatus(node, s)
      /\ \A r : RiderView!RequestFrom(r) = RequestFrom(r)
      /\ \A k : RiderView!\prec(k, Unbounded)
  BY DEF WithStatus, RiderView!WithStatus, RequestFrom, RiderView!RequestFrom, RiderView!\prec
<1>7. \A observers, answer : RiderView!AcceptSnapshots(observers, answer)
                               = AcceptSnapshots(observers, answer)
  BY DEF AcceptSnapshots, RiderView!AcceptSnapshots
<1> QED
  BY <1>1, <1>2, <1>3, <1>4, <1>5, <1>6, <1>7

(* A write to a driver's node raises no event there. *)
LEMMA RiderViewRequests ==
  ASSUME NEW d \in Drivers
  PROVE  /\ \A node : WriteRequest(d, node) => RiderView!WriteRequest(d, node)
         /\ \A s : setRouteRequest(d, s) => RiderView!setRouteRequest(d, s)
         /\ markAndDeleteRouteRequest(d) => RiderView!markAndDeleteRouteRequest(d)
         /\ \A r : requestCarpool(r, d) => RiderView!requestCarpool(r, d)
         /\ cancelRouteRequest(d) => RiderView!cancelRouteRequest(d)
         /\ removeRouteRequest(d) => RiderView!removeRouteRequest(d)
<1> DEFINE none == [e \in Drivers |-> 0]
           nothing == [e \in Drivers |-> <<>>]
<1>1. \A node : RiderView!RequestSnapshots(none[d], node) = <<>>
  BY DEF RiderView!RequestSnapshots
<1>2. \A node : nothing = [nothing EXCEPT
                             ![d] = @ \o RiderView!RequestSnapshots(none[d], node)]
  <2>1. <<>> \o <<>> = <<>>
    OBVIOUS
  <2> HIDE DEF none
  <2> QED
    BY <1>1, <2>1
<1>3. \A node : WriteRequest(d, node) => RiderView!WriteRequest(d, node)
  <2> TAKE node
  <2> HAVE WriteRequest(d, node)
  <2>1. RouteRequests' = [RouteRequests EXCEPT ![d] = node]
    BY DEF WriteRequest
  <2>2. nothing = IF node = RouteRequests[d] THEN nothing
                  ELSE [nothing EXCEPT ![d] = @ \o RiderView!RequestSnapshots(none[d], node)]
    BY <1>2
  <2> QED
    BY <2>1, <2>2 DEF RiderView!WriteRequest
<1>4. \A s : setRouteRequest(d, s) => RiderView!setRouteRequest(d, s)
  BY <1>3, RiderViewValues DEF setRouteRequest, RiderView!setRouteRequest
<1>5. markAndDeleteRouteRequest(d) => RiderView!markAndDeleteRouteRequest(d)
  BY <1>2, RiderViewValues DEF markAndDeleteRouteRequest, RiderView!markAndDeleteRouteRequest
<1>6. /\ \A r : requestCarpool(r, d) => RiderView!requestCarpool(r, d)
      /\ cancelRouteRequest(d) => RiderView!cancelRouteRequest(d)
      /\ removeRouteRequest(d) => RiderView!removeRouteRequest(d)
  BY <1>3, <1>4, RiderViewValues
     DEF requestCarpool, RiderView!requestCarpool, cancelRouteRequest,
     RiderView!cancelRouteRequest, removeRouteRequest, RiderView!removeRouteRequest
<1> QED
  BY <1>3, <1>4, <1>5, <1>6

LEMMA RiderViewAnswers ==
  /\ \A d, r, s : setRideAccept(d, r, s) => RiderView!setRideAccept(d, r, s)
  /\ \A r, d : startObservingRideAcceptForMyRiderID(r, d)
                 => RiderView!startObservingRideAcceptForMyRiderID(r, d)
  /\ \A r, d : /\ removeRideAccept(r, d) => RiderView!removeRideAccept(r, d)
               /\ removeRideAcceptDenied(r, d) => RiderView!removeRideAcceptDenied(r, d)
  /\ \A r : dropAcceptObservers(r) => RiderView!dropAcceptObservers(r)
  /\ \A d, p : setRoute(d, p) => RiderView!setRoute(d, p)
  /\ \A d : removeRoute(d) => RiderView!removeRoute(d)
  /\ \A d : setCurrentLocation(d) => RiderView!setCurrentLocation(d)
<1>1. \A d, r, s : setRideAccept(d, r, s) => RiderView!setRideAccept(d, r, s)
  BY RiderViewValues DEF setRideAccept, RiderView!setRideAccept
<1>2. \A r, d : startObservingRideAcceptForMyRiderID(r, d)
                  => RiderView!startObservingRideAcceptForMyRiderID(r, d)
  BY RiderViewValues DEF startObservingRideAcceptForMyRiderID,
     RiderView!startObservingRideAcceptForMyRiderID
<1>3. /\ \A r, d : removeRideAccept(r, d) => RiderView!removeRideAccept(r, d)
      /\ \A r : dropAcceptObservers(r) => RiderView!dropAcceptObservers(r)
  BY RiderViewValues DEF removeRideAccept, RiderView!removeRideAccept, dropAcceptObservers,
     RiderView!dropAcceptObservers
<1>5. \A r, d : removeRideAcceptDenied(r, d) => RiderView!removeRideAcceptDenied(r, d)
  <2>1. \A d : RiderView!RemovalCompletion(d) = RemovalCompletion(d)
    BY RiderViewValues DEF RemovalCompletion, RiderView!RemovalCompletion
  <2> QED
    BY <2>1, RiderViewValues DEF removeRideAcceptDenied, RiderView!removeRideAcceptDenied
<1>4. /\ \A d, p : setRoute(d, p) => RiderView!setRoute(d, p)
      /\ \A d : removeRoute(d) => RiderView!removeRoute(d)
      /\ \A d : setCurrentLocation(d) => RiderView!setCurrentLocation(d)
  BY DEF setRoute, RiderView!setRoute, removeRoute, RiderView!removeRoute,
     setCurrentLocation, RiderView!setCurrentLocation
<1> QED
  BY <1>1, <1>2, <1>3, <1>4, <1>5

(* The parts of a step of a rider's app. *)
LEMMA RiderViewParts ==
  ASSUME RiderInvariant, NEW r \in Riders
  PROVE  /\ RiderView!RiderRuns(r) <=> RiderRuns(r)
         /\ \A stage : RiderView!Searching(r, stage) <=> Searching(r, stage)
         /\ \A m : OnlyMemory(r, m) => RiderView!OnlyMemory(r, m)
         /\ \A how : EndRiderApp(r, how) => RiderView!EndRiderApp(r, how)
         /\ RiderCrashes(r) => RiderView!RiderCrashes(r)
         /\ SearchFails(r) => RiderView!SearchFails(r)
         /\ \A m : CancelCarpool(r, m) => RiderView!CancelCarpool(r, m)
         /\ \A m, rest : Processed(r, m, rest) => RiderView!Processed(r, m, rest)
         /\ \A d : RiderView!HasRoom(d)
         /\ RiderView!WritesAreFew(r)
         /\ rider[r].result.driver # NoDriver => rider[r].result.driver \in Drivers
<1>1. /\ RiderView!RiderRuns(r) <=> RiderRuns(r)
      /\ \A stage : RiderView!Searching(r, stage) <=> Searching(r, stage)
  BY DEF RiderRuns, RiderView!RiderRuns, Searching, RiderView!Searching
<1>2. \A m : OnlyMemory(r, m) => RiderView!OnlyMemory(r, m)
  BY DEF OnlyMemory, RiderView!OnlyMemory, dbVars, RiderView!dbVars
<1>3. /\ \A how : EndRiderApp(r, how) => RiderView!EndRiderApp(r, how)
      /\ RiderCrashes(r) => RiderView!RiderCrashes(r)
  BY RiderViewValues, RiderViewAnswers
     DEF EndRiderApp, RiderView!EndRiderApp, RiderCrashes, RiderView!RiderCrashes
<1>4. SearchFails(r) => RiderView!SearchFails(r)
  BY <1>2, RiderViewValues DEF SearchFails, RiderView!SearchFails
<1>5. (\A d : RiderView!HasRoom(d)) /\ RiderView!WritesAreFew(r)
  BY RiderViewValues DEF RiderView!HasRoom, RiderView!WritesAreFew
<1>6. rider[r].result.driver # NoDriver => rider[r].result.driver \in Drivers
  BY MemoryFields DEF OptionalDriver
<1>7. ASSUME NEW m, CancelCarpool(r, m)
      PROVE  RiderView!CancelCarpool(r, m)
  <2> DEFINE d == rider[r].result.driver
  <2>1. d # NoDriver /\ cancelRouteRequest(d) => RiderView!cancelRouteRequest(d)
    BY <1>6, RiderViewRequests
  <2> QED
    BY <1>2, <1>3, <1>5, <1>7, <2>1, RiderViewValues
       DEF CancelCarpool, RiderView!CancelCarpool
<1>8. \A m, rest : Processed(r, m, rest) => RiderView!Processed(r, m, rest)
  BY DEF Processed, RiderView!Processed, UnchangedButAnswers, RiderView!UnchangedButAnswers
<1> QED
  BY <1>1, <1>2, <1>3, <1>4, <1>5, <1>6, <1>7, <1>8

LEMMA RiderViewSearch ==
  ASSUME RiderInvariant, NEW r \in Riders, SearchStep(r) \/ FindCarpool(r)
  PROVE  RiderView!RiderStep(r)
<1>1. CASE FindCarpool(r)
  <2>1. RiderView!FindCarpool(r)
    BY <1>1, RiderViewValues, RiderViewParts DEF FindCarpool, RiderView!FindCarpool
  <2> QED
    BY <2>1 DEF RiderView!RiderStep
<1>2. ASSUME NEW outcome \in SearchDetails, SearchDetailsFetched(r, outcome)
      PROVE  RiderView!SearchStep(r)
  <2>1. RiderView!SearchDetailsFetched(r, outcome)
    BY <1>2, RiderViewValues, RiderViewParts
       DEF SearchDetailsFetched, RiderView!SearchDetailsFetched
  <2> QED
    BY <2>1 DEF RiderView!SearchStep
<1>3. ASSUME NEW planned \in PlanOutcomes, PlanFetched(r, planned)
      PROVE  RiderView!SearchStep(r)
  <2>1. RiderView!PlanFetched(r, planned)
    BY <1>3, RiderViewValues, RiderViewParts DEF PlanFetched, RiderView!PlanFetched
  <2> QED
    BY <2>1 DEF RiderView!SearchStep
<1>4. ASSUME NEW found \in SearchOutcomes,
             DriverRouteFetched(r, found) \/ WalkingRouteFetched(r, found)
               \/ RideDistanceFetched(r, found)
      PROVE  RiderView!SearchStep(r)
  <2>1. /\ DriverRouteFetched(r, found) => RiderView!DriverRouteFetched(r, found)
        /\ WalkingRouteFetched(r, found) => RiderView!WalkingRouteFetched(r, found)
    BY RiderViewParts DEF DriverRouteFetched, RiderView!DriverRouteFetched,
       WalkingRouteFetched, RiderView!WalkingRouteFetched
  <2>2. RideDistanceFetched(r, found) => RiderView!RideDistanceFetched(r, found)
    BY RiderViewValues, RiderViewParts DEF RideDistanceFetched, RiderView!RideDistanceFetched
  <2> QED
    BY <1>4, <2>1, <2>2 DEF RiderView!SearchStep
<1> QED
  BY <1>1, <1>2, <1>3, <1>4 DEF SearchStep, RiderView!RiderStep

LEMMA RiderViewProcess ==
  ASSUME RiderInvariant, NEW r \in Riders, NEW s, NEW rest, ProcessStatus(r, s, rest)
  PROVE  RiderView!ProcessStatus(r, s, rest)
<1>1. /\ ProcessAccepted(r, rest) => RiderView!ProcessAccepted(r, rest)
      /\ ProcessArrived(r, rest) => RiderView!ProcessArrived(r, rest)
      /\ ProcessKnown(r, s, rest) => RiderView!ProcessKnown(r, s, rest)
  BY RiderViewValues, RiderViewParts DEF ProcessAccepted, RiderView!ProcessAccepted,
     ProcessArrived, RiderView!ProcessArrived, ProcessKnown, RiderView!ProcessKnown
<1>2. ProcessConfirmed(r, rest) => RiderView!ProcessConfirmed(r, rest)
  BY RiderViewValues, RiderViewParts DEF ProcessConfirmed, RiderView!ProcessConfirmed
<1>3. ASSUME ProcessRejected(r, rest)
      PROVE  RiderView!ProcessRejected(r, rest)
  <2> DEFINE d == rider[r].result.driver
  <2>1. d # NoDriver /\ removeRouteRequest(d) => RiderView!removeRouteRequest(d)
    BY RiderViewRequests, RiderViewParts
  <2> QED
    BY <1>3, <2>1, RiderViewValues, RiderViewParts
       DEF ProcessRejected, RiderView!ProcessRejected
<1> QED
  BY <1>1, <1>2, <1>3 DEF ProcessStatus, RiderView!ProcessStatus

LEMMA RiderViewStep ==
  ASSUME RiderInvariant, NEW r \in Riders, RiderStep(r)
  PROVE  RiderView!RiderStep(r)
<1>1. CASE MapRoutesEvent(r)
  <2>1. RiderView!MapRoutesEvent(r)
    <3>1. \A published : RiderView!CannotDraw(r, published) <=> CannotDraw(r, published)
      BY DEF CannotDraw, RiderView!CannotDraw
    <3> QED
      BY <1>1, <3>1, RiderViewParts DEF MapRoutesEvent, RiderView!MapRoutesEvent
  <2> QED
    BY <2>1 DEF RiderView!RiderStep
<1>2. ASSUME NEW near \in BOOLEAN, MapLocationsEvent(r, near)
      PROVE  RiderView!RiderStep(r)
  <2>1. RiderView!MapLocationsEvent(r, near)
    BY <1>2, RiderViewValues, RiderViewParts DEF MapLocationsEvent, RiderView!MapLocationsEvent
  <2> QED
    BY <2>1 DEF RiderView!RiderStep
<1>3. CASE FindCarpool(r) \/ SearchStep(r)
  BY <1>3, RiderViewSearch
<1>4. CASE TapSend(r)
  <2> DEFINE d == rider[r].result.driver
  <2>1. d # NoDriver /\ requestCarpool(r, d) => RiderView!requestCarpool(r, d)
    BY RiderViewRequests, RiderViewParts
  <2>2. RiderView!TapSend(r)
    BY <1>4, <2>1, RiderViewValues, RiderViewParts, RiderViewAnswers
       DEF TapSend, RiderView!TapSend
  <2> QED
    BY <2>2 DEF RiderView!RiderStep
<1>5. CASE TapCancelSuggestion(r) \/ TapCancelRide(r) \/ TapCancelProximity(r)
  <2>1. /\ TapCancelSuggestion(r) => RiderView!TapCancelSuggestion(r)
        /\ TapCancelRide(r) => RiderView!TapCancelRide(r)
        /\ TapCancelProximity(r) => RiderView!TapCancelProximity(r)
    BY RiderViewValues, RiderViewParts DEF TapCancelSuggestion, RiderView!TapCancelSuggestion,
       TapCancelRide, RiderView!TapCancelRide, TapCancelProximity,
       RiderView!TapCancelProximity
  <2> QED
    BY <1>5, <2>1 DEF RiderView!RiderStep
<1>6. CASE TapConfirmProximity(r) \/ DismissRejection(r)
  <2>1. /\ TapConfirmProximity(r) => RiderView!TapConfirmProximity(r)
        /\ DismissRejection(r) => RiderView!DismissRejection(r)
    BY RiderViewValues, RiderViewParts DEF TapConfirmProximity, RiderView!TapConfirmProximity,
       DismissRejection, RiderView!DismissRejection
  <2> QED
    BY <1>6, <2>1 DEF RiderView!RiderStep
<1>7. CASE AcceptEvent(r)
  <2>1. RiderView!AcceptEvent(r)
    BY <1>7, RiderViewValues, RiderViewParts, RiderViewProcess
       DEF AcceptEvent, RiderView!AcceptEvent
  <2> QED
    BY <2>1 DEF RiderView!RiderStep
<1>8. ASSUME NEW s \in PushStatuses, PushReceived(r, s)
      PROVE  RiderView!RiderStep(r)
  <2>1. RiderView!PushReceived(r, s)
    BY <1>8, RiderViewValues, RiderViewParts, RiderViewProcess
       DEF PushReceived, RiderView!PushReceived
  <2> QED
    BY <2>1 DEF RiderView!RiderStep
<1>9. CASE RiderCompletion(r)
  <2>1. UnchangedByCompletion => RiderView!UnchangedByCompletion
    BY DEF UnchangedByCompletion, RiderView!UnchangedByCompletion
  <2>2. \A d : SecondWrite(r, d) => RiderView!SecondWrite(r, d)
    BY RiderViewAnswers DEF SecondWrite, RiderView!SecondWrite
  <2>3. \A d, granted : WriteCompletes(r, d, granted) => RiderView!WriteCompletes(r, d, granted)
    BY <2>1, <2>2, RiderViewValues, RiderViewParts
       DEF WriteCompletes, RiderView!WriteCompletes
  <2>4. RemovalIsDenied(r) => RiderView!RemovalIsDenied(r)
    BY <2>1, RiderViewValues, RiderViewParts DEF RemovalIsDenied, RiderView!RemovalIsDenied
  <2> QED
    BY <1>9, <2>3, <2>4 DEF RiderCompletion, RiderView!RiderStep, RiderView!RiderCompletion
<1>10. CASE QuitRiderApp(r) \/ LaunchRiderApp(r) \/ SendPush(r)
  <2>1. /\ QuitRiderApp(r) => RiderView!QuitRiderApp(r)
        /\ LaunchRiderApp(r) => RiderView!LaunchRiderApp(r)
    BY RiderViewParts DEF QuitRiderApp, RiderView!QuitRiderApp, LaunchRiderApp,
       RiderView!LaunchRiderApp
  <2>2. SendPush(r) => RiderView!SendPush(r)
    BY DEF SendPush, RiderView!SendPush, dbVars, RiderView!dbVars
  <2> QED
    BY <1>10, <2>1, <2>2 DEF RiderView!RiderStep
<1> QED
  BY <1>1, <1>2, <1>3, <1>4, <1>5, <1>6, <1>7, <1>8, <1>9, <1>10 DEF RiderStep

(* What a step of a driver's app does to the nodes a rider's app sees.     *)
DriverAnswers(r, d) ==
  \/ /\ setRideAccept(d, r, "accepted") /\ setRouteRequest(d, "accepted")
     /\ \E p \in Riders : setRoute(d, p)
  \/ /\ setRideAccept(d, r, "rejected") /\ markAndDeleteRouteRequest(d)
     /\ setRoute(d, NoRider)

DriverDrives(d) ==
  /\ UNCHANGED <<RouteRequests, RideAccepts, acceptEvents>>
  /\ \/ setRoute(d, NoRider) /\ UNCHANGED DriverLocations
     \/ setCurrentLocation(d) /\ UNCHANGED DriverRoutes
     \/ removeRoute(d)

LEMMA RejectionSeen ==
  ASSUME Acquainted, NEW d \in Drivers, rejectCarpoolRequest(d)
  PROVE  /\ UNCHANGED <<acceptObservers, asked>>
         /\ \/ UNCHANGED <<RouteRequests, RideAccepts, DriverRoutes, DriverLocations, acceptEvents>>
            \/ DriverDrives(d)
            \/ /\ UNCHANGED DriverLocations
               /\ \E r \in Riders : <<r, d>> \in asked /\ DriverAnswers(r, d)
<1>1. UNCHANGED <<DriverLocations, acceptObservers, asked>>
  BY DEF rejectCarpoolRequest
<1>2. /\ ~driver[d].original => UNCHANGED DriverRoutes
      /\ driver[d].original => setRoute(d, NoRider)
  BY DEF rejectCarpoolRequest, PublishedAfterReset, setRoute
<1>3. CASE driver[d].riderID = NoRider
  BY <1>1, <1>2, <1>3 DEF rejectCarpoolRequest, DriverDrives
<1>4. CASE driver[d].riderID # NoRider
  <2>1. driver[d].original
    BY <1>4 DEF Acquainted, Addressed
  <2>2. driver[d].riderID \in Riders /\ <<driver[d].riderID, d>> \in asked
    BY <1>4 DEF Acquainted, AskersInvariant, HeldRiders, AskersOf
  <2>3. setRideAccept(d, driver[d].riderID, "rejected") /\ markAndDeleteRouteRequest(d)
    BY <1>4 DEF rejectCarpoolRequest
  <2> QED
    BY <1>1, <1>2, <2>1, <2>2, <2>3 DEF DriverAnswers
<1> QED
  BY <1>3, <1>4

LEMMA DriverStepSeen ==
  ASSUME Acquainted, NEW d \in Drivers, DriverStep(d)
  PROVE  /\ UNCHANGED <<acceptObservers, asked>>
         /\ \/ UNCHANGED <<RouteRequests, RideAccepts, DriverRoutes, DriverLocations, acceptEvents>>
            \/ DriverDrives(d)
            \/ /\ UNCHANGED DriverLocations
               /\ \E r \in Riders : <<r, d>> \in asked /\ DriverAnswers(r, d)
<1>1. CASE StartCarpool(d) \/ DismissNavigation(d)
           \/ \E lastMinute \in BOOLEAN : NavigationProgress(d, lastMinute)
  BY <1>1 DEF StartCarpool, DismissNavigation, NavigationProgress, DriverDrives
<1>2. CASE DriverCrashes(d) \/ ArriveAtPickUp(d) \/ QuitDriverApp(d) \/ LaunchDriverApp(d)
  BY <1>2 DEF DriverCrashes, ArriveAtPickUp, QuitDriverApp, LaunchDriverApp, EndDriverApp, dbVars
<1>3. CASE TapReject(d) \/ TapCancelOnBadge(d)
  BY <1>3, RejectionSeen DEF TapReject, TapCancelOnBadge
<1>4. CASE /\ ~DriverCrashes(d)
           /\ \/ TapAccept(d)
              \/ \E r \in Riders, outcome \in DetailsOutcomes : DetailsFetched(d, r, outcome)
              \/ \E found \in RoutingOutcomes : TimeFetched(d, found)
              \/ \E found \in RoutingOutcomes : DistanceFetched(d, found)
              \/ \E p \in Riders : AcceptRouteFails(d, p)
  BY <1>4 DEF TapAccept, DetailsFetched, TimeFetched, DistanceFetched, AcceptRouteFails, dbVars
<1>5. CASE RequestEvent(d) /\ ~DriverCrashes(d)
  <2>1. /\ dropRequestEvent(d)
        /\ UNCHANGED DriverRoutes \/ DriverRoutes' = PublishedAfterReset(d)
    BY <1>5 DEF RequestEvent, HearRequested, HearAcceptedOrConfirmed, HearRiderCancelled,
       HearCancelled, HearNothingNew
  <2> QED
    BY <2>1 DEF dropRequestEvent, PublishedAfterReset, DriverDrives, setRoute
<1>6. ASSUME NEW p \in Riders, AcceptRouteReady(d, p)
      PROVE  /\ UNCHANGED <<acceptObservers, asked, DriverLocations>>
             /\ \E r \in Riders : <<r, d>> \in asked /\ DriverAnswers(r, d)
  <2>1. driver[d].riderID # NoRider
    BY <1>6 DEF AcceptRouteReady, Acquainted, Addressed
  <2>2. driver[d].riderID \in Riders /\ <<driver[d].riderID, d>> \in asked
    BY <2>1 DEF Acquainted, AskersInvariant, HeldRiders, AskersOf
  <2>3. DriverAnswers(driver[d].riderID, d) /\ UNCHANGED <<acceptObservers, asked, DriverLocations>>
    BY <1>6 DEF AcceptRouteReady, DriverAnswers
  <2> QED
    BY <2>2, <2>3
<1> QED
  BY <1>1, <1>2, <1>3, <1>4, <1>5, <1>6 DEF DriverStep, DriverCallbacks

LEMMA RiderViewDriverStep ==
  ASSUME Acquainted, NEW d \in Drivers, DriverStep(d), UNCHANGED <<rider, pushes>>
  PROVE  RiderView!RiderNext \/ UNCHANGED RiderView!riderVars
<1>1. UNCHANGED <<rider, pushes, acceptObservers, asked>>
  BY DriverStepSeen
<1>2. RiderView!DriverMayWrite(d)
  BY <1>1, RiderViewValues DEF RiderView!DriverMayWrite, RiderView!HasRoom,
     RiderView!WritesAreFew
<1>3. CASE UNCHANGED <<RouteRequests, RideAccepts, DriverRoutes, DriverLocations, acceptEvents>>
  BY <1>1, <1>3 DEF RiderView!riderVars, RiderView!dbVars
<1>4. CASE DriverDrives(d)
  <2>1. RiderView!AnyDriverDrives(d)
    BY <1>2, <1>4, RiderViewAnswers DEF DriverDrives, RiderView!AnyDriverDrives
  <2> QED
    BY <2>1 DEF RiderView!DriverSide, RiderView!RiderNext
<1>5. ASSUME UNCHANGED DriverLocations, NEW r \in Riders, <<r, d>> \in asked, DriverAnswers(r, d)
      PROVE  RiderView!RiderNext
  <2>1. RiderView!AnyDriverAccepts(r, d) \/ RiderView!AnyDriverRejects(r, d)
    BY <1>2, <1>5, RiderViewAnswers, RiderViewRequests
       DEF DriverAnswers, RiderView!AnyDriverAccepts, RiderView!AnyDriverRejects
  <2> QED
    BY <2>1 DEF RiderView!DriverSide, RiderView!RiderNext
<1> QED
  BY <1>3, <1>4, <1>5, DriverStepSeen

(* Whatever drivers' apps do, a rider's app meets nothing in the whole     *)
(* protocol that it was not checked and proved against: in particular, no  *)
(* driver answers a rider that has not asked it, nor without its route     *)
(* set.                                                                    *)
THEOREM RidersMeetTheirDriversAlways == CarpoolSpec => RidersMeetTheirDrivers
<1>1. CarpoolInit => RiderView!RiderInit
  BY RiderViewValues DEF CarpoolInit, DriverInit, RiderView!RiderInit, DatabaseInit,
     RiderView!DatabaseInit
<1>2. Acquainted /\ [CarpoolNext]_carpoolVars => [RiderView!RiderNext]_(RiderView!riderVars)
  <2> SUFFICES ASSUME Acquainted, [CarpoolNext]_carpoolVars
               PROVE  RiderView!RiderNext \/ UNCHANGED RiderView!riderVars
    OBVIOUS
  <2>1. CASE \E d \in Drivers : DriverStep(d) /\ UNCHANGED <<rider, pushes>>
    BY <2>1, RiderViewDriverStep
  <2>2. CASE \E r \in Riders : RiderStep(r) /\ UNCHANGED driver
    BY <2>2, RiderViewStep DEF Acquainted, RiderView!RiderNext
  <2>3. CASE UNCHANGED carpoolVars
    BY <2>3 DEF carpoolVars, dbVars, RiderView!riderVars, RiderView!dbVars
  <2> QED
    BY <2>1, <2>2, <2>3 DEF CarpoolNext
<1> QED
  BY <1>1, <1>2, AcquaintedInit, AcquaintedNext, PTL
     DEF CarpoolSpec, RidersMeetTheirDrivers, RiderView!RiderSpec

(* In the whole protocol, too, acceptCarpoolRequest, rejectCarpoolRequest  *)
(* and the detours serve nobody who did not ask that driver.               *)
THEOREM AskersAreServedInCarpool == CarpoolSpec => []OnlyAskersAreServed
BY AcquaintedInit, AcquaintedNext, AskersAreServedMeans, PTL DEF CarpoolSpec, Acquainted
==============================================================================
