--------------------------- MODULE DatabaseClient ---------------------------
(***************************************************************************)
(* The client of the realtime database inside one app (FirebaseDatabase    *)
(* in Pods), for one node with a child at each of Keys: the pending writes *)
(* (FWriteTree), the view the observers hear (FSyncTree, FViewProcessor),  *)
(* and the connection with its outstanding requests                        *)
(* (FPersistentConnection).                                                *)
(* The other modules use the database through what this one promises.      *)
(*                                                                         *)
(* The repo's serial queue makes each action below atomic.  The server is  *)
(* modelled from how the client uses it: it answers writes in order and    *)
(* tells an active listener of each change before it answers the write;    *)
(* a listen may be answered later than writes sent after it.  Persistence  *)
(* is off and there are no transactions, as in this app.                   *)
(***************************************************************************)
EXTENDS DatabaseValues

CONSTANTS
  MaxFaults        \* bound: lost connections, failed tokens, ended processes

ASSUME FaultBoundAssumption == MaxFaults \in Nat

VARIABLES
  server,           \* log of the node's states, active listener, listens to answer
  toServer,         \* requests on the connection
  toClient,         \* answers and pushes on the connection
  connection,       \* FPersistentConnection's state, timer, token and unackedListensCount
  outstandingPuts,  \* writes without an answer, by index
  putsToAck,        \* answers held while a listen is unanswered
  allWrites,        \* FWriteTree: the writes not yet acknowledged
  visibleWrites,    \* FWriteTree: those writes, layered
  observed,         \* the app has registered an observer
  view,             \* FViewCache: what the server said and what observers hear
  made              \* writes, foreign states and faults so far

wire == <<toServer, toClient>>
puts == <<outstandingPuts, putsToAck>>
tree == <<allWrites, visibleWrites>>
vars == <<server, wire, connection, puts, tree, observed, view, made>>

-----------------------------------------------------------------------------
(* FCompoundWrite: the visible writes as one tree, with a value at the     *)
(* root or at some children.                                               *)

EmptyWrite == [root |-> FALSE, at |-> [k \in {} |-> Absent]]

addWrite(visible, w) ==
  [root |-> visible.root \/ w.kind = "set", at |-> Over(w.value, visible.at)]

(* A write at the root is not touched when a child is removed.             *)
removeWriteAtPath(visible, w) ==
  IF w.kind = "set" THEN EmptyWrite
  ELSE IF visible.root THEN visible
  ELSE [visible EXCEPT !.at = [k \in DOMAIN @ \ DOMAIN w.value |-> @[k]]]

applyToNode(visible, node) == Over(visible.at, node)

layerTreeFromWrites(writes) == FoldLeft(addWrite, EmptyWrite, writes)

(* FWriteTree.removeWriteId: the visible writes when the i-th is removed.  *)
ShadowedByLater(writes, i) ==
  \E j \in (i + 1)..Len(writes) :
    \/ writes[j].kind = "set"
    \/ writes[i].kind = "child" /\ DOMAIN writes[i].value \subseteq DOMAIN writes[j].value

Overlaps(writes, i) ==
  \E j \in (1..Len(writes)) \ {i} :
    \/ writes[i].kind # "child"
    \/ writes[j].kind = "child" /\ DOMAIN writes[i].value = DOMAIN writes[j].value

VisibleWithoutLayering(writes, visible, i) ==
  IF ShadowedByLater(writes, i) THEN visible ELSE removeWriteAtPath(visible, writes[i])

VisibleWithout(writes, visible, i) ==
  IF ShadowedByLater(writes, i) THEN visible
  ELSE IF Overlaps(writes, i) THEN layerTreeFromWrites(RemoveAt(writes, i))
  ELSE removeWriteAtPath(visible, writes[i])

-----------------------------------------------------------------------------
(* FViewProcessor.  A view is what the server said and what the observers  *)
(* are told; `at' is the number of the server's state, for the properties. *)

FreshView(visible) ==
  [server |-> [node |-> EmptyNode, complete |-> FALSE, at |-> 0],
   event  |-> [node |-> applyToNode(visible, EmptyNode), complete |-> visible.root]]

(* The event cache after the server's values at some keys have changed: a  *)
(* pending write shadows them.                                             *)
EventAfterServer(v, visible, keys, atRoot) ==
  IF atRoot /\ visible.root THEN v
  ELSE IF atRoot
  THEN [v EXCEPT !.event = [node |-> applyToNode(visible, v.server.node), complete |-> TRUE]]
  ELSE [v EXCEPT !.event.node =
          [k \in Keys |-> IF k \in keys \ DOMAIN visible.at THEN v.server.node[k] ELSE @[k]]]

(* An update of children is ignored while there is nothing to update; one  *)
(* of a single child is not.                                               *)
applyServerUpdate(v, visible, data) ==
  IF data.kind = "merge" /\ ~v.server.complete /\ v.server.node = EmptyNode THEN v
  ELSE EventAfterServer(
         [v EXCEPT !.server = [node |-> Over(data.value, @.node),
                               complete |-> @.complete \/ data.kind = "set",
                               at |-> data.at]],
         visible, DOMAIN data.value, data.kind = "set")

applyUserWrite(v, w) ==
  [v EXCEPT !.event = [node |-> ApplyWrite(@.node, w),
                       complete |-> @.complete \/ w.kind = "set"]]

(* The server's values are applied again where the write shadowed them.    *)
ackUserWriteOn(v, visible, w) ==
  LET known == {k \in DOMAIN w.value : v.server.complete \/ v.server.node[k] # Absent}
  IN EventAfterServer(v, visible, known, w.kind = "set" /\ v.server.complete)

RevertToServer(v, visible, w) ==
  IF visible.root THEN v
  ELSE [v EXCEPT !.event =
          [node |-> [k \in Keys |-> IF k \in DOMAIN w.value THEN v.server.node[k] ELSE @.node[k]],
           complete |-> v.server.complete]]

revertUserWriteOn(v, visible, w) ==
  LET keys == IF w.kind = "child" THEN DOMAIN w.value ELSE Keys
      shadowed == visible.root \/ (w.kind = "child" /\ keys \subseteq DOMAIN visible.at)
  IN IF shadowed THEN v
     ELSE [v EXCEPT !.event =
             [node |-> [k \in Keys |-> IF k \in keys THEN applyToNode(visible, v.server.node)[k]
                                       ELSE @.node[k]],
              complete |-> v.server.complete]]

listenComplete(v, visible, at) ==
  EventAfterServer([v EXCEPT !.server = [node |-> @.node, complete |-> TRUE, at |-> at]],
                   visible, Keys, TRUE)

(* Without a registration there is no view to update.                      *)
Updated(old, new) == IF observed THEN new ELSE old

-----------------------------------------------------------------------------
(* FPersistentConnection. *)

Connected     == connection.state \in {"Authenticating", "Connected"}
CanSendWrites == connection.state = "Connected"
Idle          == [state |-> "Disconnected", retrying |-> TRUE, token |-> FALSE,
                  killed |-> FALSE, unacked |-> 0]

PutRequest(w)   == [type |-> "put", write |-> w]
ListenRequest   == [type |-> "listen", has |-> view.server.node]

Init ==
  /\ server = [log |-> <<[node |-> EmptyNode, by |-> 0]>>, listening |-> FALSE, due |-> <<>>]
  /\ toServer = <<>> /\ toClient = <<>>
  /\ connection = Idle
  /\ outstandingPuts = <<>> /\ putsToAck = <<>>
  /\ allWrites = <<>> /\ visibleWrites = EmptyWrite
  /\ observed = FALSE
  /\ view = FreshView(EmptyWrite)
  /\ made = [writes |-> 0, foreign |-> 0, faults |-> 0]

HangupKeepingCount(killed) ==
  /\ connection' = [connection EXCEPT !.state = "Disconnected", !.retrying = ~killed,
                                      !.killed = killed]
  /\ toServer' = <<>> /\ toClient' = <<>>
  /\ server' = [server EXCEPT !.listening = FALSE, !.due = <<>>]

(* The connection ends: what is on the wire is lost, the answers held back *)
(* are not.                                                                *)
Hangup(killed) ==
  /\ connection' = [connection EXCEPT !.state = "Disconnected", !.retrying = ~killed,
                                      !.killed = killed, !.unacked = 0]
  /\ toServer' = <<>> /\ toClient' = <<>>
  /\ server' = [server EXCEPT !.listening = FALSE, !.due = <<>>]

Fault ==
  /\ made.faults < MaxFaults
  /\ made' = [made EXCEPT !.faults = @ + 1]

(* tryScheduleReconnect's timer, and its two callbacks.                    *)
RetryFires ==
  /\ connection.state = "Disconnected" /\ connection.retrying
  /\ connection' = [connection EXCEPT !.state = "GettingToken", !.retrying = FALSE]
  /\ UNCHANGED <<server, wire, puts, tree, observed, view, made>>

TokenFetched ==
  /\ connection.state = "GettingToken"
  /\ \E token \in BOOLEAN :
       connection' = [connection EXCEPT !.state = "Connecting", !.token = token]
  /\ UNCHANGED <<server, wire, puts, tree, observed, view, made>>

TokenFails ==
  /\ connection.state = "GettingToken"
  /\ connection' = [connection EXCEPT !.state = "Disconnected", !.retrying = TRUE]
  /\ Fault
  /\ UNCHANGED <<server, wire, puts, tree, observed, view>>

RestoredWritesOnly == [i \in 1..Len(outstandingPuts) |-> PutRequest(outstandingPuts[i])]

(* restoreState: the listens, then the writes in the order they were made. *)
Restored ==
  (IF observed THEN <<ListenRequest>> ELSE <<>>)
    \o [i \in 1..Len(outstandingPuts) |-> PutRequest(outstandingPuts[i])]

restoreState ==
  /\ toServer' = toServer \o Restored
  /\ connection' = [connection EXCEPT !.state = "Connected",
                                      !.unacked = @ + (IF observed THEN 1 ELSE 0)]

(* onReady and restoreAuth. *)
Ready ==
  /\ connection.state = "Connecting"
  /\ IF connection.token
     THEN /\ toServer' = <<[type |-> "auth"]>>
          /\ connection' = [connection EXCEPT !.state = "Authenticating"]
     ELSE restoreState
  /\ UNCHANGED <<server, toClient, puts, tree, observed, view, made>>

ConnectionLost ==
  /\ connection.state \in {"Connecting", "Authenticating", "Connected"}
  /\ Fault
  /\ Hangup(FALSE)
  /\ UNCHANGED <<puts, tree, observed, view>>

(* onKill: the server asks the client not to come back.                    *)
Killed ==
  /\ Connected
  /\ Fault
  /\ Hangup(TRUE)
  /\ UNCHANGED <<puts, tree, observed, view>>

-----------------------------------------------------------------------------
(* The app's calls. *)

WriteOnceConnected ==
  /\ made.writes < MaxWrites
  /\ made' = [made EXCEPT !.writes = @ + 1]
  /\ \E w \in Writes(made.writes + 1) :
       /\ allWrites' = Append(allWrites, w)
       /\ visibleWrites' = addWrite(visibleWrites, w)
       /\ view' = Updated(view, applyUserWrite(view, w))
       /\ outstandingPuts' = Append(outstandingPuts, w)
       /\ toServer' = IF Connected THEN Append(toServer, PutRequest(w)) ELSE toServer
  /\ UNCHANGED <<server, toClient, connection, putsToAck, observed>>

(* FRepo.set and FRepo.update: the observers hear the write at once.       *)
WriteData ==
  /\ made.writes < MaxWrites
  /\ made' = [made EXCEPT !.writes = @ + 1]
  /\ \E w \in Writes(made.writes + 1) :
       /\ allWrites' = Append(allWrites, w)
       /\ visibleWrites' = addWrite(visibleWrites, w)
       /\ view' = Updated(view, applyUserWrite(view, w))
       /\ outstandingPuts' = Append(outstandingPuts, w)
       /\ toServer' = IF CanSendWrites THEN Append(toServer, PutRequest(w)) ELSE toServer
  /\ UNCHANGED <<server, toClient, connection, putsToAck, observed>>

(* The first registration makes the view and listens; a later one changes  *)
(* nothing here, and the app removes none.                                 *)
Observe ==
  /\ ~observed
  /\ observed' = TRUE
  /\ view' = FreshView(visibleWrites)
  /\ IF Connected
     THEN /\ toServer' = Append(toServer, [type |-> "listen", has |-> EmptyNode])
          /\ connection' = [connection EXCEPT !.unacked = @ + 1]
     ELSE UNCHANGED <<toServer, connection>>
  /\ UNCHANGED <<server, toClient, puts, tree, made>>

-----------------------------------------------------------------------------
(* Answers and pushes. *)

(* ackWrite for one answer: the write leaves the tree, the view follows.   *)
Acked(state, answer) ==
  LET i       == SelectInSeq(state.writes, LAMBDA w : w.id = answer.id)
      w       == state.writes[i]
      visible == VisibleWithout(state.writes, state.visible, i)
      v       == IF ShadowedByLater(state.writes, i) THEN state.view
                 ELSE IF answer.ok THEN ackUserWriteOn(state.view, visible, w)
                 ELSE revertUserWriteOn(state.view, visible, w)
  IN [writes |-> RemoveAt(state.writes, i), visible |-> visible,
      view |-> Updated(state.view, v)]

(* The answers are acknowledged in the order they came in.                 *)
Acknowledge(answers, v) ==
  LET after == FoldLeft(Acked, [writes |-> allWrites, visible |-> visibleWrites, view |-> v],
                        answers)
  IN /\ allWrites' = after.writes
     /\ visibleWrites' = after.visible
     /\ view' = after.view

(* The answer to auth: a refused token is fetched again.                   *)
AuthAnswered ==
  /\ toClient # <<>> /\ Head(toClient).type = "auth"
  /\ IF Head(toClient).ok
     THEN restoreState /\ toClient' = Tail(toClient) /\ UNCHANGED server
     ELSE Hangup(FALSE)
  /\ UNCHANGED <<puts, tree, observed, view, made>>

PutAcknowledgedAtOnce ==
  /\ toClient # <<>> /\ Head(toClient).type = "put"
  /\ LET answer == [id |-> Head(toClient).id, ok |-> Head(toClient).ok] IN
     /\ outstandingPuts' = RemoveFirstMatch(outstandingPuts, LAMBDA w : w.id = answer.id)
     /\ Acknowledge(<<answer>>, view)
  /\ toClient' = Tail(toClient)
  /\ UNCHANGED <<server, toServer, connection, putsToAck, observed, made>>

PutKeptWhileHeld ==
  /\ toClient # <<>> /\ Head(toClient).type = "put"
  /\ LET answer == [id |-> Head(toClient).id, ok |-> Head(toClient).ok] IN
     IF connection.unacked = 0
     THEN /\ outstandingPuts' = RemoveFirstMatch(outstandingPuts, LAMBDA w : w.id = answer.id)
          /\ Acknowledge(<<answer>>, view) /\ UNCHANGED putsToAck
     ELSE putsToAck' = Append(putsToAck, answer) /\ UNCHANGED <<outstandingPuts, tree, view>>
  /\ toClient' = Tail(toClient)
  /\ UNCHANGED <<server, toServer, connection, observed, made>>

(* The answer to a write waits for the listens that have none yet: only    *)
(* then does the server cache hold what the write did.                     *)
PutAnswered ==
  /\ toClient # <<>> /\ Head(toClient).type = "put"
  /\ LET answer == [id |-> Head(toClient).id, ok |-> Head(toClient).ok] IN
     /\ outstandingPuts' = RemoveFirstMatch(outstandingPuts, LAMBDA w : w.id = answer.id)
     /\ IF connection.unacked = 0
        THEN Acknowledge(<<answer>>, view) /\ UNCHANGED putsToAck
        ELSE putsToAck' = Append(putsToAck, answer) /\ UNCHANGED <<tree, view>>
  /\ toClient' = Tail(toClient)
  /\ UNCHANGED <<server, toServer, connection, observed, made>>

ListenAnsweredOnly ==
  /\ toClient # <<>> /\ Head(toClient).type = "listen"
  /\ view' = listenComplete(view, visibleWrites, Head(toClient).at)
  /\ connection' = [connection EXCEPT !.unacked = @ - 1]
  /\ toClient' = Tail(toClient)
  /\ UNCHANGED <<server, toServer, puts, tree, observed, made>>

(* The answer to a listen; the last one lets the held answers pass.        *)
ListenAnswered ==
  /\ toClient # <<>> /\ Head(toClient).type = "listen"
  /\ LET v == listenComplete(view, visibleWrites, Head(toClient).at) IN
     IF connection.unacked = 1
     THEN Acknowledge(putsToAck, v) /\ putsToAck' = <<>>
     ELSE view' = v /\ UNCHANGED <<putsToAck, tree>>
  /\ connection' = [connection EXCEPT !.unacked = @ - 1]
  /\ toClient' = Tail(toClient)
  /\ UNCHANGED <<server, toServer, outstandingPuts, observed, made>>

(* onDataUpdate. *)
DataPushed ==
  /\ toClient # <<>> /\ Head(toClient).type = "data"
  /\ view' = Updated(view, applyServerUpdate(view, visibleWrites, Head(toClient)))
  /\ toClient' = Tail(toClient)
  /\ UNCHANGED <<server, toServer, connection, puts, tree, observed, made>>

(* The process ends with all the client knows, and starts again.           *)
EndProcess ==
  /\ Fault
  /\ connection' = Idle
  /\ toServer' = <<>> /\ toClient' = <<>>
  /\ server' = [server EXCEPT !.listening = FALSE, !.due = <<>>]
  /\ outstandingPuts' = <<>> /\ putsToAck' = <<>>
  /\ allWrites' = <<>> /\ visibleWrites' = EmptyWrite
  /\ observed' = FALSE
  /\ view' = FreshView(EmptyWrite)

-----------------------------------------------------------------------------
(* The server. *)

Stored == Last(server.log).node

(* A new state of the node, told to an active listener.                    *)
Commit(kind, value, by) ==
  LET log == Append(server.log, [node |-> Over(value, Stored), by |-> by]) IN
  [log  |-> log,
   push |-> IF server.listening
            THEN <<[type |-> "data", kind |-> kind, value |-> value, at |-> Len(log)]>>
            ELSE <<>>]

ServerTakes(type) == toServer # <<>> /\ Head(toServer).type = type /\ toServer' = Tail(toServer)

HandleAuth ==
  /\ ServerTakes("auth")
  /\ \/ toClient' = Append(toClient, [type |-> "auth", ok |-> TRUE]) /\ UNCHANGED made
     \/ toClient' = Append(toClient, [type |-> "auth", ok |-> FALSE]) /\ Fault
  /\ UNCHANGED <<server, connection, puts, tree, observed, view>>

HandlePut ==
  /\ ServerTakes("put")
  /\ LET w == Head(toServer).write
         c == Commit(w.kind, w.value, w.id)
         answer(ok) == [type |-> "put", id |-> w.id, ok |-> ok]
     IN \/ /\ server' = [server EXCEPT !.log = c.log]
           /\ toClient' = toClient \o c.push \o <<answer(TRUE)>>
        \/ /\ toClient' = Append(toClient, answer(FALSE))
           /\ UNCHANGED server
  /\ UNCHANGED <<connection, puts, tree, observed, view, made>>

HandleListen ==
  /\ ServerTakes("listen")
  /\ server' = [server EXCEPT !.due = Append(@, Head(toServer))]
  /\ UNCHANGED <<toClient, connection, puts, tree, observed, view, made>>

(* The answer comes when the data is there, behind it if the client's hash *)
(* is not that of the node.                                                *)
AnswerListen ==
  /\ server.due # <<>>
  /\ LET listen == Head(server.due)
         data   == IF Stored = listen.has THEN <<>>
                   ELSE <<[type |-> "data", kind |-> "set", value |-> Stored, at |-> Len(server.log)]>>
     IN toClient' = toClient \o data
                      \o <<[type |-> "listen", at |-> Len(server.log)]>>
  /\ server' = [server EXCEPT !.due = Tail(@), !.listening = TRUE]
  /\ UNCHANGED <<toServer, connection, puts, tree, observed, view, made>>

(* Another client writes the node or a child.                              *)
ForeignWrite ==
  /\ made.foreign < MaxForeign
  /\ made' = [made EXCEPT !.foreign = @ + 1]
  /\ \E shape \in WriteShapes :
       LET c == Commit(shape.kind, [k \in shape.keys |-> 0 - made'.foreign], 0) IN
       /\ server' = [server EXCEPT !.log = c.log]
       /\ toClient' = toClient \o c.push
  /\ UNCHANGED <<toServer, connection, puts, tree, observed, view>>

-----------------------------------------------------------------------------
Calls == WriteData \/ Observe
Faults == TokenFails \/ ConnectionLost \/ Killed \/ EndProcess

ClientStep ==
  \/ RetryFires \/ TokenFetched \/ Ready
  \/ AuthAnswered \/ PutAnswered \/ ListenAnswered \/ DataPushed

ServerStep == HandleAuth \/ HandlePut \/ HandleListen \/ AnswerListen

Next == Calls \/ Faults \/ ClientStep \/ ServerStep \/ ForeignWrite

Spec == Init /\ [][Next]_vars

(* The timer fires, the token's and the connection's callbacks come, the   *)
(* queues are worked off, which every answer and every request can be, and *)
(* the server answers listens.  Nothing is owed by the app or by other     *)
(* clients, and faults need not happen.                                    *)
TakesAnswer  == toClient # <<>> /\ toClient' = Tail(toClient)
TakesRequest == toServer # <<>> /\ toServer' = Tail(toServer)

Fairness ==
  /\ WF_vars(RetryFires) /\ WF_vars(TokenFetched) /\ WF_vars(Ready)
  /\ WF_toClient(TakesAnswer) /\ WF_toServer(TakesRequest)
  /\ WF_vars(AnswerListen)

FairSpec == Spec /\ Fairness

-----------------------------------------------------------------------------
(* Properties. *)

Ids(seq) == [i \in 1..Len(seq) |-> seq[i].id]

(* The data of the client are those of its classes, and the count of       *)
(* unanswered listens (FPersistentConnection) never leaves its range: a    *)
(* listen is answered once.                                                *)
Write == UNION {Writes(id) : id \in 1..MaxWrites}

DatabaseTypeOK ==
  /\ connection \in [state : {"Disconnected", "GettingToken", "Connecting",
                               "Authenticating", "Connected"},
                      retrying : BOOLEAN, token : BOOLEAN, killed : BOOLEAN, unacked : 0..2]
  /\ Range(allWrites) \union Range(outstandingPuts) \subseteq Write
  /\ visibleWrites.root \in BOOLEAN /\ DOMAIN visibleWrites.at \subseteq Keys
  /\ view.server.node \in Node /\ view.event.node \in Node
  /\ view.server.at \in 0..Len(server.log)

(* The writes the observers see are the pending ones, one above the other: *)
(* taking one out of the tree (FWriteTree.removeWriteId) leaves what       *)
(* layering the rest from nothing gives.                                   *)
VisibleWritesAreLayered == visibleWrites = layerTreeFromWrites(allWrites)

(* A pending write is answered or will be sent, in the order it was made:  *)
(* none is lost with a connection, kept after its answer or acknowledged   *)
(* before an earlier one.                                                  *)
EveryPendingWriteIsOnItsWay == Ids(allWrites) = Ids(putsToAck) \o Ids(outstandingPuts)

(* Once connected, each write without an answer is on the wire exactly     *)
(* once, in order; before that, none is: a reconnection neither forgets    *)
(* nor repeats what restoreState sends (FPersistentConnection).            *)
OfType(type, seq) ==
  FoldLeft(LAMBDA kept, message : IF message.type = type THEN Append(kept, message) ELSE kept,
           <<>>, seq)

WireCarriesOutstandingPuts ==
  LET answers == OfType("put", toClient)
      waiting == OfType("put", toServer)
  IN Ids(answers) \o [i \in 1..Len(waiting) |-> waiting[i].write.id]
       = IF CanSendWrites THEN Ids(outstandingPuts) ELSE <<>>

(* The view is updated piece by piece; it is what computing it from the    *)
(* server's state and the pending writes would give (FViewProcessor).      *)
ViewIsServerUnderWrites ==
  /\ view.server.complete => view.server.node = server.log[view.server.at].node
  /\ observed /\ view.event.complete
       => view.event.node = applyToNode(visibleWrites, view.server.node)

(* What the app relies on: its observers hear the states of the server in  *)
(* order, always under the app's own pending writes, and a write that was  *)
(* committed stops being pending only when they have heard of it.          *)
App == INSTANCE ConsistentView WITH
  log     <- server.log,
  pending <- allWrites,
  seen    <- IF view.server.complete THEN view.server.at ELSE 0,
  shown   <- IF observed /\ view.event.complete THEN view.event.node ELSE Nothing

ViewIsConsistent == App!Spec

(* A write completes, unless the server turned the client away or the      *)
(* process ended with it: retries and held answers lose no callback.       *)
WritesComplete ==
  \A id \in 1..MaxWrites :
    id \in Range(Ids(allWrites)) ~> id \notin Range(Ids(allWrites)) \/ connection.killed

(* And the observers end with what the server holds.                       *)
ObserversCatchUp ==
  <>[](observed /\ ~connection.killed => view.event.complete /\ view.event.node = Stored)
=============================================================================
