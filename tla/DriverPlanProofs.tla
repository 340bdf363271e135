-------------------------- MODULE DriverPlanProofs --------------------------
(***************************************************************************)
(* Theorems about DriverPlan, for every set of users and dates and all     *)
(* bounds: types, the progress indicator as the lock of the screen, and    *)
(* what the lock buys: the published route of a navigation and the plan    *)
(* behind "Start now".                                                     *)
(***************************************************************************)
EXTENDS DriverPlan, SequenceTheorems, TLAPS

(***************************************************************************)
(* IndicatorCoversCalls is not inductive: a completion takes the indicator *)
(* down, so nothing else may be awaited beside it.  That at most one of a  *)
(* write, a route and a completion is awaited holds because each of them   *)
(* begins with a tap, and taps need the indicator down.                    *)
(***************************************************************************)
OnlySnapshots == \A i \in 1..Len(queue) : queue[i].type = "plan"

OneCallAtATime ==
  /\ write # NoWrite => OnlySnapshots /\ ~screen.routing
  /\ screen.routing => OnlySnapshots
  /\ \A i, j \in 1..Len(queue) : queue[i].type # "plan" /\ queue[j].type # "plan" => i = j

(* A plan that is being saved is on the screen.                            *)
Saving == write.kind = "save" \/ \E i \in 1..Len(queue) : queue[i].type = "save"

CallsAreCovered == IndicatorCoversCalls /\ OneCallAtATime

PlanIsOnTheScreen == StartNowHasPlan /\ (Saving => screen.date # NoDate)

(* A navigation is under way for somebody, and nothing is awaited under it.*)
NavigationIsAlone ==
  NavigatedRouteIsPublished /\ (screen.navigating => ~screen.hud /\ signedIn # NoUser)

PlanInvariant == PlanTypeOK /\ CallsAreCovered /\ PlanIsOnTheScreen /\ NavigationIsAlone

(* What may have come into the queue, and what is still there.             *)
Extends(new, old) ==
  /\ new \in Seq(Messages)
  /\ \A i \in 1..Len(old) : i \in 1..Len(new) /\ new[i] = old[i]
  /\ \A i \in 1..Len(new) : i \in 1..Len(old) \/ new[i].type = "plan"

\* Snapshots are messages of a plan.
LEMMA SnapshotsArePlans ==
  ASSUME NEW n \in Nat, NEW date \in OptionalDate
  PROVE  /\ Snapshots(n, date) \in Seq(Messages)
         /\ \A i \in 1..Len(Snapshots(n, date)) : Snapshots(n, date)[i].type = "plan"
<1>1. CASE date = NoDate
  BY <1>1 DEF Snapshots
<1>2. CASE date # NoDate
  <2>1. date \in Dates
    BY <1>2 DEF OptionalDate
  <2>2. [type |-> "plan", date |-> date] \in Messages
    BY <2>1 DEF Messages
  <2>3. Snapshots(n, date) = [i \in 1..n |-> [type |-> "plan", date |-> date]]
    BY <1>2 DEF Snapshots
  <2>4. Snapshots(n, date) \in Seq(Messages) /\ Len(Snapshots(n, date)) = n
    BY <2>2, <2>3
  <2>5. QED
    BY <2>3, <2>4
<1>3. QED
  BY <1>1, <1>2

\* Snapshots behind a queue extend it.
LEMMA QueueWithSnapshots ==
  ASSUME NEW q \in Seq(Messages), NEW n \in Nat, NEW date \in OptionalDate
  PROVE  Extends(q \o Snapshots(n, date), q)
<1> DEFINE s == Snapshots(n, date)
<1>1. s \in Seq(Messages) /\ \A i \in 1..Len(s) : s[i].type = "plan"
  BY SnapshotsArePlans
<1> HIDE DEF s
<1>2. /\ q \o s \in Seq(Messages)
      /\ Len(q \o s) = Len(q) + Len(s)
      /\ \A i \in 1..Len(q) : (q \o s)[i] = q[i]
      /\ \A i \in (Len(q) + 1)..(Len(q) + Len(s)) : (q \o s)[i] = s[i - Len(q)]
  BY <1>1
<1>3. \A i \in 1..Len(q) : i \in 1..Len(q \o s)
  BY <1>1, <1>2
<1>4. ASSUME NEW i \in 1..Len(q \o s), i \notin 1..Len(q)
      PROVE  (q \o s)[i].type = "plan"
  <2>1. i \in (Len(q) + 1)..(Len(q) + Len(s)) /\ i - Len(q) \in 1..Len(s)
    BY <1>1, <1>2, <1>4
  <2>2. QED
    BY <1>1, <1>2, <2>1
<1>5. Extends(q \o s, q)
  BY <1>2, <1>3, <1>4 DEF Extends
<1>6. QED
  BY <1>5 DEF s

\* A queue extends itself.
LEMMA SameQueue == ASSUME NEW q \in Seq(Messages) PROVE Extends(q, q)
  BY DEF Extends

\* The queue without its head has the messages behind it.
LEMMA QueueTail ==
  ASSUME NEW q \in Seq(Messages), q # <<>>
  PROVE  /\ Head(q) \in Messages /\ Head(q) = q[1] /\ 1 \in 1..Len(q)
         /\ Tail(q) \in Seq(Messages)
         /\ \A i \in 1..Len(Tail(q)) : i + 1 \in 1..Len(q) /\ Tail(q)[i] = q[i + 1]
         /\ \A i \in 1..Len(q) : i # 1 => i - 1 \in 1..Len(Tail(q)) /\ Tail(q)[i - 1] = q[i]
<1>1. Len(q) \in Nat /\ Len(q) >= 1 /\ Len(Tail(q)) = Len(q) - 1
  OBVIOUS
<1>2. QED
  BY <1>1

\* A fresh screen has its type, and there is nothing left of the process.
LEMMA RestartTypes ==
  ASSUME PlanTypeOK, Restart
  PROVE  /\ screen' \in Screen
         /\ observers' \in [Users -> Nat] /\ known' \in [Users -> BOOLEAN]
         /\ write' = NoWrite /\ queue' \in Seq(Messages)
<1>1. FreshScreen \in Screen
  BY DEF FreshScreen, Screen, OptionalDate
<1>2. 0 \in Nat
  BY DriverPlanAssumption
<1>3. <<>> \in Seq(Messages)
  OBVIOUS
<1>4. QED
  BY <1>1, <1>2, <1>3 DEF Restart

\* Initially every variable has its type.
LEMMA InitialTypes == PlanInit => PlanTypeOK
<1>1. FreshScreen \in Screen
  BY DEF FreshScreen, Screen, OptionalDate
<1>2. 0 \in Nat
  BY DriverPlanAssumption
<1>3. QED
  BY <1>1, <1>2 DEF PlanInit, PlanTypeOK, OptionalDate

\* What a shown plan is: a date, or none.
LEMMA LocalType ==
  ASSUME PlanTypeOK, NEW u \in Users
  PROVE  Local(u) \in OptionalDate /\ observers[u] \in Nat /\ plans[u] \in OptionalDate
<1>1. NoWrite.date \in OptionalDate
  BY DEF NoWrite, OptionalDate
<1>2. write.date \in OptionalDate
  BY <1>1 DEF PlanTypeOK
<1>3. observers[u] \in Nat /\ plans[u] \in OptionalDate
  BY DEF PlanTypeOK
<1>4. QED
  BY <1>2, <1>3, DriverPlanAssumption DEF Local

\* A write that is sent: its type, and the queue it leaves.
LEMMA SentWrite ==
  ASSUME PlanTypeOK, signedIn \in Users, NEW kind \in {"save", "remove"},
         NEW date \in OptionalDate, SendWrite(kind, date)
  PROVE  /\ write' \in [kind : {"save", "remove"}, user : Users, date : OptionalDate,
                         state : {"sent", "granted", "denied"}]
         /\ write'.kind = kind
         /\ Extends(queue', queue)
<1>1. queue \in Seq(Messages) /\ observers[signedIn] \in Nat
  BY LocalType DEF PlanTypeOK
<1>2. Extends(queue', queue)
  BY <1>1, QueueWithSnapshots, SameQueue DEF SendWrite
<1>3. QED
  BY <1>2 DEF SendWrite

\* What an answer puts into the queue: snapshots, and behind them the completion.
LEMMA AnswerInQueue ==
  ASSUME PlanTypeOK, WriteAnswered
  PROVE  /\ write.kind \in {"save", "remove"}
         /\ [type |-> write.kind, ok |-> write.state = "granted"] \in Messages
         /\ \E back \in Seq(Messages) :
              /\ \A i \in 1..Len(back) : back[i].type = "plan"
              /\ queue' = Append(queue \o back,
                                 [type |-> write.kind, ok |-> write.state = "granted"])
<1>1. write.user \in Users /\ write.kind \in {"save", "remove"}
  BY DEF WriteAnswered, PlanTypeOK, NoWrite
<1> DEFINE back == IF plans[write.user] = write.date THEN <<>>
                   ELSE Snapshots(observers[write.user], plans[write.user])
<1>2. back \in Seq(Messages) /\ \A i \in 1..Len(back) : back[i].type = "plan"
  <2>1. CASE plans[write.user] = write.date
    BY <2>1
  <2>2. CASE plans[write.user] # write.date
    BY <1>1, <2>2, LocalType, SnapshotsArePlans
  <2>3. QED
    BY <2>1, <2>2
<1>3. queue' = Append(queue \o back, [type |-> write.kind, ok |-> write.state = "granted"])
  BY DEF WriteAnswered
<1>4. [type |-> write.kind, ok |-> write.state = "granted"] \in Messages
  BY <1>1 DEF Messages
<1>5. QED
  BY <1>1, <1>2, <1>3, <1>4

\* The last of such a queue is the completion, the rest was there or are snapshots.
LEMMA AppendedMessage ==
  ASSUME NEW q \in Seq(Messages), NEW back \in Seq(Messages), NEW m \in Messages,
         NEW r, r = Append(q \o back, m), \A i \in 1..Len(back) : back[i].type = "plan"
  PROVE  /\ Len(r) \in 1..Len(r) /\ r[Len(r)] = m
         /\ \A i \in 1..Len(q) : i \in 1..Len(r) /\ i # Len(r) /\ r[i] = q[i]
         /\ \A i \in 1..Len(r) : i # Len(r) => i \in 1..Len(q) \/ r[i].type = "plan"
<1> DEFINE s == q \o back
<1>1. /\ s \in Seq(Messages) /\ Len(s) = Len(q) + Len(back)
      /\ \A i \in 1..Len(q) : s[i] = q[i]
      /\ \A i \in (Len(q) + 1)..(Len(q) + Len(back)) : s[i] = back[i - Len(q)]
  OBVIOUS
<1>2. \A i \in 1..Len(s) : i \in 1..Len(q) \/ s[i].type = "plan"
  <2>1. SUFFICES ASSUME NEW i \in 1..Len(s), i \notin 1..Len(q) PROVE s[i].type = "plan"
    OBVIOUS
  <2>2. i \in (Len(q) + 1)..(Len(q) + Len(back)) /\ i - Len(q) \in 1..Len(back)
    BY <1>1, <2>1
  <2>3. QED
    BY <1>1, <2>2
<1> HIDE DEF s
<1>3. s \in Seq(Messages) /\ r = Append(s, m)
  BY <1>1 DEF s
<1>4. Len(s) \in Nat /\ Len(q) \in Nat /\ Len(back) \in Nat
  BY <1>1
<1>5. \A i \in 1..Len(q) : i \in 1..Len(s)
  BY <1>1, <1>4
<1>6. /\ Len(r) = Len(s) + 1 /\ r[Len(s) + 1] = m
      /\ \A i \in 1..Len(s) : r[i] = s[i]
  BY <1>3, AppendProperties
<1>7. Len(r) \in 1..Len(r) /\ r[Len(r)] = m
  BY <1>4, <1>6
<1>8. \A i \in 1..Len(q) : i \in 1..Len(r) /\ i # Len(r) /\ r[i] = q[i]
  BY <1>1, <1>4, <1>5, <1>6
<1>9. \A i \in 1..Len(r) : i # Len(r) => i \in 1..Len(q) \/ r[i].type = "plan"
  <2>1. SUFFICES ASSUME NEW i \in 1..Len(r), i # Len(r) PROVE i \in 1..Len(q) \/ r[i].type = "plan"
    OBVIOUS
  <2>2. i \in 1..Len(s)
    BY <1>4, <1>6, <2>1
  <2>3. QED
    BY <1>2, <1>6, <2>2
<1>10. QED
  BY <1>7, <1>8, <1>9

\* Every step keeps the types.
LEMMA TypesPreserved ==
  ASSUME PlanTypeOK, [PlanNext]_vars
  PROVE  PlanTypeOK'
<1>1. CASE ChooseDestination
  BY <1>1 DEF ChooseDestination, PlanTypeOK, Screen, database, client
<1>2. CASE RouteFound
  BY <1>2 DEF RouteFound, PlanTypeOK, Screen, database, client
<1>3. CASE RouteNotFound
  BY <1>3 DEF RouteNotFound, PlanTypeOK, Screen, database, client
<1>4. CASE PickDate
  BY <1>4 DEF PickDate, PlanTypeOK, Screen, OptionalDate, database, client
<1>5. CASE StartCarpool
  BY <1>5 DEF StartCarpool, PlanTypeOK, Screen, client
<1>6. CASE DismissNavigation
  BY <1>6 DEF DismissNavigation, PlanTypeOK, Screen, client
<1>7. CASE SignOut
  BY <1>7 DEF SignOut, PlanTypeOK, database, client
<1>8. CASE SignIn
  BY <1>8 DEF SignIn, PlanTypeOK, database, client
<1>9. CASE ServerDecides
  <2>1. write \in [kind : {"save", "remove"}, user : Users, date : OptionalDate,
                   state : {"sent", "granted", "denied"}]
    BY <1>9 DEF ServerDecides, PlanTypeOK, NoWrite
  <2>2. plans' \in [Users -> OptionalDate]
    BY <1>9, <2>1 DEF ServerDecides, PlanTypeOK
  <2>3. write' \in [kind : {"save", "remove"}, user : Users, date : OptionalDate,
                    state : {"sent", "granted", "denied"}]
    BY <1>9, <2>1 DEF ServerDecides
  <2>4. QED
    BY <1>9, <2>2, <2>3 DEF ServerDecides, PlanTypeOK
<1>10. CASE SavePlan
  <2>1. signedIn \in Users /\ screen.date \in OptionalDate
    BY <1>10 DEF SavePlan, PlanTypeOK, Screen
  <2>2. /\ write' \in [kind : {"save", "remove"}, user : Users, date : OptionalDate,
                        state : {"sent", "granted", "denied"}]
        /\ queue' \in Seq(Messages)
    BY <1>10, <2>1, SentWrite DEF SavePlan, Extends
  <2>3. screen' \in Screen
    BY <1>10 DEF SavePlan, PlanTypeOK, Screen
  <2>4. QED
    BY <1>10, <2>2, <2>3 DEF SavePlan, PlanTypeOK, database
<1>11. CASE CancelPlan
  <2>1. CASE signedIn = NoUser
    BY <1>11, <2>1, RestartTypes DEF CancelPlan, PlanTypeOK, database
  <2>2. CASE signedIn # NoUser
    <3>1. signedIn \in Users /\ NoDate \in OptionalDate
      BY <2>2 DEF PlanTypeOK, OptionalDate
    <3>2. /\ write' \in [kind : {"save", "remove"}, user : Users, date : OptionalDate,
                          state : {"sent", "granted", "denied"}]
          /\ queue' \in Seq(Messages)
      BY <1>11, <2>2, <3>1, SentWrite DEF CancelPlan, Extends
    <3>3. screen' \in Screen
      BY <1>11, <2>2 DEF CancelPlan, PlanTypeOK, Screen, OptionalDate
    <3>4. QED
      BY <1>11, <2>2, <3>2, <3>3 DEF CancelPlan, PlanTypeOK, database
  <2>3. QED
    BY <2>1, <2>2
<1>12. CASE Appear
  <2>1. signedIn \in Users
    BY <1>12 DEF Appear, PlanTypeOK
  <2>2. observers' \in [Users -> Nat]
    BY <1>12, <2>1 DEF Appear, PlanTypeOK
  <2>3. queue' \in Seq(Messages)
    BY <1>12, <2>1, LocalType, QueueWithSnapshots DEF Appear, PlanTypeOK, Extends
  <2>4. QED
    BY <1>12, <2>2, <2>3 DEF Appear, PlanTypeOK, database
<1>13. ASSUME NEW u \in Users, ListenAnswered(u) PROVE PlanTypeOK'
  <2>1. queue' \in Seq(Messages)
    BY <1>13, LocalType, QueueWithSnapshots DEF ListenAnswered, PlanTypeOK, Extends
  <2>2. QED
    BY <1>13, <2>1 DEF ListenAnswered, PlanTypeOK, database
<1>14. CASE WriteAnswered
  <2>1. write.kind \in {"save", "remove"}
    BY <1>14, AnswerInQueue
  <2>2. PICK back \in Seq(Messages) :
          queue' = Append(queue \o back, [type |-> write.kind, ok |-> write.state = "granted"])
    BY <1>14, AnswerInQueue
  <2>3. [type |-> write.kind, ok |-> write.state = "granted"] \in Messages
    BY <1>14, AnswerInQueue
  <2>4. queue' \in Seq(Messages)
    BY <2>2, <2>3 DEF PlanTypeOK
  <2>5. QED
    BY <1>14, <2>4 DEF WriteAnswered, PlanTypeOK, database
<1>15. CASE EndProcess
  <2>1. plans' \in [Users -> OptionalDate]
    <3>1. CASE UNCHANGED plans
      BY <3>1 DEF PlanTypeOK
    <3>2. CASE write.state = "sent" /\ plans' = [plans EXCEPT ![write.user] = write.date]
      <4>1. write.user \in Users /\ write.date \in OptionalDate
        BY <3>2 DEF PlanTypeOK, NoWrite
      <4>2. QED
        BY <3>2, <4>1 DEF PlanTypeOK
    <3>3. QED
      BY <1>15, <3>1, <3>2 DEF EndProcess
  <2>2. QED
    BY <1>15, <2>1, RestartTypes DEF EndProcess, PlanTypeOK
<1>16. CASE HearPlan
  <2>1. Head(queue).date \in OptionalDate /\ Tail(queue) \in Seq(Messages)
    BY <1>16, QueueTail DEF HearPlan, Takes, PlanTypeOK, Messages, OptionalDate
  <2>2. QED
    BY <1>16, <2>1 DEF HearPlan, WithPlannedUI, PlanTypeOK, Screen, database
<1>17. ASSUME NEW type, NEW route \in {"none", "planned"}, NEW after \in Screen,
              Complete(type, route, after)
       PROVE  PlanTypeOK'
  <2>1. CASE signedIn = NoUser
    BY <1>17, <2>1, RestartTypes DEF Complete, PlanTypeOK
  <2>2. CASE signedIn # NoUser
    <3>1. Tail(queue) \in Seq(Messages)
      BY <1>17, QueueTail DEF Complete, Takes, PlanTypeOK
    <3>2. [after EXCEPT !.hud = FALSE] \in Screen
      BY <1>17 DEF Screen
    <3>3. QED
      BY <1>17, <2>2, <3>1, <3>2 DEF Complete, PlanTypeOK
  <2>3. QED
    BY <2>1, <2>2
<1>18. CASE PlanSaved
  <2>1. WithPlannedUI(screen) \in Screen
    BY DEF WithPlannedUI, PlanTypeOK, Screen
  <2>2. QED
    BY <1>17, <1>18, <2>1 DEF PlanSaved
<1>19. CASE PlanRemoved
  <2>1. WithoutPlannedUI(screen) \in Screen
    BY DEF WithoutPlannedUI, PlanTypeOK, Screen
  <2>2. QED
    BY <1>17, <1>19, <2>1 DEF PlanRemoved
<1>20. CASE UNCHANGED vars
  BY <1>20 DEF vars, database, client, PlanTypeOK
<1>21. QED
  BY <1>1, <1>2, <1>3, <1>4, <1>5, <1>6, <1>7, <1>8, <1>9, <1>10, <1>11, <1>12, <1>13, <1>14,
     <1>15, <1>16, <1>18, <1>19, <1>20 DEF PlanNext, Taps, Deliveries

\* While the indicator is down nothing is awaited.
LEMMA NothingAwaited ==
  ASSUME CallsAreCovered, ~screen.hud
  PROVE  write = NoWrite /\ ~screen.routing /\ OnlySnapshots
  BY DEF CallsAreCovered, IndicatorCoversCalls, Awaited, OnlySnapshots

\* A queue that grows by snapshots holds the completions it held.
LEMMA GrowingQueue ==
  ASSUME CallsAreCovered, Extends(queue', queue), UNCHANGED <<write, screen>>
  PROVE  CallsAreCovered'
<1>1. \A i \in 1..Len(queue') :
        queue'[i].type # "plan" => i \in 1..Len(queue) /\ queue'[i] = queue[i]
  BY DEF Extends
<1>2. Awaited' => Awaited
  BY <1>1 DEF Awaited
<1>3. OnlySnapshots => OnlySnapshots'
  BY <1>1 DEF OnlySnapshots
<1>4. QED
  BY <1>1, <1>2, <1>3 DEF CallsAreCovered, IndicatorCoversCalls, OneCallAtATime

\* Nothing is awaited of a process that has just started.
LEMMA RestartCalls == ASSUME Restart PROVE CallsAreCovered'
<1>1. queue' = <<>> /\ write' = NoWrite /\ ~screen'.routing
  BY DEF Restart, FreshScreen
<1>2. QED
  BY <1>1 DEF CallsAreCovered, IndicatorCoversCalls, OneCallAtATime, Awaited, OnlySnapshots

\* Every step keeps the calls under the indicator, and one at a time.
LEMMA CallsPreserved ==
  ASSUME PlanTypeOK, CallsAreCovered, [PlanNext]_vars
  PROVE  CallsAreCovered'
<1> USE DEF CallsAreCovered, IndicatorCoversCalls, OneCallAtATime
<1>1. ASSUME UNCHANGED <<write, queue>>, screen'.hud = screen.hud, screen'.routing = screen.routing
      PROVE  CallsAreCovered'
  BY <1>1 DEF Awaited, OnlySnapshots
<1>2. CASE PickDate
  BY <1>1, <1>2 DEF PickDate, client, PlanTypeOK, Screen
<1>3. CASE StartCarpool
  BY <1>1, <1>3 DEF StartCarpool, client, PlanTypeOK, Screen
<1>4. CASE DismissNavigation
  BY <1>1, <1>4 DEF DismissNavigation, client, PlanTypeOK, Screen
<1>5. CASE SignOut
  BY <1>1, <1>5 DEF SignOut, client
<1>6. CASE SignIn
  BY <1>1, <1>6 DEF SignIn, client
<1>7. CASE ChooseDestination
  <2>1. write = NoWrite /\ OnlySnapshots
    BY <1>7, NothingAwaited DEF ChooseDestination, CanTap
  <2>2. write' = NoWrite /\ OnlySnapshots' /\ screen'.hud
    BY <1>7, <2>1 DEF ChooseDestination, client, OnlySnapshots, PlanTypeOK, Screen
  <2>3. QED
    BY <2>2 DEF OnlySnapshots
<1>8. CASE RouteFound
  <2>1. write = NoWrite /\ OnlySnapshots
    BY <1>8 DEF RouteFound
  <2>2. write' = NoWrite /\ OnlySnapshots' /\ ~screen'.routing
    BY <1>8, <2>1 DEF RouteFound, client, OnlySnapshots, PlanTypeOK, Screen
  <2>3. QED
    BY <2>2 DEF OnlySnapshots, Awaited
<1>9. CASE RouteNotFound
  <2>1. write = NoWrite /\ OnlySnapshots
    BY <1>9 DEF RouteNotFound
  <2>2. write' = NoWrite /\ OnlySnapshots' /\ ~screen'.routing
    BY <1>9, <2>1 DEF RouteNotFound, client, OnlySnapshots, PlanTypeOK, Screen
  <2>3. QED
    BY <2>2 DEF OnlySnapshots, Awaited
<1>10. ASSUME NEW kind \in {"save", "remove"}, NEW date \in OptionalDate,
              signedIn \in Users, CanTap, SendWrite(kind, date),
              screen'.hud, screen'.routing = screen.routing
       PROVE  CallsAreCovered'
  <2>1. ~screen.routing /\ OnlySnapshots
    BY <1>10, NothingAwaited DEF CanTap
  <2>2. Extends(queue', queue)
    BY <1>10, SentWrite
  <2>3. OnlySnapshots' /\ ~screen'.routing
    BY <1>10, <2>1, <2>2 DEF OnlySnapshots, Extends
  <2>4. QED
    BY <1>10, <2>3 DEF OnlySnapshots
<1>11. CASE SavePlan
  <2>1. signedIn \in Users /\ screen.date \in OptionalDate
    BY <1>11 DEF SavePlan, PlanTypeOK, Screen
  <2>2. screen'.hud /\ screen'.routing = screen.routing
    BY <1>11 DEF SavePlan, PlanTypeOK, Screen
  <2>3. QED
    BY <1>10, <1>11, <2>1, <2>2 DEF SavePlan
<1>12. CASE CancelPlan
  <2>1. CASE signedIn = NoUser
    BY <1>12, <2>1, RestartCalls DEF CancelPlan
  <2>2. CASE signedIn # NoUser
    <3>1. signedIn \in Users /\ NoDate \in OptionalDate
      BY <2>2 DEF PlanTypeOK, OptionalDate
    <3>2. screen'.hud /\ screen'.routing = screen.routing
      BY <1>12, <2>2 DEF CancelPlan, PlanTypeOK, Screen
    <3>3. QED
      BY <1>10, <1>12, <2>2, <3>1, <3>2 DEF CancelPlan
  <2>3. QED
    BY <2>1, <2>2
<1>13. CASE Appear
  <2>1. Extends(queue', queue)
    BY <1>13, LocalType, QueueWithSnapshots, SameQueue DEF Appear, PlanTypeOK
  <2>2. QED
    BY <1>13, <2>1, GrowingQueue DEF Appear
<1>14. ASSUME NEW u \in Users, ListenAnswered(u) PROVE CallsAreCovered'
  <2>1. Extends(queue', queue)
    BY <1>14, LocalType, QueueWithSnapshots, SameQueue DEF ListenAnswered, PlanTypeOK
  <2>2. QED
    BY <1>14, <2>1, GrowingQueue DEF ListenAnswered
<1>15. CASE ServerDecides
  <2>1. write # NoWrite
    BY <1>15 DEF ServerDecides, NoWrite
  <2>2. screen.hud /\ OnlySnapshots /\ ~screen.routing
    BY <2>1 DEF Awaited
  <2>3. UNCHANGED <<queue, screen>>
    BY <1>15 DEF ServerDecides
  <2>4. QED
    BY <2>2, <2>3 DEF OnlySnapshots
<1>16. CASE WriteAnswered
  <2>1. write # NoWrite
    BY <1>16 DEF WriteAnswered, NoWrite
  <2>2. screen.hud /\ OnlySnapshots /\ ~screen.routing
    BY <2>1 DEF Awaited
  <2>3. PICK back \in Seq(Messages) :
          /\ \A i \in 1..Len(back) : back[i].type = "plan"
          /\ queue' = Append(queue \o back, [type |-> write.kind, ok |-> write.state = "granted"])
    BY <1>16, AnswerInQueue
  <2>4. \A i \in 1..Len(queue') : i # Len(queue') => queue'[i].type = "plan"
    <3> DEFINE m == [type |-> write.kind, ok |-> write.state = "granted"]
    <3>1. m \in Messages /\ queue \in Seq(Messages) /\ queue' = Append(queue \o back, m)
      BY <1>16, <2>3, AnswerInQueue DEF PlanTypeOK
    <3> HIDE DEF m
    <3>2. \A i \in 1..Len(queue') :
            i # Len(queue') => i \in 1..Len(queue) \/ queue'[i].type = "plan"
      BY <2>3, <3>1, AppendedMessage
    <3>3. \A i \in 1..Len(queue) : i \in 1..Len(queue') /\ queue'[i] = queue[i]
      BY <2>3, <3>1, AppendedMessage
    <3>4. QED
      BY <2>2, <3>2, <3>3 DEF OnlySnapshots
  <2>5. UNCHANGED screen /\ write' = NoWrite
    BY <1>16 DEF WriteAnswered
  <2>6. ~Awaited' \/ screen'.hud
    BY <2>2, <2>5
  <2>7. \A i, j \in 1..Len(queue') :
          queue'[i].type # "plan" /\ queue'[j].type # "plan" => i = j
    BY <2>4
  <2>8. write' = NoWrite /\ ~screen'.routing
    BY <2>2, <2>5
  <2>9. QED
    BY <2>6, <2>7, <2>8
<1>17. CASE HearPlan
  <2>1. /\ Tail(queue) \in Seq(Messages)
        /\ \A i \in 1..Len(Tail(queue)) : i + 1 \in 1..Len(queue) /\ Tail(queue)[i] = queue[i + 1]
    BY <1>17, QueueTail DEF HearPlan, Takes, PlanTypeOK
  <2>2. queue' = Tail(queue) /\ UNCHANGED write
    BY <1>17 DEF HearPlan
  <2>3. screen'.hud = screen.hud /\ screen'.routing = screen.routing
    BY <1>17 DEF HearPlan, WithPlannedUI, PlanTypeOK, Screen
  <2>4. Awaited' => Awaited
    BY <2>1, <2>2, <2>3 DEF Awaited
  <2>5. OnlySnapshots => OnlySnapshots'
    BY <2>1, <2>2 DEF OnlySnapshots
  <2>6. \A i, j \in 1..Len(queue') :
          queue'[i].type # "plan" /\ queue'[j].type # "plan" => i = j
    <3>1. SUFFICES ASSUME NEW i \in 1..Len(queue'), NEW j \in 1..Len(queue'),
                          queue'[i].type # "plan", queue'[j].type # "plan"
                   PROVE  i = j
      OBVIOUS
    <3>2. i + 1 = j + 1
      BY <2>1, <2>2, <3>1
    <3>3. i \in Int /\ j \in Int
      BY <2>1, <2>2
    <3>4. QED
      BY <3>2, <3>3
  <2>7. QED
    BY <2>2, <2>3, <2>4, <2>5, <2>6
<1>18. ASSUME NEW type \in {"save", "remove"}, NEW route, NEW after \in Screen,
              after.routing = screen.routing, Complete(type, route, after)
       PROVE  CallsAreCovered'
  <2>1. CASE signedIn = NoUser
    BY <1>18, <2>1, RestartCalls DEF Complete
  <2>2. CASE signedIn # NoUser
    <3>1. /\ Head(queue) = queue[1] /\ 1 \in 1..Len(queue)
          /\ Tail(queue) \in Seq(Messages)
          /\ \A i \in 1..Len(Tail(queue)) : i + 1 \in 1..Len(queue) /\ Tail(queue)[i] = queue[i + 1]
      BY <1>18, QueueTail DEF Complete, Takes, PlanTypeOK
    <3>2. queue[1].type # "plan"
      BY <1>18, <3>1 DEF Complete, Takes
    <3>3. write = NoWrite /\ ~screen.routing
      BY <3>1, <3>2 DEF OnlySnapshots
    <3>4. queue' = Tail(queue) /\ write' = NoWrite /\ ~screen'.routing
      BY <1>18, <2>2, <3>3 DEF Complete, Screen
    <3>5. OnlySnapshots'
      <4>1. SUFFICES ASSUME NEW i \in 1..Len(Tail(queue)), Tail(queue)[i].type # "plan"
                     PROVE  FALSE
        BY <3>4 DEF OnlySnapshots
      <4>2. i + 1 = 1
        BY <3>1, <3>2, <4>1
      <4>3. i \in Int /\ i >= 1
        BY <3>1
      <4>4. QED
        BY <4>2, <4>3
    <3>6. QED
      BY <3>4, <3>5 DEF OnlySnapshots, Awaited
  <2>3. QED
    BY <2>1, <2>2
<1>19. CASE PlanSaved
  <2>1. WithPlannedUI(screen) \in Screen /\ WithPlannedUI(screen).routing = screen.routing
    BY DEF WithPlannedUI, PlanTypeOK, Screen
  <2>2. QED
    BY <1>18, <1>19, <2>1 DEF PlanSaved
<1>20. CASE PlanRemoved
  <2>1. WithoutPlannedUI(screen) \in Screen /\ WithoutPlannedUI(screen).routing = screen.routing
    BY DEF WithoutPlannedUI, PlanTypeOK, Screen
  <2>2. QED
    BY <1>18, <1>20, <2>1 DEF PlanRemoved
<1>21. CASE EndProcess
  BY <1>21, RestartCalls DEF EndProcess
<1>22. CASE UNCHANGED vars
  BY <1>1, <1>22 DEF vars, client
<1>23. QED
  BY <1>2, <1>3, <1>4, <1>5, <1>6, <1>7, <1>8, <1>9, <1>11, <1>12, <1>13, <1>14, <1>15, <1>16,
     <1>17, <1>19, <1>20, <1>21, <1>22 DEF PlanNext, Taps, Deliveries

\* What is saved or removed stays so while the queue grows by snapshots.
LEMMA SameCalls ==
  ASSUME Extends(queue', queue), write'.kind = write.kind
  PROVE  (Saving' => Saving) /\ (Removing => Removing')
<1>1. \A i \in 1..Len(queue') :
        queue'[i].type # "plan" => i \in 1..Len(queue) /\ queue'[i] = queue[i]
  BY DEF Extends
<1>2. \A i \in 1..Len(queue) : i \in 1..Len(queue') /\ queue'[i] = queue[i]
  BY DEF Extends
<1>3. Saving' => Saving
  BY <1>1 DEF Saving
<1>4. Removing => Removing'
  BY <1>2 DEF Removing
<1>5. QED
  BY <1>3, <1>4

\* A fresh screen shows no plan, and nothing is saved behind it.
LEMMA RestartScreen ==
  ASSUME Restart
  PROVE  PlanIsOnTheScreen' /\ ~screen'.navigating
<1>1. queue' = <<>> /\ write'.kind = "none"
  BY DEF Restart, NoWrite
<1>2. screen'.title # "Start now" /\ ~screen'.navigating
  BY DEF Restart, FreshScreen
<1>3. ~Saving'
  BY <1>1 DEF Saving
<1>4. StartNowHasPlan'
  BY <1>2 DEF StartNowHasPlan
<1>5. QED
  BY <1>2, <1>3, <1>4 DEF PlanIsOnTheScreen

\* Every step keeps the plan that is saved, or offered, on the screen.
LEMMA PlanStaysOnTheScreen ==
  ASSUME PlanTypeOK, CallsAreCovered, PlanIsOnTheScreen, [PlanNext]_vars
  PROVE  PlanIsOnTheScreen'
<1>1. ASSUME Saving' => Saving, Removing => Removing',
             screen'.date = screen.date, screen'.title = screen.title
      PROVE  PlanIsOnTheScreen'
  BY <1>1 DEF PlanIsOnTheScreen, StartNowHasPlan
<1>0. ASSUME screen'.date # NoDate PROVE PlanIsOnTheScreen'
  BY <1>0 DEF PlanIsOnTheScreen, StartNowHasPlan
<1>2. UNCHANGED <<write, queue>> => (Saving' => Saving) /\ (Removing => Removing')
  BY DEF Saving, Removing
<1>3. CASE ChooseDestination
  BY <1>1, <1>2, <1>3 DEF ChooseDestination, client, PlanTypeOK, Screen
<1>4. CASE RouteFound
  BY <1>1, <1>2, <1>4 DEF RouteFound, client, PlanTypeOK, Screen
<1>5. CASE RouteNotFound
  BY <1>1, <1>2, <1>5 DEF RouteNotFound, client, PlanTypeOK, Screen
<1>6. CASE PickDate
  <2>1. PICK date \in Dates : screen' = [screen EXCEPT !.date = date, !.title = "Save carpool"]
    BY <1>6 DEF PickDate
  <2>2. screen'.date = date
    BY <2>1 DEF PlanTypeOK, Screen
  <2>3. QED
    BY <1>0, <2>2, DriverPlanAssumption
<1>7. CASE StartCarpool
  BY <1>1, <1>2, <1>7 DEF StartCarpool, client, PlanTypeOK, Screen
<1>8. CASE DismissNavigation
  BY <1>1, <1>2, <1>8 DEF DismissNavigation, client, PlanTypeOK, Screen
<1>9. CASE SignOut
  BY <1>1, <1>2, <1>9 DEF SignOut, client
<1>10. CASE SignIn
  BY <1>1, <1>2, <1>10 DEF SignIn, client
<1>11. CASE SavePlan
  BY <1>0, <1>11 DEF SavePlan, PlanTypeOK, Screen
<1>12. CASE CancelPlan
  <2>1. CASE signedIn = NoUser
    BY <1>12, <2>1, RestartScreen DEF CancelPlan
  <2>2. CASE signedIn # NoUser
    <3>1. signedIn \in Users /\ NoDate \in OptionalDate
      BY <2>2 DEF PlanTypeOK, OptionalDate
    <3>2. write'.kind = "remove" /\ Extends(queue', queue)
      BY <1>12, <2>2, <3>1, SentWrite DEF CancelPlan
    <3>3. OnlySnapshots
      BY <1>12, NothingAwaited DEF CancelPlan, CanTap
    <3>4. ~Saving' /\ Removing'
      BY <3>2, <3>3 DEF Saving, Removing, OnlySnapshots, Extends
    <3>5. QED
      BY <3>4 DEF PlanIsOnTheScreen, StartNowHasPlan
  <2>3. QED
    BY <2>1, <2>2
<1>13. CASE Appear
  <2>1. Extends(queue', queue)
    BY <1>13, LocalType, QueueWithSnapshots, SameQueue DEF Appear, PlanTypeOK
  <2>2. QED
    BY <1>1, <1>13, <2>1, SameCalls DEF Appear
<1>14. ASSUME NEW u \in Users, ListenAnswered(u) PROVE PlanIsOnTheScreen'
  <2>1. Extends(queue', queue)
    BY <1>14, LocalType, QueueWithSnapshots, SameQueue DEF ListenAnswered, PlanTypeOK
  <2>2. QED
    BY <1>1, <1>14, <2>1, SameCalls DEF ListenAnswered
<1>15. CASE ServerDecides
  <2>1. write'.kind = write.kind
    <3>1. write \in [kind : {"save", "remove"}, user : Users, date : OptionalDate,
                     state : {"sent", "granted", "denied"}]
      BY <1>15 DEF ServerDecides, PlanTypeOK, NoWrite
    <3>2. QED
      BY <1>15, <3>1 DEF ServerDecides
  <2>2. (Saving' => Saving) /\ (Removing => Removing')
    BY <1>15, <2>1 DEF ServerDecides, Saving, Removing
  <2>3. QED
    BY <1>1, <1>15, <2>2 DEF ServerDecides
<1>16. CASE WriteAnswered
  <2>1. OnlySnapshots
    <3>1. write # NoWrite
      BY <1>16 DEF WriteAnswered, NoWrite
    <3>2. QED
      BY <3>1 DEF CallsAreCovered, OneCallAtATime
  <2> DEFINE m == [type |-> write.kind, ok |-> write.state = "granted"]
  <2>2. m \in Messages /\ queue \in Seq(Messages) /\ m.type = write.kind
    BY <1>16, AnswerInQueue DEF PlanTypeOK
  <2>3. PICK back \in Seq(Messages) :
          (\A i \in 1..Len(back) : back[i].type = "plan") /\ queue' = Append(queue \o back, m)
    BY <1>16, AnswerInQueue
  <2> HIDE DEF m
  <2>4. Len(queue') \in 1..Len(queue') /\ queue'[Len(queue')] = m
    BY <2>2, <2>3, AppendedMessage
  <2>5. \A i \in 1..Len(queue') : i # Len(queue') => queue'[i].type = "plan"
    <3>1. \A i \in 1..Len(queue') :
            i # Len(queue') => i \in 1..Len(queue) \/ queue'[i].type = "plan"
      BY <2>2, <2>3, AppendedMessage
    <3>2. \A i \in 1..Len(queue) : i \in 1..Len(queue') /\ queue'[i] = queue[i]
      BY <2>2, <2>3, AppendedMessage
    <3>3. QED
      BY <2>1, <3>1, <3>2 DEF OnlySnapshots
  <2>6. write'.kind = "none" /\ UNCHANGED screen
    BY <1>16 DEF WriteAnswered, NoWrite
  <2>7. Saving' => Saving
    BY <2>2, <2>4, <2>5, <2>6 DEF Saving
  <2>8. Removing => Removing'
    BY <2>1, <2>2, <2>4 DEF Removing, OnlySnapshots
  <2>9. QED
    BY <1>1, <2>6, <2>7, <2>8
<1>17. CASE HearPlan
  <2>1. Head(queue).date \in Dates
    BY <1>17, QueueTail DEF HearPlan, Takes, PlanTypeOK, Messages
  <2>2. screen'.date = Head(queue).date
    BY <1>17 DEF HearPlan, WithPlannedUI, PlanTypeOK, Screen
  <2>3. QED
    BY <1>0, <2>1, <2>2, DriverPlanAssumption
<1>18. ASSUME NEW type, NEW route, NEW after \in Screen, after.date = screen.date,
              Complete(type, route, after), signedIn # NoUser
       PROVE  (Saving' => Saving) /\ screen'.date = screen.date /\ screen'.title = after.title
  <2>1. \A i \in 1..Len(Tail(queue)) : i + 1 \in 1..Len(queue) /\ Tail(queue)[i] = queue[i + 1]
    BY <1>18, QueueTail DEF Complete, Takes, PlanTypeOK
  <2>2. queue' = Tail(queue) /\ write' = write
    BY <1>18 DEF Complete
  <2>3. Saving' => Saving
    BY <2>1, <2>2 DEF Saving
  <2>4. QED
    BY <1>18, <2>3 DEF Complete, Screen
<1>19. CASE PlanSaved
  <2>1. CASE signedIn = NoUser
    BY <1>19, <2>1, RestartScreen DEF PlanSaved, Complete
  <2>2. CASE signedIn # NoUser
    <3>1. 1 \in 1..Len(queue) /\ queue[1].type = "save"
      BY <1>19, QueueTail DEF PlanSaved, Complete, Takes, PlanTypeOK
    <3>2. WithPlannedUI(screen) \in Screen /\ WithPlannedUI(screen).date = screen.date
      BY DEF WithPlannedUI, PlanTypeOK, Screen
    <3>3. screen'.date = screen.date
      BY <1>18, <1>19, <2>2, <3>2 DEF PlanSaved
    <3>4. screen.date # NoDate
      BY <3>1 DEF PlanIsOnTheScreen, Saving
    <3>5. QED
      BY <1>0, <3>3, <3>4
  <2>3. QED
    BY <2>1, <2>2
<1>20. CASE PlanRemoved
  <2>1. CASE signedIn = NoUser
    BY <1>20, <2>1, RestartScreen DEF PlanRemoved, Complete
  <2>2. CASE signedIn # NoUser
    <3>1. /\ WithoutPlannedUI(screen) \in Screen /\ WithoutPlannedUI(screen).date = screen.date
          /\ WithoutPlannedUI(screen).title = "Start carpool"
      BY DEF WithoutPlannedUI, PlanTypeOK, Screen
    <3>2. /\ Saving' => Saving
          /\ screen'.date = screen.date /\ screen'.title = "Start carpool"
      BY <1>18, <1>20, <2>2, <3>1 DEF PlanRemoved
    <3>3. QED
      BY <3>2 DEF PlanIsOnTheScreen, StartNowHasPlan
  <2>3. QED
    BY <2>1, <2>2
<1>21. CASE EndProcess
  BY <1>21, RestartScreen DEF EndProcess
<1>22. CASE UNCHANGED vars
  BY <1>1, <1>2, <1>22 DEF vars, client
<1>23. QED
  BY <1>3, <1>4, <1>5, <1>6, <1>7, <1>8, <1>9, <1>10, <1>11, <1>12, <1>13, <1>14, <1>15, <1>16,
     <1>17, <1>19, <1>20, <1>21, <1>22 DEF PlanNext, Taps, Deliveries

\* Every step leaves a navigation its route and its driver.
LEMMA NavigationStaysAlone ==
  ASSUME PlanTypeOK, CallsAreCovered, NavigationIsAlone, [PlanNext]_vars
  PROVE  NavigationIsAlone'
<1> USE DEF NavigationIsAlone, NavigatedRouteIsPublished
<1>1. ASSUME ~screen'.navigating PROVE NavigationIsAlone'
  BY <1>1
<1>2. ASSUME screen'.navigating => screen.navigating, screen'.hud = screen.hud,
             UNCHANGED <<routes, signedIn>>
      PROVE  NavigationIsAlone'
  BY <1>2
<1>3. CASE ChooseDestination
  BY <1>1, <1>3 DEF ChooseDestination, CanTap, PlanTypeOK, Screen
<1>4. CASE RouteFound
  <2>1. screen.hud
    BY <1>4 DEF RouteFound, CallsAreCovered, IndicatorCoversCalls, Awaited
  <2>2. QED
    BY <1>1, <1>4, <2>1 DEF RouteFound, PlanTypeOK, Screen
<1>5. CASE RouteNotFound
  BY <1>2, <1>5 DEF RouteNotFound, database, PlanTypeOK, Screen
<1>6. CASE PickDate
  BY <1>1, <1>6 DEF PickDate, CanTap, PlanTypeOK, Screen
<1>7. CASE SavePlan
  BY <1>1, <1>7 DEF SavePlan, CanTap, PlanTypeOK, Screen
<1>8. CASE StartCarpool
  <2>1. signedIn \in Users /\ signedIn' = signedIn
    BY <1>8 DEF StartCarpool, PlanTypeOK
  <2>2. routes'[signedIn] = "driven"
    BY <1>8, <2>1 DEF StartCarpool, PlanTypeOK
  <2>3. ~screen'.hud
    BY <1>8 DEF StartCarpool, CanTap, PlanTypeOK, Screen
  <2>4. QED
    BY <1>8, <2>1, <2>2, <2>3 DEF StartCarpool
<1>9. CASE CancelPlan
  <2>1. CASE signedIn = NoUser
    BY <1>1, <1>9, <2>1, RestartScreen DEF CancelPlan
  <2>2. CASE signedIn # NoUser
    BY <1>1, <1>9, <2>2 DEF CancelPlan, CanTap, PlanTypeOK, Screen
  <2>3. QED
    BY <2>1, <2>2
<1>10. CASE DismissNavigation
  BY <1>1, <1>10 DEF DismissNavigation, PlanTypeOK, Screen
<1>11. CASE Appear
  BY <1>1, <1>11 DEF Appear
<1>12. CASE SignOut
  BY <1>1, <1>12 DEF SignOut
<1>13. CASE SignIn
  BY <1>1, <1>13 DEF SignIn
<1>14. CASE EndProcess
  BY <1>1, <1>14, RestartScreen DEF EndProcess
<1>15. CASE ServerDecides
  BY <1>2, <1>15 DEF ServerDecides
<1>16. CASE WriteAnswered
  BY <1>2, <1>16 DEF WriteAnswered, database
<1>17. ASSUME NEW u \in Users, ListenAnswered(u) PROVE NavigationIsAlone'
  BY <1>2, <1>17 DEF ListenAnswered, database
<1>18. CASE HearPlan
  BY <1>2, <1>18 DEF HearPlan, WithPlannedUI, database, PlanTypeOK, Screen
<1>19. ASSUME NEW type \in {"save", "remove"}, NEW route, NEW after \in Screen,
              after.navigating = screen.navigating, Complete(type, route, after)
       PROVE  NavigationIsAlone'
  <2>1. CASE signedIn = NoUser
    BY <1>1, <1>19, <2>1, RestartScreen DEF Complete
  <2>2. CASE signedIn # NoUser
    <3>1. 1 \in 1..Len(queue) /\ queue[1].type # "plan"
      BY <1>19, QueueTail DEF Complete, Takes, PlanTypeOK
    <3>2. screen.hud
      BY <3>1 DEF CallsAreCovered, IndicatorCoversCalls, Awaited
    <3>3. ~screen'.navigating
      BY <1>19, <2>2, <3>2 DEF Complete, Screen
    <3>4. QED
      BY <1>1, <3>3
  <2>3. QED
    BY <2>1, <2>2
<1>20. CASE PlanSaved
  <2>1. /\ WithPlannedUI(screen) \in Screen
        /\ WithPlannedUI(screen).navigating = screen.navigating
    BY DEF WithPlannedUI, PlanTypeOK, Screen
  <2>2. QED
    BY <1>19, <1>20, <2>1 DEF PlanSaved
<1>21. CASE PlanRemoved
  <2>1. /\ WithoutPlannedUI(screen) \in Screen
        /\ WithoutPlannedUI(screen).navigating = screen.navigating
    BY DEF WithoutPlannedUI, PlanTypeOK, Screen
  <2>2. QED
    BY <1>19, <1>21, <2>1 DEF PlanRemoved
<1>22. CASE UNCHANGED vars
  BY <1>2, <1>22 DEF vars, database
<1>23. QED
  BY <1>3, <1>4, <1>5, <1>6, <1>7, <1>8, <1>9, <1>10, <1>11, <1>12, <1>13, <1>14, <1>15, <1>16,
     <1>17, <1>18, <1>20, <1>21, <1>22 DEF PlanNext, Taps, Deliveries

\* The invariant holds in every initial state.
LEMMA InvariantHoldsInitially == PlanInit => PlanInvariant
<1>1. SUFFICES ASSUME PlanInit PROVE PlanInvariant
  OBVIOUS
<1>2. queue = <<>> /\ write = NoWrite /\ screen = FreshScreen
  BY <1>1 DEF PlanInit
<1>3. CallsAreCovered
  <2>1. 1..Len(queue) = {} /\ ~screen.routing
    <3>1. Len(queue) = 0
      BY <1>2
    <3>2. ~screen.routing
      BY <1>2 DEF FreshScreen
    <3>3. QED
      BY <3>1, <3>2
  <2>2. ~Awaited /\ OnlySnapshots
    BY <1>2, <2>1 DEF Awaited, OnlySnapshots
  <2>3. QED
    BY <1>2, <2>1, <2>2 DEF CallsAreCovered, IndicatorCoversCalls, OneCallAtATime
<1>4. PlanIsOnTheScreen
  <2>1. ~Saving
    BY <1>2 DEF Saving, NoWrite
  <2>2. QED
    BY <1>2, <2>1 DEF PlanIsOnTheScreen, StartNowHasPlan, FreshScreen
<1>5. NavigationIsAlone
  BY <1>2 DEF NavigationIsAlone, NavigatedRouteIsPublished, FreshScreen
<1>6. QED
  BY <1>1, <1>3, <1>4, <1>5, InitialTypes DEF PlanInvariant

\* Every step keeps the invariant.
LEMMA InvariantIsKept == PlanInvariant /\ [PlanNext]_vars => PlanInvariant'
  BY TypesPreserved, CallsPreserved, PlanStaysOnTheScreen, NavigationStaysAlone DEF PlanInvariant

(* The invariant of the driver's screen: its types, the indicator over the *)
(* calls, the plan behind the button and the route under the navigation.   *)
THEOREM PlanInvariantHolds == PlanSpec => []PlanInvariant
<1>1. PlanInit => PlanInvariant
  BY InvariantHoldsInitially
<1>2. PlanInvariant /\ [PlanNext]_vars => PlanInvariant'
  BY InvariantIsKept
<1>3. QED
  BY <1>1, <1>2, PTL DEF PlanSpec

(* The screen, the nodes and the queue hold what their types say           *)
(* (DriverViewController, DriverDataManager).                              *)
THEOREM PlanTypeCorrect == PlanSpec => []PlanTypeOK
<1>1. PlanInvariant => PlanTypeOK
  BY DEF PlanInvariant
<1>2. QED
  BY <1>1, PlanInvariantHolds, PTL

(* While the progress indicator of DriverViewController is down, no write  *)
(* of a plan, no completion and no route is awaited.                       *)
THEOREM IndicatorIsTheLock == PlanSpec => []IndicatorCoversCalls
<1>1. PlanInvariant => IndicatorCoversCalls
  BY DEF PlanInvariant, CallsAreCovered
<1>2. QED
  BY <1>1, PlanInvariantHolds, PTL

(* No late completion of addPreplannedCarpool or removePreplannedCarpool   *)
(* takes the published route of a navigation under way.                    *)
THEOREM NavigationKeepsItsRoute == PlanSpec => []NavigatedRouteIsPublished
<1>1. PlanInvariant => NavigatedRouteIsPublished
  BY DEF PlanInvariant, NavigationIsAlone
<1>2. QED
  BY <1>1, PlanInvariantHolds, PTL

(* The button offers "Start now" (DriverViewController.swift:393) only for *)
(* a plan, or for one on its way out.                                      *)
THEOREM StartNowIsForAPlan == PlanSpec => []StartNowHasPlan
<1>1. PlanInvariant => StartNowHasPlan
  BY DEF PlanInvariant, PlanIsOnTheScreen
<1>2. QED
  BY <1>1, PlanInvariantHolds, PTL
=============================================================================
