----------------------------- MODULE DriverPlan -----------------------------
(***************************************************************************)
(* A carpool planned for later: the driver's screen                        *)
(* (DriverViewController), where a route and a departure are chosen, saved *)
(* or cancelled, and the two nodes riders find it by, DateTime/<driver>    *)
(* and DriverRoutes/<driver> (DriverDataManager).  The requests of a       *)
(* navigation are those of DriverClient.                                   *)
(*                                                                         *)
(* The app's calls meet on the queue of the main thread; taps come between *)
(* any two of them.  The database behaves as DatabaseClient promises: a    *)
(* write is heard at once and taken back if it is denied, it completes     *)
(* after the server's answer and after every listen has been answered.     *)
(* Only this phone writes the nodes.                                       *)
(***************************************************************************)
EXTENDS Integers, Sequences

CONSTANTS
  Users, NoUser,
  Dates, NoDate,
  WriteOutcomes,    \* whether the database grants a write of the plan
  RouteOutcomes,    \* whether a route is found
  MaxWrites,        \* bound: plans saved or cancelled
  MaxAppearances,   \* bound: times the screen appears
  MaxEnds,          \* bound: ends of the process
  MaxSignOuts       \* bound: times a user signs out

ASSUME DriverPlanAssumption ==
  /\ NoUser \notin Users /\ NoDate \notin Dates
  /\ WriteOutcomes \subseteq BOOLEAN /\ RouteOutcomes \subseteq BOOLEAN
  /\ MaxWrites \in Nat /\ MaxAppearances \in Nat
  /\ MaxEnds \in Nat /\ MaxSignOuts \in Nat

VARIABLES
  plans,      \* DateTime/<driver>/preplan
  routes,     \* DriverRoutes/<driver>: published for a plan, or for a navigation
  signedIn,   \* the user signed in
  screen,     \* DriverViewController
  observers,  \* registrations of fetchPreplannedCarpool, which none removes
  known,      \* the listen of a node has been answered
  write,      \* the write of a plan without an answer
  queue,      \* the main thread's: snapshots and completions
  made        \* writes, appearances, ends and sign-outs so far; history: the
              \* screen was last told of a cancellation that was refused

database == <<plans, routes>>
client   == <<observers, known, write, queue>>
vars     == <<database, signedIn, screen, client, made>>

OptionalDate == Dates \union {NoDate}
NoWrite      == [kind |-> "none", user |-> NoUser, date |-> NoDate, state |-> "none"]

Screen ==
  [date : OptionalDate, title : {"Start carpool", "Save carpool", "Start now"},
   button : BOOLEAN, cancelButton : BOOLEAN, hud : BOOLEAN,
   route : BOOLEAN, routing : BOOLEAN, navigating : BOOLEAN]

FreshScreen ==
  [date |-> NoDate, title |-> "Start carpool", button |-> FALSE, cancelButton |-> FALSE,
   hud |-> FALSE, route |-> FALSE, routing |-> FALSE, navigating |-> FALSE]

PlanInit ==
  /\ plans = [u \in Users |-> NoDate] /\ routes = [u \in Users |-> "none"]
  /\ signedIn \in Users
  /\ screen = FreshScreen
  /\ observers = [u \in Users |-> 0] /\ known = [u \in Users |-> FALSE]
  /\ write = NoWrite /\ queue = <<>>
  /\ made = [writes |-> 0, appearances |-> 0, ends |-> 0, signOuts |-> 0, refused |-> FALSE]

-----------------------------------------------------------------------------
(* The database as this screen uses it. *)

(* What observers of a driver's plan are shown: a pending write or what    *)
(* the server said; nothing as long as neither is there.                   *)
Pending(u) == write # NoWrite /\ write.user = u
Local(u)   == IF Pending(u) THEN write.date ELSE plans[u]
Shown(u)   == Pending(u) \/ known[u]

SnapshotsOfAny(n, date) == [i \in 1..n |-> [type |-> "plan", date |-> date]]

(* Each registration hears a value on its own.  One of no plan is dropped  *)
(* (DriverViewController.swift:115).                                       *)
Snapshots(n, date) ==
  IF date = NoDate THEN <<>> ELSE [i \in 1..n |-> [type |-> "plan", date |-> date]]

SendWrite(kind, date) ==
  /\ made.writes < MaxWrites
  /\ made' = [made EXCEPT !.writes = @ + 1]
  /\ write' = [kind |-> kind, user |-> signedIn, date |-> date, state |-> "sent"]
  /\ queue' = IF Shown(signedIn) /\ Local(signedIn) = date THEN queue
              ELSE queue \o Snapshots(observers[signedIn], date)

ServerDecides ==
  /\ write.state = "sent"
  /\ \E ok \in WriteOutcomes :
       /\ write' = [write EXCEPT !.state = IF ok THEN "granted" ELSE "denied"]
       /\ plans' = IF ok THEN [plans EXCEPT ![write.user] = write.date] ELSE plans
  /\ UNCHANGED <<routes, signedIn, screen, observers, known, queue, made>>

ListenAnswered(u) ==
  /\ observers[u] > 0 /\ ~known[u]
  /\ known' = [known EXCEPT ![u] = TRUE]
  /\ queue' = IF Pending(u) THEN queue ELSE queue \o Snapshots(observers[u], plans[u])
  /\ UNCHANGED <<database, signedIn, screen, observers, write, made>>

(* What a denied write had shown is taken back before it completes.        *)
WriteAnswered ==
  /\ write.state \in {"granted", "denied"}
  /\ \A u \in Users : observers[u] > 0 => known[u]
  /\ LET back == IF plans[write.user] = write.date THEN <<>>
                 ELSE Snapshots(observers[write.user], plans[write.user])
     IN queue' = Append(queue \o back, [type |-> write.kind, ok |-> write.state = "granted"])
  /\ write' = NoWrite
  /\ UNCHANGED <<database, signedIn, screen, observers, known, made>>

(* The process ends, and starts again.  A write on its way may arrive.     *)
Restart ==
  /\ screen' = FreshScreen
  /\ observers' = [u \in Users |-> 0] /\ known' = [u \in Users |-> FALSE]
  /\ write' = NoWrite /\ queue' = <<>>

(* History: what the screen was told last. *)
TellRefused(refused) == made' = [made EXCEPT !.refused = refused]

EndProcess ==
  /\ made.ends < MaxEnds
  /\ made' = [made EXCEPT !.ends = @ + 1, !.refused = FALSE]
  /\ \/ UNCHANGED plans
     \/ write.state = "sent" /\ plans' = [plans EXCEPT ![write.user] = write.date]
  /\ Restart
  /\ UNCHANGED <<routes, signedIn>>

-----------------------------------------------------------------------------
(* Taps reach the screen unless the progress indicator or the navigation   *)
(* covers it.  The other tabs stay within reach of the first.              *)
CanTap == ~screen.hud /\ ~screen.navigating

WithPlannedUI(s) == [s EXCEPT !.title = "Start now", !.cancelButton = TRUE]
WithoutPlannedUI(s) == [s EXCEPT !.title = "Start carpool", !.cancelButton = FALSE]

Appear ==
  /\ ~screen.navigating /\ signedIn # NoUser
  /\ made.appearances < MaxAppearances
  /\ made' = [made EXCEPT !.appearances = @ + 1]
  /\ observers' = [observers EXCEPT ![signedIn] = @ + 1]
  /\ queue' = IF Shown(signedIn) THEN queue \o Snapshots(1, Local(signedIn)) ELSE queue
  /\ UNCHANGED <<database, signedIn, screen, known, write>>

(* A place found in the search shows the button before it has a route.     *)
ChooseDestination ==
  /\ CanTap
  /\ \E searched \in BOOLEAN :
       screen' = [screen EXCEPT !.hud = TRUE, !.routing = TRUE, !.button = @ \/ searched]
  /\ UNCHANGED <<database, signedIn, client, made>>

RouteFound ==
  /\ screen.routing /\ TRUE \in RouteOutcomes
  /\ screen' = [screen EXCEPT !.routing = FALSE, !.route = TRUE, !.button = TRUE, !.hud = FALSE]
  /\ UNCHANGED <<database, signedIn, client, made>>

(* The progress indicator stays up. *)
RouteNotFound ==
  /\ screen.routing /\ FALSE \in RouteOutcomes
  /\ screen' = [screen EXCEPT !.routing = FALSE]
  /\ UNCHANGED <<database, signedIn, client, made>>

PickDate ==
  /\ CanTap /\ screen.button
  /\ \E date \in Dates : screen' = [screen EXCEPT !.date = date, !.title = "Save carpool"]
  /\ UNCHANGED <<database, signedIn, client, made>>

(* onCarpoolTap with a date, whatever the button says, and without one.    *)
SavePlan ==
  /\ CanTap /\ screen.button /\ screen.route /\ signedIn # NoUser
  /\ screen.date # NoDate
  /\ screen' = [screen EXCEPT !.hud = TRUE]
  /\ SendWrite("save", screen.date)
  /\ UNCHANGED <<database, signedIn, observers, known>>

StartCarpool ==
  /\ CanTap /\ screen.button /\ screen.route /\ signedIn # NoUser
  /\ screen.date = NoDate
  /\ screen' = [screen EXCEPT !.navigating = TRUE]
  /\ routes' = [routes EXCEPT ![signedIn] = "driven"]
  /\ UNCHANGED <<plans, signedIn, client, made>>

CancelWithoutHud ==
  /\ CanTap /\ screen.cancelButton
  /\ IF signedIn = NoUser
     THEN Restart /\ TellRefused(FALSE)
     ELSE /\ screen' = [screen EXCEPT !.date = NoDate]
          /\ SendWrite("remove", NoDate)
          /\ UNCHANGED <<observers, known>>
  /\ UNCHANGED <<database, signedIn>>

(* didTapCancelPreplannedCarpool; after a sign-out the unwrap fails.       *)
CancelPlan ==
  /\ CanTap /\ screen.cancelButton
  /\ IF signedIn = NoUser
     THEN Restart /\ TellRefused(FALSE)
     ELSE /\ screen' = [screen EXCEPT !.date = NoDate, !.hud = TRUE]
          /\ SendWrite("remove", NoDate)
          /\ UNCHANGED <<observers, known>>
  /\ UNCHANGED <<database, signedIn>>

DismissAndForgetPlan ==
  /\ screen.navigating
  /\ screen' = [screen EXCEPT !.navigating = FALSE, !.button = FALSE, !.date = NoDate]
  /\ routes' = [routes EXCEPT ![signedIn] = "none"]
  /\ UNCHANGED <<plans, signedIn, client, made>>

DismissNavigation ==
  /\ screen.navigating
  /\ screen' = [screen EXCEPT !.navigating = FALSE, !.button = FALSE]
  /\ routes' = [routes EXCEPT ![signedIn] = "none"]
  /\ UNCHANGED <<plans, signedIn, client, made>>

SignOut ==
  /\ signedIn # NoUser /\ ~screen.navigating
  /\ made.signOuts < MaxSignOuts
  /\ made' = [made EXCEPT !.signOuts = @ + 1]
  /\ signedIn' = NoUser
  /\ UNCHANGED <<database, screen, client>>

SignIn ==
  /\ signedIn = NoUser
  /\ signedIn' \in Users
  /\ UNCHANGED <<database, screen, client, made>>

-----------------------------------------------------------------------------
(* The main thread takes the next call from its queue. *)

Takes(type) == queue # <<>> /\ Head(queue).type = type

(* Mutant: the date is kept, and the buttons stay as they are.             *)
HearDateOnly ==
  /\ Takes("plan")
  /\ screen' = [screen EXCEPT !.date = Head(queue).date, !.button = TRUE]
  /\ queue' = Tail(queue) /\ TellRefused(FALSE)
  /\ UNCHANGED <<database, signedIn, observers, known, write>>

(* Mutant: a snapshot takes the indicator down.                            *)
HearPlanAndDismiss ==
  /\ Takes("plan")
  /\ screen' = WithPlannedUI([screen EXCEPT !.date = Head(queue).date, !.button = TRUE,
                                            !.hud = FALSE])
  /\ queue' = Tail(queue) /\ TellRefused(FALSE)
  /\ UNCHANGED <<database, signedIn, observers, known, write>>

HearPlan ==
  /\ Takes("plan")
  /\ screen' = WithPlannedUI([screen EXCEPT !.date = Head(queue).date, !.button = TRUE])
  /\ queue' = Tail(queue) /\ TellRefused(FALSE)
  /\ UNCHANGED <<database, signedIn, observers, known, write>>

(* The completions of addPreplannedCarpool and removePreplannedCarpool go  *)
(* on after an error: with the route of whoever is signed in by then, and  *)
(* with a second call back, without the error.                             *)
Complete(type, route, after) ==
  /\ Takes(type)
  /\ IF signedIn = NoUser
     THEN Restart /\ TellRefused(FALSE) /\ UNCHANGED routes
     ELSE /\ TellRefused(type = "remove" /\ ~Head(queue).ok)
          /\ routes' = [routes EXCEPT ![signedIn] = route]
          /\ screen' = [after EXCEPT !.hud = FALSE]
          /\ queue' = Tail(queue)
          /\ UNCHANGED <<observers, known, write>>
  /\ UNCHANGED <<plans, signedIn>>

PlanSavedIfGranted ==
  \/ Takes("save") /\ Head(queue).ok /\ Complete("save", "planned", WithPlannedUI(screen))
  \/ /\ Takes("save") /\ ~Head(queue).ok
     /\ queue' = Tail(queue)
     /\ UNCHANGED <<database, signedIn, screen, observers, known, write, made>>

PlanSaved == Complete("save", "planned", WithPlannedUI(screen))
PlanRemoved == Complete("remove", "none", WithoutPlannedUI(screen))

-----------------------------------------------------------------------------
Taps ==
  \/ ChooseDestination \/ PickDate \/ SavePlan \/ StartCarpool \/ CancelPlan
  \/ DismissNavigation

Deliveries == HearPlan \/ PlanSaved \/ PlanRemoved

PlanNext ==
  \/ Taps \/ Appear \/ SignOut \/ SignIn \/ EndProcess
  \/ RouteFound \/ RouteNotFound
  \/ ServerDecides \/ WriteAnswered \/ \E u \in Users : ListenAnswered(u)
  \/ Deliveries

PlanSpec == PlanInit /\ [][PlanNext]_vars

(* The database answers (DatabaseClient's WritesComplete and               *)
(* ObserversCatchUp), and the main thread works its queue off.             *)
PlanFairSpec ==
  /\ PlanSpec
  /\ WF_vars(ServerDecides) /\ WF_vars(WriteAnswered)
  /\ \A u \in Users : WF_vars(ListenAnswered(u))
  /\ WF_vars(Deliveries)

-----------------------------------------------------------------------------
(* Properties. *)

(* The screen, the nodes and the queue hold what their types say.          *)
Messages ==
  [type : {"plan"}, date : Dates] \union [type : {"save", "remove"}, ok : BOOLEAN]

PlanTypeOK ==
  /\ plans \in [Users -> OptionalDate] /\ routes \in [Users -> {"none", "planned", "driven"}]
  /\ signedIn \in Users \union {NoUser}
  /\ screen \in Screen
  /\ observers \in [Users -> Nat] /\ known \in [Users -> BOOLEAN]
  /\ write = NoWrite \/ write \in [kind : {"save", "remove"}, user : Users, date : OptionalDate,
                                  state : {"sent", "granted", "denied"}]
  /\ queue \in Seq(Messages)

(* The progress indicator is the lock of the screen: while it is down, no  *)
(* write, completion or route is awaited, whoever has signed out or in     *)
(* since, whatever was denied and however often a completion calls back.   *)
(* onCarpoolTap and didTapCancelPreplannedCarpool rest on it.              *)
Awaited ==
  \/ write # NoWrite \/ screen.routing
  \/ \E i \in 1..Len(queue) : queue[i].type # "plan"

IndicatorCoversCalls == Awaited => screen.hud

(* A driver under way is found by riders: no late completion of a cancelled*)
(* plan takes the route of the navigation that began after it.             *)
NavigatedRouteIsPublished == screen.navigating => routes[signedIn] = "driven"

(* While the button says "Start now" a plan is there, or on its way out:   *)
(* snapshots, completions and the end of a navigation, in any order, never *)
(* leave the screen of a plan without the plan.                            *)
Removing == write.kind = "remove" \/ \E i \in 1..Len(queue) : queue[i].type = "remove"

StartNowHasPlan == screen.title = "Start now" => screen.date # NoDate \/ Removing

(* A stored plan comes up on the screen of its driver, with the button     *)
(* that cancels it.  Left out is what follows a refused cancellation: the  *)
(* plan that could not be removed is heard again, but the completion that  *)
(* comes after it takes it off the screen, where it stays off until the    *)
(* next snapshot.  So is a phone that changes hands: there the next driver *)
(* cancels the plan on the screen, in another node.                        *)
StoredPlanReachesTheScreen ==
  \A u \in Users :
    plans[u] # NoDate /\ observers[u] > 0
      ~> \/ screen.cancelButton /\ screen.date # NoDate
         \/ plans[u] = NoDate \/ observers[u] = 0
         \/ made.refused \/ made.signOuts > 0

(* Saving and cancelling end, and give the screen back.                    *)
PlanCallsEnd == write # NoWrite ~> ~screen.hud
=============================================================================
