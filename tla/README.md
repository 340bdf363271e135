# share1car: a verification project

share1car is an iOS app with which a *driver* who is navigating by Mapbox picks
up a *rider* on the way.  There is no server logic of its own: both apps read
and write a Firebase realtime database, ask Firestore for user details and
Mapbox for routes, and a cloud function pushes notifications.  The whole
protocol — request, answer, detour, cancellation, pick-up — is therefore spread
over callbacks on two phones.  This project models that protocol, checks it
with TLC and proves with TLAPS the safety of each side, of both together, and of the database client below
them.  Around it stand the *session* (accounts that sign in and out of one phone, the token that lets
notifications reach them, their settings), the *plan* of a carpool for
later, and below it the *database client* the repository carries in its `Pods`, on whose
promises everything else rests.

Paths below are relative to `src/share1car/share1car/`.

## 1. Inventory of the system

| Component | State it keeps | Operations | Interacts with | Modelled in |
|---|---|---|---|---|
| Driver's carpool, `managers/CarpoolAcceptManager.swift` | `currentCarpoolRequest`, `currentCarpoolRequestRiderID`, `originalRoute`, the alert and the badge | `configureAndStartSubscriptions`, `processStatus`, `processNewCarpoolRequest` (three calls in a row), `acceptCarpoolRequest`, `rejectCarpoolRequest`, `resetToOriginalRoute`, pick-up confirmation | database (observer and writes), details store, routing, the navigation | `DriverClient` |
| Rider's carpool, `managers/CarpoolSearchManager.swift` | `currentCarpoolSearchResult`, `activeCarpoolAcceptStatus`, `didShowCarpoolPickUpAlert`, `bulletinManager`, the badge | `findCarpool` and its chain of calls, `sendCarpoolRequest`, `processStatus`, `cancelCarpool`, `clearCarpoolData`, proximity alert, clean-up | database, details store, routing, notifications | `RiderClient` |
| Driver's database access, `managers/DriverDataManager.swift` | nothing but its observers | `setRideAccept`, `setRouteRequest`, `deleteRouteRequest`, `setRoute`, `removeRoute`, `setCurrentLocation`, observation of requests; the plan of a carpool with its route | the nodes below | `CarpoolDatabase`, `DriverPlan` |
| Rider's database access, `managers/RiderDataManager.swift` | `liveDriversRoutes`, `liveDriversLocations` | `requestCarpool`, observation of answers, `cancelCarpool`, `clearCarpoolData` (two writes each), maps of routes and positions | the nodes below | `CarpoolDatabase`, `RiderClient` |
| The database (external) | `RouteRequests/<driver>`, `RideAccepts/<rider>`, `DriverRoutes/<driver>`, `DriverLocations/<driver>`, observers and undelivered snapshots | write, observe | both apps | `CarpoolDatabase` |
| Values, `Utilities/Models.swift` | — | status enumerations, request, search result | all managers | `CarpoolData`, record types of the clients |
| Driver's screen, `DriverViewController.swift` | whether a navigation is on screen, the chosen route and date, the buttons, the progress indicator | start, progress, arrival and dismissal of a navigation; destination search; saving, starting and cancelling a plan | accept manager, database | `DriverClient`, `DriverPlan` |
| Rider's screen, `RiderViewController.swift` | progress indicator, map annotations | map tap → `findCarpool` | search manager | `RiderClient` (indicator only) |
| User details and profile, `managers/DataManager.swift` | — | `getUserDetails` and its error paths; profile and token writes, pictures | Firestore, database, storage | outcomes of calls; `Session` |
| Notifications, `AppDelegate.swift`, `managers/NotificationsManager.swift`, `Utilities/Converters.swift` | — | `processStatus` from a push; registration of the token; the permission | cloud function, messaging service, system settings | `RiderClient` (`SendPush`, `PushReceived`), `Session` |
| Bulletins and badges, `Views/`, `Utilities/BulletinDataSource.swift` | page or badge on screen | buttons | managers | which one is up, and whether its manager still refers to it |
| Session, `managers/AuthManager.swift` | user id in `UserDefaults`, Firebase Auth's sign-in in the keychain | sign-in and its callback, sign-out | all managers | `Session` |
| Persistent settings, `managers/UserSettingsManager.swift` | token, permission, picture address, mark of the first launch, distances | getters, setters, two clearances | all managers | `Session` (without the distances) |
| Onboarding, `managers/OnboardingManager.swift`, `Utilities/ImagePicker.swift` | one completion block, marks of overlays seen | gates on a map tap, picture page, one-time overlays | screens, session | `Session` (gates and picture page) |
| Settings screen, `SettingsViewController.swift` | `userID` it was last shown for | appearance, sign-out, save | session, profile | `Session` |
| Location, `managers/LocationManager.swift` | last position | permission, position | screens | not planned |
| Price, `Utilities/PriceCalculation.swift` | — | price of a distance | suggestion page | `Price` |
| Forms and views (feedback, search table, tab bar) | — | input and output | — | not planned |
| Database client, `Pods/FirebaseDatabase` | pending writes, the view of a node, the connection with its outstanding requests | `set`, `update`, observation, answers, reconnection | all managers; the database server | `DatabaseClient`, `ConsistentView` |
| Other `Pods`, `vendor` | — | third-party | — | by how the managers use them |

### What is hard in it

* **Everything is a callback.**  Handlers run on the main queue one at a time,
  but a chain such as details → time → distance (`CarpoolAcceptManager.swift:307-345`)
  gives other handlers a chance between any two of its steps, and each step
  reads the manager's fields as they are *then*.
* **One node, many writers.**  All riders who ask a driver write the same
  `RouteRequests/<driver>`; cancellation and clearance do not look at whose
  request they hit (`RiderDataManager.swift:64-113`).
* **Observers pile up.**  Nothing is ever un-observed; each navigation and each
  request adds a registration, and every later write is heard once more.
* **Two-step writes.**  Cancellation and clearance write the second node in the
  completion of the first.  Either write may be denied; when the second is, the answer comes back,
  is heard again, and the completion is called once more (`RiderDataManager.swift:35-40`, `70-75`).
* **Crashes.**  Forced casts and unwraps end the process; memory is lost, nodes stay
  (there is no `onDisconnect`), see the TODO at `CarpoolSearchManager.swift:25`.
* **Notifications** repeat an answer, late or after a clean-up, naming no driver.
* **Calls outlive the session that made them.**  Tokens, uploads and picture lookups
  answer after a sign-out or another account's sign-in, and read the settings as they are then.
* **State in four places ends apart**: the process's memory (kill), `UserDefaults`
  (installation, sign-out), the keychain (sign-out only) and the database.  A sign-out itself is
  several writes, first to the keychain, then to `UserDefaults` (`AuthManager.swift:128-133`).
* **Pages and badges replace each other**, and a new `BLTNItemManager` forgets the
  page of the one before.
* **The progress indicator is a lock.**  The plan's screen is written by taps, by snapshots of
  every earlier appearance and by completions that go on after an error (a `return` is
  missing in `DriverDataManager.swift:112-118` and `126-132`) for whoever is signed in by then.
* **The database client is optimistic.**  It shows a write before the server has it, keeps a
  tree of overlapping pending writes, updates its view piece by piece, holds answers back
  behind unanswered listens and repeats writes over a new connection.

The `hazards` of `PROJECT.json` list these at their lines, with the property that
would catch each going wrong, or the reason why none does yet.

### What makes each component correct

* Driver: only riders who asked are answered or get a detour; the published route is the
  one driven; a position is only published with a route, and not after the
  navigation; a request comes up; an accepted one is answered.
* Rider: the search's calls belong to one driver; an accepted ride can be cancelled; a
  rejection or cancellation ends in a clean manager.
* Session: the app and Firebase never take two different accounts for signed in, and only a sign-out
  the end of the process cut short leaves a session without a sign-in; a session ends by a
  sign-out only; the phone of a signed-in account is registered for it, and is again after a
  lost registration; the saved permission is the real one.
* Plan: a call under way is covered by the indicator; a driver under way has its route
  published; a stored plan reaches the screen, with its date and the button that cancels it; saving
  and cancelling end.
* Database client: observers see the server's states in order under the app's own pending
  writes; each write completes, once what it did has been heard.
* Protocol: an accepting answer reaches the rider; requests are prepared one at a
  time, and the alert names the rider the detour leads to, unless a cancellation meets a call
  in flight; the two sides give each other only what each was checked against.

## 2. Modules

```
CarpoolData            values and pure operators
  └ CarpoolDatabase    nodes, observers, queues; the two DataManagers' writes
      ├ CarpoolDatabaseProofs                lemmas both apps' proofs use
      ├ DriverClient   driver's app + any riders' side      MCDriverClient
      │   └ DriverClientProofs
      ├ RiderClient    rider's app + any drivers' side      MCRiderClient
      │   └ RiderClientProofs
      └ Carpool        = DriverClient + RiderClient          MCCarpool
          └ CarpoolProofs

DatabaseValues         a node, its writes
  ├ ConsistentView     what an app may rely on (abstract)
  └ DatabaseClient     pending writes, view, connection     MCDatabaseClient
      └ DatabaseClientProofs ─ SequenceFolds  (folds and induction over sequences)

DriverPlan             the screen of a planned carpool
  └ DriverPlanProofs

Session                one phone, its accounts              MCSession
  └ SessionProofs

Price                  the driver's fee (its theorems end RiderClientProofs)
```

`DriverClient` and `RiderClient` are *open* components: each contains the whole of
one app and, as its environment, everything the other side could write.
`Carpool` composes the two apps over one database and is shown to implement both
open components (`DriversMeetTheirRiders`, `RidersMeetTheirDrivers`): the environment of
each is an abstract specification of the other app, and what is checked or proved of an open
component holds of the composition.  There the bounds of the open components are `Unbounded`, a value
every number is below (`Bounds`, `\prec` in `CarpoolData`): how often a user of the composition acts is
bounded, how often an environment that stands for it acts is not.

`Carpool` adds one variable of its own, the history `interrupted`: the drivers at whom a cancellation has met a
call in flight, until the app is quiet again.  It was found necessary by a proof attempt.  With three riders,
the chain of calls of `processNewCarpoolRequest` is *not* alone: an accepted rider cancels while the second
rider's request is being prepared, `riderCancelled` resets the status that would have made the app ignore
the third, whose request then starts a second chain; its details arrive in the request of the other, and the alert may name
one rider over a detour for another.  Two riders, all that TLC was given, are too few for it.

**CarpoolData.**  A trip is identified with its rider and a route with the rider it
makes a detour for (`NoRider`: the route the driver started with).  Coordinates, names and
times are left out.  `IsFiltered` and `FailsForcedCast` are the two conditions of
the request observer's callback (`DriverDataManager.swift:44-77`).

**CarpoolDatabase.**  A write commits at once and appends one snapshot for each
registration; a delivery is a step of its own, in order.  Local echo is covered
by that: an app hears its own writes like anyone's.  An unchanged node raises no event;
an answer carries its time, so it always does.  The removal of an answer
(`removeRideAccept`) may be denied: the app's own registrations then hear the answer once more, and the
completion with the error is queued behind these snapshots (`removeRideAcceptDenied`; the entry whose answer is
`NoAnswer`).  That the client takes the denied write back when it is made, and not some time later, is
an abstraction: the snapshots of the removal itself are skipped by the app's observer, and other answers may be
queued before and after.

**DriverClient.**  `driver[d]` holds the manager's fields, what is on screen and
the calls in flight as counters (a counter is enough: what a call will store is
determined by its kind and, for details and detours, by the rider it was made for).

| Code | Action |
|---|---|
| `configureAndStartSubscriptions`, start of the navigation | `StartCarpool` |
| `navigationViewControllerDidDismiss` | `DismissNavigation` |
| `navigationViewController(_:didUpdate:with:rawLocation:)` and `carpoolShouldUpdateBadge…` | `NavigationProgress` |
| arrival at the waypoint, `showPickUpConfirmation` | `ArriveAtPickUp` |
| request observer + `processStatus` | `RequestEvent` = `HearRequested`, `HearAcceptedOrConfirmed`, `HearRiderCancelled`, `HearCancelled`, `HearNothingNew` |
| `processNewCarpoolRequest` | `DetailsFetched`, `TimeFetched`, `DistanceFetched` |
| buttons of the alert and badge | `TapAccept`, `TapReject`, `TapCancelOnBadge` |
| completion of `acceptCarpoolRequest` | `AcceptRouteReady`, `AcceptRouteFails` |
| process | `QuitDriverApp`, `LaunchDriverApp`, `DriverCrashes` inside the handlers that unwrap |

`onDidReceiveData` (`CarpoolAcceptManager.swift:264-270`) has no action: it starts observing only while
`isObservingDriverRequests` is false.  The manager is a lazy `static let` that `DriverViewController.swift:360` is the
first to touch, by the call of `configureAndStartSubscriptions` that sets this flag on the main thread, and nothing
resets it; so no push finds the manager without its observer.

**RiderClient.**  `rider[r]` likewise; a search is a single record because the progress
indicator (or `FindCarpool`'s named bound) allows one at a time.

| Code | Action |
|---|---|
| observers of routes and positions | `MapRoutesEvent`, `MapLocationsEvent` (with the proximity alert) |
| `findCarpool` … `calculateRideDistance` | `FindCarpool`, `SearchDetailsFetched`, `PlanFetched`, `DriverRouteFetched`, `WalkingRouteFetched`, `RideDistanceFetched` |
| `sendCarpoolRequest` | `TapSend` |
| `cancelCarpool` from its three buttons | `TapCancelSuggestion`, `TapCancelRide`, `TapCancelProximity` |
| `processStatus` from an observer or a push | `AcceptEvent`, `PushReceived` over `ProcessAccepted`, `ProcessRejected`, `ProcessConfirmed`, `ProcessArrived`, `ProcessKnown` |
| completion of the first write, which makes the second | `WriteCompletes` (`SecondWrite`) |
| completion of a second write that was denied | `RemovalIsDenied` |
| cloud function (external) | `SendPush` |

Both completions clean the manager up (`CleanedUp`), whatever it has begun since: a search whose calls are
in flight, or the next ride.  A clean-up takes the destination of the result along, which the observer of routes
unwraps to draw the route of the result's driver (`CarpoolSearchManager.swift:466-469`): the search then fills the
driver in again without it, and the next change of that route ends the app (`CannotDraw` in `MapRoutesEvent`; a published
route keeps its driver and not its course in `rider[r]`, so such a change may come at any time).

**Session.**  One installation and the accounts that use it, apart from the protocol
(which takes the signed-in account for granted).  `defaults` is `UserDefaults`, `auth` the
sign-in Firebase keeps, `app` the memory of the process with its calls in flight, `unsent` the
database writes that only exist in memory, in order.  A node of `user_data` is reduced to its
token, a picture address to the account it belongs to.  `unregistered` is a history
variable: the node was replaced by a save, or a write to it was lost with the process, since the phone was last
registered.  So is `cutShort`: the process ended in the middle of a sign-out, before the session was removed.

| Code | Action |
|---|---|
| `didFinishLaunching`, the tab bar's first appearance | `Launch` |
| end of the process, (re)installation (external) | `Kill`, `ProcessEnds`, `Reinstall` |
| sign-in screen (external), `authUI(_:didSignInWith:error:)` | `AccountSignsIn`, `SignInFails`, `DidSignIn` |
| `didTapLogout`, `logout`, `clearUserData` | `Logout`; `LogoutIsCutShort` when the process ends between the keychain and the settings |
| `messaging(_:didReceiveRegistrationToken:)`, `instanceID` callback | `TokenChanges` (external), `TokenReceived`, `InstanceIDAnswers`, `InstanceIDFails` |
| permission, `registerForNotifications`, `checkNotificationsStatus` | `PermissionChanges` (external), `TapSubscribe`, `AnswerPrompt`, `StatusChecked` |
| `showOnMapTapOnboardingReturning` | `AskForSignIn`, `AskOnMapTap` |
| image picker, `updateUserPhoto`, `getUserPhotoURL` | `LeavePage`, `PickPicture`, `UploadCompletes`, `UploadFails`, `PictureFound`, `PictureNotFound` |
| settings screen | `ShowSettings`, `Save`, `SaveForNobody` |
| database client (external) | `WriteSent` |

Left out of it: other phones of the same account, the phone-number page of a new account,
the overlays, changes of the permission in the system's settings while the app runs.

**DatabaseClient.**  The client of one node with a child at each of `Keys`: `allWrites` and
`visibleWrites` are `FWriteTree`'s, `view` is `FViewCache`'s two caches, `outstandingPuts`,
`putsToAck` and `connection` are `FPersistentConnection`'s fields.  The repo's serial queue makes
each handler atomic.  A written value is the number of the write, so that two writes are never
mistaken for each other.  The server (external) answers writes in order, tells an active
listener of a change before it answers the write that made it, and may answer a listen later.

| Code | Action or operator |
|---|---|
| `FRepo.set`, `FRepo.update` | `WriteData` |
| `FRepo.addEventRegistration` (`FSyncTree`, `FSyncPoint`) | `Observe` |
| `FWriteTree.addWrite…`, `removeWriteId`, `layerTreeFromWrites` | `addWrite`, `VisibleWithout`, `layerTreeFromWrites` |
| `FViewProcessor` | `applyUserWrite`, `applyServerUpdate`, `ackUserWriteOn`, `revertUserWriteOn`, `listenComplete` |
| `tryScheduleReconnect`, its timer and token | `RetryFires`, `TokenFetched`, `TokenFails` |
| `onReady`, `restoreAuth`, `restoreState` | `Ready`, `AuthAnswered`, `restoreState` |
| `onDisconnect`, `onKill` | `ConnectionLost`, `Killed` |
| answers to `sendPut`, `sendListen`; `onDataUpdate` | `PutAnswered`, `ListenAnswered`, `DataPushed` |
| server, other clients, process (external) | `HandleAuth`, `HandlePut`, `HandleListen`, `AnswerListen`, `ForeignWrite`, `EndProcess` |

`ConsistentView` is the abstract specification: a log of the node's states, the app's pending
writes, and a place in the log that only moves forward.  `DatabaseClient` implements it
(`ViewIsConsistent`).  It justifies what `CarpoolDatabase` and `DriverPlan` take for granted:
values are heard in order, an app hears its own writes at once and a denied one is taken back,
a write completes after every listen has been answered.  It does *not* justify two
simplifications of `CarpoolDatabase`: each write commits once there, whereas a write whose answer
was lost is sent again and may then overwrite what another client wrote after it; and observers
always go on, whereas those revoked at a sign-out are not registered again
(`FPersistentConnection`'s "TODO: revoke listens").

Two things its code relies on became visible.  `removeWriteId` is right only because answers come in
the order of the writes.  And the assertion that `unackedListensCount` is not negative can
never fail, since the field is unsigned; `DatabaseTypeOK` checks the range instead.

**DriverPlan.**  `screen` holds `DriverViewController`'s fields, `plans` and `routes` the nodes
`DateTime/<driver>` and `DriverRoutes/<driver>` of one phone's users, `queue` the snapshots and
completions on their way to the main thread; `made.refused` is a history variable: the last cancellation the
screen was told of was denied.  The progress indicator (`JGProgressHUD`, not in the
repository) is taken to keep touches from the screen it covers; the tab bar stays in reach.

| Code | Action |
|---|---|
| `viewDidAppear`, its observer's callback | `Appear`, `HearPlan` |
| `requestRouteOptions` and its callback | `ChooseDestination`, `RouteFound`, `RouteNotFound` |
| `carpoolDatePickerChanged` | `PickDate` |
| `onCarpoolTap` | `SavePlan`, `StartCarpool` |
| `didTapCancelPreplannedCarpool` | `CancelPlan` |
| completions of `addPreplannedCarpool`, `removePreplannedCarpool` | `PlanSaved`, `PlanRemoved` |
| `navigationViewControllerDidDismiss` | `DismissNavigation` |
| `didTapLogout`, sign-in | `SignOut`, `SignIn` |
| database (external, as `DatabaseClient` has it) | `ServerDecides`, `ListenAnswered`, `WriteAnswered` |
| process (external) | `EndProcess`, `Restart` inside the handlers that unwrap |

What the model shows of this screen beyond its properties: a plan puts "Start now" on the button
(`DriverViewController.swift:393`), but with a date chosen `onCarpoolTap` saves it
once more (`:335`) and starts nothing; a denied cancellation leaves the title "Start carpool" and no
cancel button over a stored plan, until the next snapshot of it (`:374-383`); without a route the indicator stays up for good (`:247`); each appearance
adds an observer; a process that ends between the commit of a plan and its completion leaves a plan without a route.

**Price.**  `driverFeeForDistance` in exact arithmetic over whole metres.

Definitions under a comment *Mutant*, and those named for the fault they have next to the definition
they vary, are faulty variants used to show that a property can fail; they are
used nowhere in the specifications.

## 3. What the runs check

Passing runs:

| Run | Instance | Properties | What it shows |
|---|---|---|---|
| `driver_outcomes` | 1 driver, 1 rider, every outcome of every call, every status, 2 navigations per life, quit and launch | `DriverTypeOK`, `PublishedRouteIsDriven`, `LocatedDriverHasRoute` | detours, resets and late routing answers never separate the published route from the driven one; a crash never leaves a position without a route |
| `driver_riders` | 1 driver, 2 riders, calls always answered, with complete or incomplete details, fair callbacks | `OnlyAskersAreServed`, `NoPositionAfterNavigation`, `RequestReachesTheScreen`, `AcceptLeadsToAnAnswer` | riders overwriting each other's requests never make the driver serve a stranger; the chain of calls ends in an alert, a tap on Accept in an answer |
| `rider_outcomes` | 1 rider, 2 drivers, every outcome, every answer, crashes | `RiderTypeOK`, `AcceptedRideCanBeCancelled`, `SearchFillsItsOwnResult` | the badge, suggestion and proximity pages never leave an accepted rider without a cancel control; searches for two drivers that fail, are dropped or cancelled and follow each other never mix the two in one result |
| `rider_pushes` | 1 rider, 1 driver, 2 requests, every push, either write denied, crash and launch, fair callbacks | `RejectionEndsTheRide`, `CancellationEndsTheRide` | late and repeated notifications, denied writes, an answer heard again and a second completion never leave the manager stuck |
| `carpool` | 1 driver whose app may crash and start again, 2 riders, whole protocol | `AcceptedAnswerReachesRider`, `OneRequestIsPrepared`, `AlertNamesThePickUp`, `DriversMeetTheirRiders`, `RidersMeetTheirDrivers` | the chain of calls and the alert work on one request, though nothing in the driver's app alone ensures it, unless a cancellation meets a call in flight (`interrupted`); an accepting answer is heard; the composition implements both open components |
| `database_view` | 2 children, 2 writes (node, child or all children; value or removal), 1 write by another client, 1 fault | `DatabaseTypeOK`, `VisibleWritesAreLayered`, `EveryPendingWriteIsOnItsWay`, `WireCarriesOutstandingPuts`, `ViewIsServerUnderWrites`, `ViewIsConsistent` | what the client updates piece by piece is what computing it afresh would give; no write is lost, repeated within a connection, or acknowledged out of order; the view is consistent |
| `database_answers` | 2 children, writes of the node and of one child, 1 fault, fair client and server | `WritesComplete`, `ObserversCatchUp` | every path of a reconnection leads to the next attempt, held answers are released, observers end with the server's state |
| `driver_plan` | 2 users of a phone, 2 dates, 3 plans saved or cancelled, 2 appearances, 1 end of the process, 1 sign-out, denied writes, missing routes | `PlanTypeOK`, `IndicatorCoversCalls`, `NavigatedRouteIsPublished`, `StartNowHasPlan`, `StoredPlanReachesTheScreen`, `PlanCallsEnd` | the indicator alone keeps late completions from a navigation's route, and it does; snapshots of several registrations and denied writes leave the date and the cancel button of the stored plan on the screen, unless a cancellation was just refused |
| `session_accounts` | 2 accounts, 2 tokens, kill, sign-outs cut short, reinstallation, fair token callback and writes | `SessionTypeOK`, `SignedInPhoneIsRegistered`, `SessionIsAuthenticated`, `PermissionIsKnown`, `SessionEndsBySignOut`, `LaunchRegistersToken` | late tokens, uploads and lookups of an earlier account never unregister the next one; no end of the process, sign-out or reinstallation makes the session and the sign-in two accounts, and only a sign-out cut short leaves a session without a sign-in; a launch repeats a registration that was lost |

Some properties carry a qualification, stated with them: `AcceptedRideCanBeCancelled`
is about the first request of an app's life and without notifications (a rejection
during a second search leaves a page no manager refers to, over which the pick-up
alert is not shown).  With one request a search ends before anything can be cleared, so `rider_outcomes`
has no clean-up in the middle of a search: `SearchFillsItsOwnResult` is proved for any number of requests
(`SearchKeepsItsDriver`), and TLC found it to hold in an instance with two requests and calls that
succeed (1.4 million states) in which such clean-ups occur.  `NoPositionAfterNavigation` is about the first life of the app (a
relaunched app finds the position its crash left).  `AcceptedAnswerReachesRider` is about the first request of an
app's life, with writes granted and no notifications: a denied cancellation, a late notification of a rejection
or the end of an earlier ride clears the status of an answer that stays at the node.  `OneRequestIsPrepared` and
`AlertNamesThePickUp` are about drivers that are not `interrupted` (section 2).  In `driver_plan`, `StoredPlanReachesTheScreen`
leaves out a phone that changes hands, where the next driver cancels the plan on the
screen in another node, and what follows a refused cancellation: the plan is heard again, but the completion that comes
after it takes it off the screen.  `WritesComplete` and `ObserversCatchUp` leave out a client the server has killed
(`onKill`), which does not reconnect until the process ends.

Violations, each a disagreement between the code and what it says of itself:

| Run | Property | What happens |
|---|---|---|
| `request_after_decline` | `NoRequestIsIgnored` | `rejectCarpoolRequest` leaves `currentCarpoolRequest.status` at `.requested`; `processStatus` then drops the next request. |
| `answer_to_another_rider` | `ShownRiderIsAnswered` | A second rider's snapshot sets `currentCarpoolRequestRiderID` while the alert names the first: the tap answers the second. |
| `cancel_during_accept` | `AcceptedRiderHasAnswer` | Cancel on the badge while the detour is computed: the rider hears `rejected`, then `accepted`, and the clearance of the rejection removes the accepting answer. |

Two more places where the model ends an app (`AcceptEvent`, `PlanFetched`) contradict no
statement of the repository and have no run: after a second request, the second driver's answer also reaches
the observer of the first, whose forced cast (`CarpoolSearchManager.swift:208`) fails; and a rider who
taps a route that was published before the driver's first position fails the cast at
`RiderDataManager.swift:119`.

### Bounds, and why they are enough

`MaxEvents` (undelivered snapshots when a *user* acts), `MaxCalls` (calls of one kind),
`MaxStarts` (navigations per life), `MaxRequests` (requests per life) and `MaxWrites`, and in
`Session` `MaxTokens`, `MaxUnsent` and `MaxCalls`, only
stop users and the environment from adding more; no callback is ever refused by a
bound (`MaxWrites` bounds the taps that cancel and the answers and notifications that arrive, not what a handler does with one).  Those of the carpool are in `Bounds`, a natural number or `Unbounded`.  One driver is enough for what concerns a driver's node, since no handler of a
driver touches another driver's node or answers from its state; two riders are what it takes to
compete for it (the order of events that takes three is in section 2, and the theorems of
section 4 are about any number); two drivers are used where a rider's observers or results
could be mixed up (`rider_outcomes`).  Two starts, with crash and launch,
give doubled observers and a stale node.  A snapshot that waits while another is
written gives every reordering of taps and deliveries; longer queues only repeat it.  In `session_accounts`
two accounts are what it takes for a call to outlive its session into another's, two tokens for a
renewal to race a fetched token, and a queue of a profile write followed by a token write arises
whatever `MaxUnsent` is, since callbacks add to it unbounded.  In `DatabaseClient` two writes are
what it takes to overlap, and one foreign write and one fault (a lost connection, a failed token, a
refused sign-in, a kill or an end of the process) can fall between any two steps;
`database_view` leaves `updateChildValues` of a single child out (of the children it keeps the node,
a child alone, and all at once).  In `DriverPlan` three writes are a plan saved,
cancelled and saved again, two appearances are two registrations, and one sign-out is
what it takes for a completion to find another user.  The theorems of section 4 hold for
all values of these bounds.

Deadlock is checked in `driver_outcomes`, `driver_riders` and `session_accounts`.  It is
switched off in the composition, in the rider's runs, the database client's and `driver_plan`, where a state
with no step is legitimate: every app may have ended, or the users have used up their taps and all is delivered, or the indicator covers the screen for good.

`SYMMETRY` is used only with invariants and with refinements that are safety properties; no definition
of those instances distinguishes one rider, driver or child from another.

### Fairness

Liveness is checked under weak fairness of callbacks alone (`CallbackFairness`,
`RiderFairness`): the main queue delivers what it holds, Firebase and Mapbox
eventually call back (with success or error), and a write's completion is
called (`WriteCompletes`, `RemovalIsDenied`).  That is what the SDKs promise to a running app; a process that ends is allowed at any
time by its own actions where a run enables them.  Users, the other side and
the notification service owe nothing.  `SessionFairness` asks only that the messaging service
calls back in a launch (as its documentation says it does) and that the database client sends what
it holds; a killed process loses both, which `LaunchRegistersToken` allows for.

`DatabaseClient`'s `Fairness` asks for the timer, the token's and the connection's callbacks, for
the server's answers to listens, and that the two queues of a connection are worked off
(`TakesAnswer`, `TakesRequest`: whichever way a request is decided); the bound on faults is what makes a connection
last at some time.  `PlanFairSpec` asks for what `WritesComplete` and `ObserversCatchUp` give — the database answers a write and a listen — and that the main
thread takes what is queued.  Routing owes nothing there.

## 4. What is proved

For every set of drivers and riders, every choice of outcomes, and all bounds, from
the named assumptions on the constants (identities are distinct from the nil
values; outcomes come from the listed sets; bounds are naturals, those of the carpool also `Unbounded`):

The driver (module `DriverClientProofs`):

* `DriverTypeCorrect`: `DriverSpec => []DriverTypeOK`.  One lemma per group of
  actions; the substance is in the queues (`RequestSnapshots`,
  `AcceptSnapshots`, `Head`/`Tail` keep them sequences of nodes) and in the counters, which need
  the guards to stay natural numbers.
* `PublishedRouteCorrect`: `DriverSpec => []PublishedRouteIsDriven`.  The lemma
  `EveryStepIsRouteStep` summarises what any step may do to a driver's navigation, published
  route and position (`RouteKept`, `RouteSet`, `RouteReset`, `NavigationEnded`,
  `RouteRemoved`); the property is inductive over that summary.
* `LocatedDriverCorrect`: `DriverSpec => []LocatedDriverHasRoute`.  Not inductive alone: a
  progress report adds a position, and that there is a route then follows from the theorem before.
* `AskersAreServed`: `DriverSpec => []OnlyAskersAreServed`.  The property says nothing of the places from which a rider's
  identity can still become an answer or a detour, so it is strengthened to `AskersInvariant`:
  every rider in `HeldRiders(d)` — the node, its undelivered snapshots,
  `currentCarpoolRequestRiderID`, the current request, the route, the published
  route, and the detours being computed — has asked `d`.  `AskerStep` is the key: a step of
  the app only moves identities between these places (`HoldsNoOneNew`) and answers only the one
  last heard; new identities enter with the request that puts them in `asked`.  TLC checked
  `AskersInvariant` on the instances of `driver_outcomes` and `driver_riders` first.
* `PositionEndsWithNavigation`: `DriverSpec => []NoPositionAfterNavigation` for a `DriverLifecycle`
  without `"launch"` (a launch finds the position a crash left).  `PositionStep` summarises any
  step: positions only appear under a navigation, and a navigation that ends takes its position along.

The rider (module `RiderClientProofs`):

* `RiderTypeCorrect`, `SearchKeepsItsDriver`: `RiderSpec => []RiderTypeOK` and
  `RiderSpec => []SearchFillsItsOwnResult`, from `RiderInvariant`, which adds the search property to the
  type of every rider's memory: each handler either leaves search and result alone, or cleans
  the result up (`SoundWithSearch`), or goes one stage further for the driver the search began with.
* `AcceptedRideKeepsCancel`: `RiderSpec => []AcceptedRideCanBeCancelled`, assuming one request in
  a life and no notifications (`MaxRequests \in 0..1`, `PushStatuses = {}`), the qualification of section 3.
  The property is not inductive; `FirstRide` adds what keeps it: no page is up that its manager has
  forgotten, a search only runs while no request has been sent and no page is up, and no answer
  is heard before the observer of that request is registered.

The composition (module `CarpoolProofs`), from both sides' types (`CarpoolTypesCorrect`):

* `RequestsArePreparedSingly`, `AlertLeadsToItsRider`: `CarpoolSpec => []OneRequestIsPrepared` and
  `CarpoolSpec => []AlertNamesThePickUp`, for any number of drivers and riders and however often they act.  Nothing in the
  driver's app makes it prepare one request at a time; what does is the order in which the riders' real apps write
  the one node.  So `CarpoolInvariant` says of a driver that is not `interrupted` that it is `Orderly`:
  it is idle, or its calls, alert and current request are all of one request's way (`InPreparation`, `OnScreen`,
  `BeingAccepted`); while it is not idle no accepted request is queued; and a snapshot queued before an
  accepted one is accepted too, or is skipped when it is heard.  The steps are then grouped by what they do to
  one driver (`LeftAlone`, `Ended`, `Queued`, `Heard`), and the riders' steps by what they may write (`RiderWrites`).
* `AcceptanceIsHeard`: `CarpoolSpec => []AcceptedAnswerReachesRider`, assuming `MaxRequests \in 0..1`,
  `PushStatuses = {}` and `WriteOutcomes \subseteq {TRUE}`, the qualification of section 3.  Beside `FirstRide` the invariant
  says that the rider listens to one driver (`ListensToOne`): the node is what the last snapshot on its way
  says or has been emptied; when none is on its way it holds that driver's answer, and the app knows an accepting
  one or is about to remove it.
* `AcceptedRideKeepsCancelInCarpool`: `AcceptedRideCanBeCancelled` against the real drivers' apps.
* `DriversMeetTheirRidersAlways`, `RidersMeetTheirDriversAlways`: `CarpoolSpec => DriversMeetTheirRiders` and
  `CarpoolSpec => RidersMeetTheirDrivers`, without hypotheses on the parameters.  Initial states map to
  initial states and every step to a step or a stutter.  A rider's handler maps to what the driver's environment
  writes to its nodes (a request, a cancellation, a removal) or to nothing.  The converse needs an
  invariant: a driver's app answers whoever the last snapshot named, and the rider's environment may only
  answer those who asked.  `Acquainted` joins `AskersInvariant` with `Addressed`: an app that observes requests, or knows a
  rider, has a route to reset to; it accepts for no one before it has heard of someone; and no node the
  observer's guard would drop is queued.  TLC checked `Addressed` on the composition with quits and launches first.
* `AskersAreServedInCarpool`: `CarpoolSpec => []OnlyAskersAreServed`, from `Acquainted`.

The plan (module `DriverPlanProofs`):

* `PlanTypeCorrect`, `IndicatorIsTheLock`, `NavigationKeepsItsRoute`, `StartNowIsForAPlan`, for
  `PlanTypeOK`, `IndicatorCoversCalls`, `NavigatedRouteIsPublished`, `StartNowHasPlan`, all from `PlanInvariant`.  That the
  indicator covers every call is not inductive, as any completion takes it down: `OneCallAtATime` adds
  that a write, a completion and a route are never awaited together.  A
  navigation then has no completion to fear (`NavigationIsAlone`), and a plan being saved is on the
  screen when the button becomes "Start now" (`PlanIsOnTheScreen`).

The price (module `Price`, theorems at the end of `RiderClientProofs`), for every distance in whole metres: the fee is the basic one at least
(`FeeIsBasicAtLeast`), grows up to 21 km and from there on (`FeeGrowsWithin21Kilometres`), drops at
21 km by five cents less a metre's rate (`FeeDropsAt21Kilometres`: the last band counts from 20 km), and no longer
ride is cheaper by five cents or more (`LongerRideIsHardlyCheaper`).

The session (module `SessionProofs`), for every set of accounts and all bounds:

* `SessionTypeCorrect`: `SessionSpec => []SessionTypeOK`.  A type invariant of records with
  counters per account; each action's lemma also shows that a call that answers was in flight.
* `SessionAuthenticated`: `SessionSpec => []SessionIsAuthenticated`: the session is the sign-in, or there is no
  sign-in and the last sign-out was cut short.  Not inductive: a
  sign-in that has come through but was not called back (`signedIn`) has changed `auth` while the
  old session could still stand.  `SessionInvariant` adds that while the sign-in screen is up there is
  no session, that `signedIn` is `auth` and only under way on that screen, and that settings with a
  session bear the mark of the first launch (a launch would clear them otherwise);
  `SignInStep` proves it step by step.
* `SessionEndsProperly`: `SessionSpec => [][...]` as `SessionEndsBySignOut` states it.  From the
  same invariant: the only step that sets a session, `DidSignIn`, needs the screen that is only up without one.
* `PhoneIsRegistered`: `SessionSpec => []SignedInPhoneIsRegistered`.
  `EveryStepIsRegistrationStep` summarises any step for the account signed in after it: its registration is as
  it was, or its token has been written last, or `unregistered` holds.  `SentRegistration` needs
  `SessionIsAuthenticated`: only a write by someone else can be denied.
* `PermissionKnown`: `SessionSpec => []PermissionIsKnown`.  `PermissionInvariant` adds that, as long
  as the permission is that of the launch, the process runs and the mark of the first launch is
  there, so that neither the system's settings nor a clearance change what was saved.

The database client (module `DatabaseClientProofs`), for every set of keys, every choice of the shapes of
writes and whether they remove data, and any number of writes, foreign writes and faults:

* `ClientShowsConsistentView`: `Spec => ViewIsConsistent`, that is, `DatabaseClient` implements
  `ConsistentView`: observers hear states of the server, never an older one after a newer one, under the
  writes not yet acknowledged.  The place in the log is `view.server.at`.  `StepSimulates` maps every
  action to a step or a stutter: an answer or a push of the server moves the place (`PutAnsweredSyncs`,
  `ListenAnsweredSyncs`, `DataPushedSyncs`), the server's handling of a write appends to the log.
* `WritesStayLayered`, `ViewStaysUnderWrites`: `VisibleWritesAreLayered` and `ViewIsServerUnderWrites`: what
  `FWriteTree` and `FViewProcessor` update piece by piece is what computing it afresh would give.
  `OldestIsTakenOut` is the heart of the first: removing a write takes its children out and layers
  those of the others anew, which gives the layers of the others *if it is the oldest one*.  For a
  later write it is false (an update of several children under the removed one is forgotten), so the first needs
  that answers arrive in the order of the writes, which is `Queued` and `Wired` below.
* `PendingWritesAreOnTheirWay`, `WireCarriesPuts`: `EveryPendingWriteIsOnItsWay` and `WireCarriesOutstandingPuts`: no
  interruption of a reconnection loses a write, doubles it within a connection or answers it out of order.
* `DatabaseTypes`: `Spec => []DatabaseTypeOK`, with the range of the unsigned count of unanswered listens.

All of them follow from `DatabaseInvariant`: `Spec => []DatabaseInv`, whose conjuncts need one another:

| Part | What it adds |
|---|---|
| `Typed` | what each variable holds, with the value a write of each shape may have |
| `Counted`, `Quiet` | the count of unanswered listens is the number of those on the wire, at most two; a connection that is down carries nothing; answers are held back only while a listen is unanswered |
| `Queued`, `Wired` | the pending writes are those with a held answer followed by the outstanding puts, in the order they were made; once connected these are exactly on the wire, answers before requests |
| `Led` | the messages to the client lead it from the state it knows along states of the server's log; the answer to a write is behind the messages that tell of that write, or of a later state |
| `Kept` | what the held answers acknowledge is contained in what the listens on the wire bring |
| `Viewed` | the two caches of the view are the server's node and that node under the visible writes |

TLC checked this invariant as an invariant of two instances of `MCDatabaseClient` (1.65 and 2.86 million states)
before it was proved.  `Led` is where the difficulty is: whether an update of some children may be applied to the
client's cache depends on every message before it, so it speaks of a path `p` through the log, one place per
message; each action extends the path, drops its first step or starts a new one.

The trees of writes and the queues by type are folds.  `FoldLeft` is defined by a recursive function over sets of
positions, so `SequenceFolds` can show without an operator as parameter that a fold over one more element
is the operation applied to the fold (`FoldOfAppend`), once for an operation given as a CONSTANT, and the proofs
instantiate it for each of their four folds.  Induction over sequences is stated over a set of sequences that has the
empty one and is closed under `Append` (`SequenceInduction`), so that it, too, takes no operator.

Only model-checked: liveness under fairness, out of the prover's reach (`RequestReachesTheScreen`,
`AcceptLeadsToAnAnswer`, `RejectionEndsTheRide`, `CancellationEndsTheRide`, `WritesComplete`,
`ObserversCatchUp`, `StoredPlanReachesTheScreen`, `PlanCallsEnd`, `LaunchRegistersToken`).  Every invariant,
action property and refinement that a passing run checks is also a theorem.

## 5. Not modelled, and why

* Of the database client: removal of observers, queries, transactions, persistence, `onDisconnect`, range
  merges and backgrounding; this app uses none of them but single-event observers, whose removal
  leaves the model's registrations as they are.  One consequence of removal was seen in the
  code and is not in the model: answers held in `putsToAck` have no one to release them if the last
  unanswered listen is removed and the connection is then lost.
* The rest of `Pods` (authentication, storage, messaging, gRPC, BoringSSL, Protobuf, …) is third-party code
  of which the app sees calls and callbacks: these are external actions.
* The choice of the driver by walking distance: any driver on the map may be the one.
* The one-time overlays of the onboarding: independent of the protocol, planned.
* `getExistingRoute` and another driver's plan: only their effect on a search (`PlanFetched`).
* Map drawing, texts, distances in the settings, feedback, forms: input, output, layout.
* What an app on another platform may write is limited to the statuses that
  `processStatus` handles on the receiving side (`OtherStatuses`, `OtherAnswers`).

## 6. Plan

Done: all modules of section 2, the runs of section 3, the proofs of section 4.  Next, in order of importance:

1. An abstract `RideHandshake` (asked → answered → ended, per rider), with the
   composition as its implementation where the findings above do not prevent it.
2. The request node as a component of its own: cancellation that hits another
   rider's request, a status below a removed node (`DriverDataManager.swift:60`), as properties
   of the composition.
3. `DatabaseClient` with removal of observers, and the repeated commit in `CarpoolDatabase`.
4. `RiderSearch`: the choice of the nearest driver as an operator, checked against a
   reference definition; the indicator that nothing takes down.
5. `Onboarding`: the one-time overlays, whose single completion block may be another's.
