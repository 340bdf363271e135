------------------------------ MODULE Session ------------------------------
(***************************************************************************)
(* One installation of the app and the accounts that use it: AuthManager,  *)
(* the persistent settings of UserSettingsManager, the registration of the *)
(* phone for notifications (AppDelegate, NotificationsManager), the        *)
(* profile picture, the gates of OnboardingManager in front of the maps    *)
(* and the settings screen.                                                *)
(*                                                                         *)
(* The settings in UserDefaults and the sign-in that Firebase Auth keeps   *)
(* in the keychain outlive the process; the second outlives the            *)
(* installation.  Writes to the database wait in the memory of the client  *)
(* until they are sent, and are sent in order.                             *)
(***************************************************************************)
EXTENDS Naturals, Sequences

CONSTANTS
  Users,        \* the accounts
  NoUser,       \* no account: nil
  MaxTokens,    \* bound: registration tokens this phone gets, one after the other
  MaxUnsent,    \* bound: writes of one account not sent yet when a user acts
  MaxCalls,     \* bound: calls for a token, or for one account's picture, in flight
                \* when a user acts
  Lifecycle     \* may the process be killed, the app be reinstalled?

ASSUME SessionAssumption ==
  /\ NoUser \notin Users
  /\ MaxTokens \in Nat /\ MaxUnsent \in Nat /\ MaxCalls \in Nat
  /\ Lifecycle \subseteq {"kill", "reinstall"}

VARIABLES
  defaults,      \* UserDefaults
  auth,          \* Auth.auth().currentUser
  app,           \* the memory of the process and what is on screen
  token,         \* the registration token the messaging service gave last
  granted,       \* the system's permission to notify
  unsent,        \* [Users -> Seq(OptionalToken)]: writes to user_data/<user> not sent
  userData,      \* [Users -> the token in user_data/<user>]
  pictures,      \* [Users -> whose picture storage holds under <user>]
  unregistered,  \* history: since the session began or the phone was registered
                 \* for it, a save replaced the node, or the process ended
                 \* with writes to it that were not sent
  cutShort       \* history: a sign-out was cut short before the session went

serverVars  == <<userData, pictures>>
historyVars == <<unregistered, cutShort>>
sessionVars == <<defaults, auth, app, token, granted, unsent, serverVars, historyVars>>

OptionalUser  == Users \union {NoUser}
NoToken       == 0
OptionalToken == NoToken .. MaxTokens

(***************************************************************************)
(* UserDefaults; imageURL is the account the saved address belongs to.     *)
(***************************************************************************)
UserDefaults ==
  [hasRunBefore : BOOLEAN, userSession : OptionalUser, FCMToken : OptionalToken,
   imageURL : OptionalUser, notificationsAuthorized : BOOLEAN]

EmptyDefaults ==
  [hasRunBefore |-> FALSE, userSession |-> NoUser, FCMToken |-> NoToken,
   imageURL |-> NoUser, notificationsAuthorized |-> FALSE]

\* Mutant: the mark of the first launch is cleared with the rest.
ClearWithTheMark(d) == IF d.hasRunBefore THEN d ELSE EmptyDefaults

clearUserDefaultsOnFirstLaunch(d) ==
  IF d.hasRunBefore THEN d ELSE [EmptyDefaults EXCEPT !.hasRunBefore = TRUE]

\* Mutant: the session stays when its account signs out.
ClearAllButSession(d) == [d EXCEPT !.FCMToken = NoToken, !.imageURL = NoUser]

\* clearUserData
clearUserData(d) ==
  [d EXCEPT !.userSession = NoUser, !.FCMToken = NoToken, !.imageURL = NoUser]

(***************************************************************************)
(* The process.                                                            *)
(*   up             it runs                                                *)
(*   authUI         the sign-in screen is up                               *)
(*   signedIn       the account whose sign-in has not been called back     *)
(*   page           the bulletin on screen, or the system's prompt         *)
(*   settingsUser   userID of the settings screen                          *)
(*   logoutHidden   its logout button is hidden, for the life of the app   *)
(*   tokenReceived  didReceiveRegistrationToken is to be called            *)
(*   instanceIDs, statusChecks, uploads, lookups   calls in flight         *)
(*   steady         history: the permission is as it was at the launch     *)
(***************************************************************************)
Process ==
  [up : BOOLEAN, authUI : BOOLEAN, signedIn : OptionalUser,
   page : {"none", "notifications", "prompt", "picture"},
   settingsUser : OptionalUser, logoutHidden : BOOLEAN, tokenReceived : BOOLEAN,
   instanceIDs : Nat, statusChecks : Nat,
   uploads : [Users -> Nat], lookups : [Users -> Nat], steady : BOOLEAN]

NotRunning ==
  [up |-> FALSE, authUI |-> FALSE, signedIn |-> NoUser, page |-> "none",
   settingsUser |-> NoUser, logoutHidden |-> FALSE, tokenReceived |-> FALSE,
   instanceIDs |-> 0, statusChecks |-> 0,
   uploads |-> [u \in Users |-> 0], lookups |-> [u \in Users |-> 0], steady |-> FALSE]

SessionInit ==
  /\ defaults = EmptyDefaults
  /\ auth = NoUser
  /\ app = NotRunning
  /\ token = NoToken
  /\ granted = FALSE
  /\ unsent = [u \in Users |-> <<>>]
  /\ userData = [u \in Users |-> NoToken]
  /\ pictures = [u \in Users |-> NoUser]
  /\ unregistered = FALSE
  /\ cutShort = FALSE

(***************************************************************************)
(* What the end of the process does to what it had not sent.               *)
(***************************************************************************)
ProcessEnds ==
  /\ app' = NotRunning
  /\ unsent' = [u \in Users |-> <<>>]
  /\ unregistered' =
       (unregistered \/ \E u \in Users : defaults.userSession = u /\ unsent[u] # <<>>)
  /\ UNCHANGED <<token, granted, serverVars>>

\* Calls about the picture of an account.
PictureCalls(u) == app.uploads[u] + app.lookups[u]

isLoggedIn == defaults.userSession # NoUser

\* The user can reach the maps, the tabs and the settings.  The last two
\* conjuncts are bounds.
CanTap ==
  /\ app.up /\ ~app.authUI /\ app.page = "none"
  /\ app.statusChecks < MaxCalls
  /\ \A u \in Users : Len(unsent[u]) <= MaxUnsent

-----------------------------------------------------------------------------
(* The process and the installation                                        *)

\* didFinishLaunching, and the tab bar that appears with the first screen.
\* The messaging service reports the token it has once in every launch.
Launch ==
  /\ ~app.up
  /\ defaults' = clearUserDefaultsOnFirstLaunch(defaults)
  /\ app' = [NotRunning EXCEPT !.up = TRUE, !.statusChecks = 1, !.steady = TRUE,
                               !.tokenReceived = (token # NoToken)]
  /\ UNCHANGED <<auth, token, granted, unsent, serverVars, historyVars>>

Kill ==
  /\ "kill" \in Lifecycle
  /\ app.up
  /\ ProcessEnds
  /\ UNCHANGED <<defaults, auth, cutShort>>

\* The settings go with the app, the sign-in stays in the keychain.
Reinstall ==
  /\ "reinstall" \in Lifecycle
  /\ ~app.up
  /\ token < MaxTokens
  /\ defaults' = EmptyDefaults
  /\ token' = token + 1
  /\ granted' = FALSE
  /\ cutShort' = FALSE
  /\ UNCHANGED <<auth, app, unsent, serverVars, unregistered>>

-----------------------------------------------------------------------------
(* Sign-in and sign-out                                                    *)

\* The sign-in screen is done; its delegate is called back in a later step.
AccountSignsIn(u) ==
  /\ app.up /\ app.authUI /\ app.signedIn = NoUser
  /\ app.instanceIDs < MaxCalls /\ PictureCalls(u) < MaxCalls
  /\ auth' = u
  /\ app' = [app EXCEPT !.signedIn = u]
  /\ UNCHANGED <<defaults, token, granted, unsent, serverVars, historyVars>>

\* Cancelled or failed: the alert is presented over presentingVC, which
\* nothing sets, and the unwrap ends the process.
SignInFails ==
  /\ app.up /\ app.authUI /\ app.signedIn = NoUser
  /\ ProcessEnds
  /\ UNCHANGED <<defaults, auth, cutShort>>

\* updateUser replaces the whole node, and with it the token.
updateUser(u, writes) == Append(writes, NoToken)

\* Mutant: the token is registered before the profile is written.
SignInWritesTokenFirst(u, named) ==
  LET registered == IF defaults.FCMToken = NoToken THEN unsent[u]
                    ELSE Append(unsent[u], defaults.FCMToken)
  IN  IF named THEN updateUser(u, registered) ELSE registered

\* The profile, if the account has a name, and then the token, if known.
SignInWrites(u, named) ==
  LET profile == IF named THEN updateUser(u, unsent[u]) ELSE unsent[u]
  IN  IF defaults.FCMToken = NoToken THEN profile
      ELSE Append(profile, defaults.FCMToken)

\* authUI(_:didSignInWith:error:).  The page that asks a new account for its
\* phone number is left out.
DidSignIn(named) ==
  LET u == auth
  IN  /\ app.up /\ app.signedIn # NoUser
      /\ defaults' = [defaults EXCEPT !.userSession = u]
      /\ unsent' = [unsent EXCEPT ![u] = SignInWrites(u, named)]
      /\ unregistered' = FALSE /\ cutShort' = FALSE
      /\ app' = [app EXCEPT
                   !.authUI = FALSE, !.signedIn = NoUser,
                   !.lookups[u] = IF named THEN @ + 1 ELSE @,
                   !.instanceIDs = IF defaults.FCMToken = NoToken THEN @ + 1 ELSE @]
      /\ UNCHANGED <<auth, token, granted, serverVars>>

CanLogout == CanTap /\ app.settingsUser # NoUser /\ ~app.logoutHidden

\* The settings screen asks for a sign-in again.
Logout ==
  /\ CanLogout
  /\ auth' = NoUser
  /\ defaults' = clearUserData(clearUserDefaultsOnFirstLaunch(defaults))
  /\ app' = [app EXCEPT !.authUI = TRUE]
  /\ cutShort' = FALSE
  /\ UNCHANGED <<token, granted, unsent, serverVars, unregistered>>

\* The process ends in the middle of clearUserData, when Auth has given up
\* the sign-in and the settings are still there, or are gone as far as the
\* session or the token.
LogoutIsCutShort ==
  LET kept == clearUserDefaultsOnFirstLaunch(defaults)
      withoutSession == [kept EXCEPT !.userSession = NoUser]
  IN  /\ "kill" \in Lifecycle
      /\ CanLogout
      /\ auth' = NoUser
      /\ defaults' \in {kept, withoutSession, [withoutSession EXCEPT !.FCMToken = NoToken]}
      /\ cutShort' = (defaults'.userSession # NoUser)
      /\ ProcessEnds

-----------------------------------------------------------------------------
(* The phone's registration                                                *)

\* setNotificationsToken
Register(u, t) ==
  /\ unsent' = [unsent EXCEPT ![u] = Append(@, t)]
  /\ unregistered' = FALSE

\* The messaging service gives the phone a new token.
TokenChanges ==
  /\ token < MaxTokens
  /\ token' = token + 1
  /\ app' = [app EXCEPT !.tokenReceived = @ \/ app.up]
  /\ UNCHANGED <<defaults, auth, granted, unsent, serverVars, historyVars>>

\* Mutant: a token that is saved already is taken to be registered.
TokenReceivedOnce ==
  /\ app.tokenReceived
  /\ app' = [app EXCEPT !.tokenReceived = FALSE]
  /\ defaults' = [defaults EXCEPT !.FCMToken = token]
  /\ IF isLoggedIn /\ defaults.FCMToken # token
     THEN Register(defaults.userSession, token)
     ELSE UNCHANGED <<unsent, unregistered>>
  /\ UNCHANGED <<auth, token, granted, serverVars, cutShort>>

\* messaging(_:didReceiveRegistrationToken:)
TokenReceived ==
  /\ app.tokenReceived
  /\ app' = [app EXCEPT !.tokenReceived = FALSE]
  /\ defaults' = [defaults EXCEPT !.FCMToken = token]
  /\ IF isLoggedIn THEN Register(defaults.userSession, token)
     ELSE UNCHANGED <<unsent, unregistered>>
  /\ UNCHANGED <<auth, token, granted, serverVars, cutShort>>

\* The token fetched by a sign-in: saved at once, registered for whoever is
\* signed in by now; the unwrap of nobody ends the process.
InstanceIDAnswers ==
  /\ app.instanceIDs > 0
  /\ token # NoToken
  /\ defaults' = [defaults EXCEPT !.FCMToken = token]
  /\ IF isLoggedIn
     THEN /\ Register(defaults.userSession, token)
          /\ app' = [app EXCEPT !.instanceIDs = @ - 1]
          /\ UNCHANGED <<token, granted, serverVars>>
     ELSE ProcessEnds
  /\ UNCHANGED <<auth, cutShort>>

InstanceIDFails ==
  /\ app.instanceIDs > 0
  /\ app' = [app EXCEPT !.instanceIDs = @ - 1]
  /\ UNCHANGED <<defaults, auth, token, granted, unsent, serverVars, historyVars>>

\* The user changes the system's settings; bound: not while the app runs.
PermissionChanges ==
  /\ ~app.up
  /\ granted' = ~granted
  /\ UNCHANGED <<defaults, auth, app, token, unsent, serverVars, historyVars>>

\* Mutant: a permission seen once is never taken back.
StatusRaised ==
  /\ app.statusChecks > 0
  /\ app' = [app EXCEPT !.statusChecks = @ - 1]
  /\ defaults' = [defaults EXCEPT !.notificationsAuthorized = @ \/ granted]
  /\ UNCHANGED <<auth, token, granted, unsent, serverVars, historyVars>>

\* checkNotificationsStatus calls back.
StatusChecked ==
  /\ app.statusChecks > 0
  /\ app' = [app EXCEPT !.statusChecks = @ - 1]
  /\ defaults' = [defaults EXCEPT !.notificationsAuthorized = granted]
  /\ UNCHANGED <<auth, token, granted, unsent, serverVars, historyVars>>

-----------------------------------------------------------------------------
(* The gates in front of the maps, and their pages                         *)

\* A tap on a map by someone not signed in; the settings and the feedback
\* screen ask for a sign-in the same way.
AskForSignIn ==
  /\ CanTap
  /\ ~isLoggedIn
  /\ app' = [app EXCEPT !.authUI = TRUE]
  /\ UNCHANGED <<defaults, auth, token, granted, unsent, serverVars, historyVars>>

isNotificationsEnabled == token # NoToken /\ defaults.notificationsAuthorized

\* A tap on a map by someone signed in; past both gates the search begins.
AskOnMapTap ==
  /\ CanTap
  /\ isLoggedIn
  /\ \/ /\ ~isNotificationsEnabled
        /\ app' = [app EXCEPT !.page = "notifications"]
     \/ /\ isNotificationsEnabled
        /\ defaults.imageURL = NoUser
        /\ app' = [app EXCEPT !.page = "picture"]
  /\ UNCHANGED <<defaults, auth, token, granted, unsent, serverVars, historyVars>>

\* The prompt and the registration start together, so the status may be
\* checked before the user has answered the prompt.
TapSubscribe ==
  /\ app.page = "notifications"
  /\ app' = [app EXCEPT !.page = "prompt", !.statusChecks = @ + 1]
  /\ UNCHANGED <<defaults, auth, token, granted, unsent, serverVars, historyVars>>

\* Nothing listens to the answer.
AnswerPrompt ==
  /\ app.page = "prompt"
  /\ granted' \in BOOLEAN
  /\ app' = [app EXCEPT !.page = "none", !.steady = @ /\ granted' = granted]
  /\ UNCHANGED <<defaults, auth, token, unsent, serverVars, historyVars>>

\* No picture picked.
LeavePage ==
  /\ app.page = "picture"
  /\ app' = [app EXCEPT !.page = "none"]
  /\ UNCHANGED <<defaults, auth, token, granted, unsent, serverVars, historyVars>>

-----------------------------------------------------------------------------
(* The profile picture                                                     *)

\* didSelect and updateUserPhoto: the place in storage is the one of the
\* account signed in now.
PickPicture ==
  LET u == defaults.userSession
  IN  /\ app.page = "picture"
      /\ PictureCalls(u) < MaxCalls
      /\ app' = [app EXCEPT !.page = "none", !.uploads[u] = @ + 1]
      /\ UNCHANGED <<defaults, auth, token, granted, unsent, serverVars, historyVars>>

\* The address of the picture is asked for once it is stored.
UploadCompletes(u) ==
  /\ app.uploads[u] > 0
  /\ pictures' = [pictures EXCEPT ![u] = u]
  /\ app' = [app EXCEPT !.uploads[u] = @ - 1, !.lookups[u] = @ + 1]
  /\ UNCHANGED <<defaults, auth, token, granted, unsent, userData, historyVars>>

\* Mutant: a missing return, the completion that fails runs in any case.
UploadFailsToo(u) ==
  /\ \E w \in Users : app.uploads[w] > 0
  /\ app' = [app EXCEPT !.uploads[u] = @ - 1]
  /\ UNCHANGED <<defaults, auth, token, granted, unsent, serverVars, historyVars>>

UploadFails(u) ==
  /\ app.uploads[u] > 0
  /\ app' = [app EXCEPT !.uploads[u] = @ - 1]
  /\ UNCHANGED <<defaults, auth, token, granted, unsent, serverVars, historyVars>>

\* The address arrives, asked for by a sign-in or after an upload, and is
\* saved for whoever is signed in by then.
PictureFound(u) ==
  /\ app.lookups[u] > 0
  /\ pictures[u] # NoUser
  /\ defaults' = [defaults EXCEPT !.imageURL = u]
  /\ app' = [app EXCEPT !.lookups[u] = @ - 1]
  /\ UNCHANGED <<auth, token, granted, unsent, serverVars, historyVars>>

PictureNotFound(u) ==
  /\ app.lookups[u] > 0
  /\ app' = [app EXCEPT !.lookups[u] = @ - 1]
  /\ UNCHANGED <<defaults, auth, token, granted, unsent, serverVars, historyVars>>

-----------------------------------------------------------------------------
(* The settings screen                                                     *)

\* viewDidAppear.  The details it fetches only fill the form.
ShowSettings ==
  /\ CanTap
  /\ app' = IF isLoggedIn
            THEN [app EXCEPT !.settingsUser = defaults.userSession]
            ELSE [app EXCEPT !.logoutHidden = TRUE, !.authUI = TRUE]
  /\ UNCHANGED <<defaults, auth, token, granted, unsent, serverVars, historyVars>>

\* didTapSave writes the profile of the account the screen was last shown
\* for, whoever is signed in, and the write takes the token with it.
Save ==
  LET u == app.settingsUser
  IN  /\ CanTap
      /\ u # NoUser
      /\ unsent' = [unsent EXCEPT ![u] = updateUser(u, @)]
      /\ unregistered' = (unregistered \/ defaults.userSession = u)
      /\ UNCHANGED <<defaults, auth, app, token, granted, serverVars, cutShort>>

\* The screen was shown to nobody: its userID is nil.
SaveForNobody ==
  /\ CanTap
  /\ app.settingsUser = NoUser /\ app.logoutHidden
  /\ ProcessEnds
  /\ UNCHANGED <<defaults, auth, cutShort>>

-----------------------------------------------------------------------------
(* The database                                                            *)

\* A write is sent.  It may be denied to someone who is not its account.
WriteSent(u) ==
  /\ unsent[u] # <<>>
  /\ unsent' = [unsent EXCEPT ![u] = Tail(@)]
  /\ \/ userData' = [userData EXCEPT ![u] = Head(unsent[u])]
     \/ auth # u /\ UNCHANGED userData
  /\ UNCHANGED <<defaults, auth, app, token, granted, pictures, historyVars>>

-----------------------------------------------------------------------------
SessionNext ==
  \/ Launch \/ Kill \/ Reinstall
  \/ \E u \in Users : AccountSignsIn(u)
  \/ SignInFails
  \/ \E named \in BOOLEAN : DidSignIn(named)
  \/ Logout \/ LogoutIsCutShort
  \/ TokenChanges \/ TokenReceived \/ InstanceIDAnswers \/ InstanceIDFails
  \/ PermissionChanges \/ StatusChecked
  \/ AskForSignIn \/ AskOnMapTap \/ TapSubscribe \/ AnswerPrompt
  \/ LeavePage \/ PickPicture
  \/ \E u \in Users : UploadCompletes(u) \/ UploadFails(u)
  \/ \E u \in Users : PictureFound(u) \/ PictureNotFound(u)
  \/ ShowSettings \/ Save \/ SaveForNobody
  \/ \E u \in Users : WriteSent(u)

SessionSpec == SessionInit /\ [][SessionNext]_sessionVars

\* The messaging service calls back, and writes are sent.
SessionFairness ==
  /\ WF_sessionVars(TokenReceived)
  /\ \A u \in Users : WF_sessionVars(WriteSent(u))

SessionFairSpec == SessionSpec /\ SessionFairness

-----------------------------------------------------------------------------
(* Properties                                                              *)

\* Every variable has its type.
SessionTypeOK ==
  /\ defaults \in UserDefaults
  /\ auth \in OptionalUser
  /\ app \in Process
  /\ token \in OptionalToken
  /\ granted \in BOOLEAN
  /\ unsent \in [Users -> Seq(OptionalToken)]
  /\ userData \in [Users -> OptionalToken]
  /\ pictures \in [Users -> OptionalUser]
  /\ unregistered \in BOOLEAN /\ cutShort \in BOOLEAN

\* The token the node of an account will hold once its writes are sent.
TokenToCome(u) ==
  IF unsent[u] = <<>> THEN userData[u] ELSE unsent[u][Len(unsent[u])]

\* Notifications reach the account on this phone: whatever the order of
\* sign-ins, sign-outs, fetched and renewed tokens, an account that is
\* signed in on a phone that knows a token will have that token in its node,
\* unless the node was written otherwise since, or the process ended with
\* the write (AuthManager.authUI(_:didSignInWith:error:), AppDelegate).  A
\* session without a sign-in may write nothing to its node.
SignedInPhoneIsRegistered ==
  \A u \in Users :
    ( /\ defaults.userSession = u /\ auth = u
      /\ defaults.FCMToken # NoToken
      /\ ~unregistered )
    => TokenToCome(u) = defaults.FCMToken

\* The session the app keeps and the sign-in Firebase Auth keeps are never
\* two accounts, though they are stored and end apart: across sign-outs,
\* kills, reinstallations and late callbacks.  A session is left without any
\* sign-in only when the process ended in the middle of a sign-out
\* (AuthManager.clearUserData, authUI(_:didSignInWith:error:)).
SessionIsAuthenticated ==
  isLoggedIn => \/ auth = defaults.userSession
                \/ auth = NoUser /\ cutShort

\* Once its checks have come back, the app knows the permission it was
\* launched with, whatever it had saved before and whenever the user
\* subscribed (NotificationsManager.checkNotificationsStatus).
PermissionIsKnown ==
  (app.steady /\ app.statusChecks = 0) => defaults.notificationsAuthorized = granted

\* A session ends only by a sign-out or with the installation, never by a
\* launch, and is never replaced by another account's
\* (UserSettingsManager.clearUserDefaultsOnFirstLaunch, AuthManager.logout).
SessionEndsBySignOut ==
  [][ (isLoggedIn /\ defaults'.userSession # defaults.userSession)
      => /\ defaults'.userSession = NoUser
         /\ auth' = NoUser \/ ~app'.up ]_sessionVars

\* A launch makes up for a registration that was lost: the token reported
\* in it reaches the account's node, while the account stays signed in, with
\* the app and with Auth, and the app runs
\* (AppDelegate.messaging(_:didReceiveRegistrationToken:)).
LaunchRegistersToken ==
  \A u \in Users :
    (app.tokenReceived /\ defaults.userSession = u)
    ~> \/ userData[u] = defaults.FCMToken
       \/ defaults.userSession # u \/ auth # u
       \/ ~app.up
=============================================================================
