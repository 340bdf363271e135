--------------------------- MODULE SessionProofs ---------------------------
(***************************************************************************)
(* Theorems about Session, for every set of accounts and all bounds: types,*)
(* the agreement of the app's session with the account Firebase Auth has   *)
(* signed in, how a session ends, and the registration of the phone.        *)
(***************************************************************************)
EXTENDS Session, SequenceTheorems, TLAPS

(***************************************************************************)
(* Why the session is the signed-in account: nobody is logged in while the *)
(* sign-in screen is up, and only its callback opens a session.  Settings  *)
(* that hold a session bear the mark of the first launch, so that no       *)
(* launch clears them.                                                     *)
(***************************************************************************)
SignInInvariant ==
  /\ SessionIsAuthenticated
  /\ app.authUI => ~isLoggedIn
  /\ app.signedIn # NoUser => app.authUI /\ auth = app.signedIn
  /\ app.up \/ isLoggedIn => defaults.hasRunBefore

SessionInvariant == SessionTypeOK /\ SignInInvariant

\* A process that does not run, and settings that are empty, have their types.
LEMMA EmptyTypes ==
  /\ NotRunning \in Process
  /\ EmptyDefaults \in UserDefaults
  /\ NoToken \in OptionalToken
<1>1. NotRunning \in Process
  BY DEF NotRunning, Process, OptionalUser
<1>2. NoToken \in OptionalToken
  BY SessionAssumption DEF NoToken, OptionalToken
<1>3. EmptyDefaults \in UserDefaults
  BY <1>2 DEF EmptyDefaults, UserDefaults, OptionalUser
<1>4. QED
  BY <1>1, <1>2, <1>3

\* Initially every variable has its type.
LEMMA InitialTypes == SessionInit => SessionTypeOK
<1>1. SUFFICES ASSUME SessionInit PROVE SessionTypeOK
  OBVIOUS
<1>2. defaults \in UserDefaults /\ app \in Process /\ token \in OptionalToken
  BY <1>1, EmptyTypes DEF SessionInit
<1>3. unsent \in [Users -> Seq(OptionalToken)] /\ userData \in [Users -> OptionalToken]
  BY <1>1, EmptyTypes DEF SessionInit
<1>4. QED
  BY <1>1, <1>2, <1>3 DEF SessionInit, SessionTypeOK, OptionalUser

\* The end of the process keeps the types of what it changes.
LEMMA EndTypes ==
  ASSUME SessionTypeOK, ProcessEnds
  PROVE  /\ app' \in Process
         /\ unsent' \in [Users -> Seq(OptionalToken)]
         /\ unregistered' \in BOOLEAN
         /\ UNCHANGED <<token, granted, serverVars>>
<1>1. unregistered' \in BOOLEAN
  BY DEF SessionTypeOK, ProcessEnds
<1>2. QED
  BY <1>1, EmptyTypes DEF ProcessEnds

\* The settings stay of their type when they are cleared.
LEMMA ClearTypes ==
  ASSUME NEW d \in UserDefaults
  PROVE  /\ clearUserDefaultsOnFirstLaunch(d) \in UserDefaults
         /\ clearUserData(d) \in UserDefaults
<1>1. clearUserDefaultsOnFirstLaunch(d) \in UserDefaults
  BY EmptyTypes DEF clearUserDefaultsOnFirstLaunch, UserDefaults
<1>2. clearUserData(d) \in UserDefaults
  BY EmptyTypes DEF clearUserData, UserDefaults, OptionalUser
<1>3. QED
  BY <1>1, <1>2

\* Appending a write of a token keeps the type of what is not sent.
LEMMA RegisterTypes ==
  ASSUME SessionTypeOK, NEW u, NEW t \in OptionalToken, Register(u, t)
  PROVE  /\ unsent' \in [Users -> Seq(OptionalToken)]
         /\ unregistered' \in BOOLEAN
<1>1. \A w \in Users : unsent[w] \in Seq(OptionalToken)
  BY DEF SessionTypeOK
<1>2. ASSUME NEW w \in Users
      PROVE  Append(unsent[w], t) \in Seq(OptionalToken)
  BY <1>1
<1>3. QED
  BY <1>1, <1>2 DEF Register, SessionTypeOK

\* The process and the installation.
LEMMA ProcessTypes ==
  ASSUME SessionTypeOK, Launch \/ Kill \/ Reinstall
  PROVE  SessionTypeOK'
<1>1. CASE Launch
  <2>1. app' \in Process
    BY <1>1, EmptyTypes DEF Launch, Process
  <2>2. defaults' \in UserDefaults
    BY <1>1, ClearTypes DEF Launch, SessionTypeOK
  <2>3. QED
    BY <1>1, <2>1, <2>2 DEF Launch, SessionTypeOK, serverVars, historyVars
<1>2. CASE Kill
  BY <1>2, EndTypes DEF Kill, SessionTypeOK, serverVars, historyVars
<1>3. CASE Reinstall
  <2>1. token' \in OptionalToken
    BY <1>3, SessionAssumption DEF Reinstall, SessionTypeOK, OptionalToken, NoToken
  <2>2. QED
    BY <1>3, <2>1, EmptyTypes DEF Reinstall, SessionTypeOK, serverVars, historyVars
<1>4. QED
  BY <1>1, <1>2, <1>3

\* What a sign-in adds to the writes keeps their type.
LEMMA SignInWritesType ==
  ASSUME SessionTypeOK, NEW u \in Users, NEW named \in BOOLEAN
  PROVE  SignInWrites(u, named) \in Seq(OptionalToken)
<1>1. unsent[u] \in Seq(OptionalToken) /\ defaults.FCMToken \in OptionalToken
  BY DEF SessionTypeOK, UserDefaults
<1>2. NoToken \in OptionalToken
  BY EmptyTypes
<1>3. DEFINE profile == IF named THEN updateUser(u, unsent[u]) ELSE unsent[u]
<1>4. profile \in Seq(OptionalToken)
  BY <1>1, <1>2 DEF updateUser
<1>5. Append(profile, defaults.FCMToken) \in Seq(OptionalToken)
  BY <1>1, <1>4
<1>6. QED
  BY <1>4, <1>5 DEF SignInWrites

\* What a sign-out that is cut short leaves of the settings.
LEMMA CutShortTypes ==
  ASSUME SessionTypeOK, LogoutIsCutShort
  PROVE  /\ defaults' \in UserDefaults
         /\ defaults.hasRunBefore => defaults'.hasRunBefore
         /\ defaults'.userSession # NoUser => cutShort'
         /\ defaults'.userSession # NoUser /\ defaults.hasRunBefore
            => defaults'.userSession = defaults.userSession
<1>1. defaults \in UserDefaults /\ defaults.hasRunBefore \in BOOLEAN
  BY DEF SessionTypeOK, UserDefaults
<1>2. PICK kept \in UserDefaults :
        /\ kept = clearUserDefaultsOnFirstLaunch(defaults)
        /\ \/ defaults' = kept
           \/ defaults' = [kept EXCEPT !.userSession = NoUser]
           \/ defaults' = [[kept EXCEPT !.userSession = NoUser] EXCEPT !.FCMToken = NoToken]
  BY <1>1, ClearTypes DEF LogoutIsCutShort
<1>3. defaults.hasRunBefore => kept = defaults
  BY <1>2 DEF clearUserDefaultsOnFirstLaunch
<1>4. defaults' \in UserDefaults
  BY <1>2, EmptyTypes DEF UserDefaults, OptionalUser
<1>5. /\ defaults'.hasRunBefore = kept.hasRunBefore
      /\ defaults'.userSession \in {kept.userSession, NoUser}
  BY <1>2 DEF UserDefaults
<1>6. defaults'.userSession # NoUser => cutShort'
  BY DEF LogoutIsCutShort
<1>7. QED
  BY <1>1, <1>3, <1>4, <1>5, <1>6

\* Sign-in and sign-out.
LEMMA SignInTypes ==
  ASSUME SessionInvariant,
         \/ \E u \in Users : AccountSignsIn(u)
         \/ SignInFails
         \/ \E named \in BOOLEAN : DidSignIn(named)
         \/ Logout \/ LogoutIsCutShort
  PROVE  SessionTypeOK'
<1> USE DEF SessionInvariant
<1>1. CASE \E u \in Users : AccountSignsIn(u)
  BY <1>1 DEF AccountSignsIn, SessionTypeOK, OptionalUser, Process, serverVars, historyVars
<1>2. CASE SignInFails
  BY <1>2, EndTypes DEF SignInFails, SessionTypeOK, serverVars, historyVars
<1>3. ASSUME NEW named \in BOOLEAN, DidSignIn(named)
      PROVE  SessionTypeOK'
  <2>1. auth \in Users
    BY <1>3 DEF DidSignIn, SignInInvariant, SessionTypeOK, Process, OptionalUser
  <2>2. defaults' \in UserDefaults
    BY <1>3, <2>1 DEF DidSignIn, SessionTypeOK, UserDefaults, OptionalUser
  <2>3. unsent' \in [Users -> Seq(OptionalToken)]
    BY <1>3, <2>1, SignInWritesType DEF DidSignIn, SessionTypeOK
  <2>4. app' \in Process
    <3>1. /\ app.instanceIDs \in Nat /\ app.instanceIDs + 1 \in Nat
          /\ app.lookups \in [Users -> Nat] /\ app.lookups[auth] + 1 \in Nat
      BY <2>1 DEF SessionTypeOK, Process
    <3>2. QED
      BY <1>3, <2>1, <3>1 DEF DidSignIn, SessionTypeOK, Process, OptionalUser
  <2>5. QED
    BY <1>3, <2>2, <2>3, <2>4 DEF DidSignIn, SessionTypeOK, serverVars, historyVars
<1>4. CASE Logout
  <2>1. defaults' \in UserDefaults
    BY <1>4, ClearTypes DEF Logout, SessionTypeOK
  <2>2. QED
    BY <1>4, <2>1 DEF Logout, SessionTypeOK, OptionalUser, Process, serverVars, historyVars
<1>5. CASE LogoutIsCutShort
  <2>1. defaults' \in UserDefaults
    BY <1>5, CutShortTypes
  <2>2. app' \in Process /\ unsent' \in [Users -> Seq(OptionalToken)]
        /\ unregistered' \in BOOLEAN /\ UNCHANGED <<token, granted, serverVars>>
    BY <1>5, EndTypes DEF LogoutIsCutShort
  <2>3. cutShort' \in BOOLEAN /\ auth' \in OptionalUser
    BY <1>5 DEF LogoutIsCutShort, OptionalUser
  <2>4. QED
    BY <2>1, <2>2, <2>3 DEF SessionTypeOK, serverVars
<1>6. QED
  BY <1>1, <1>2, <1>3, <1>4, <1>5

\* The phone's registration and the permission.
LEMMA RegistrationTypes ==
  ASSUME SessionTypeOK,
         \/ TokenChanges \/ TokenReceived \/ InstanceIDAnswers \/ InstanceIDFails
         \/ PermissionChanges \/ StatusChecked
  PROVE  SessionTypeOK'
<1>0. token \in OptionalToken /\ token \in Nat
  BY SessionAssumption DEF SessionTypeOK, OptionalToken, NoToken
<1>1. CASE TokenChanges
  <2>1. token' \in OptionalToken
    BY <1>0, <1>1, SessionAssumption DEF TokenChanges, OptionalToken, NoToken
  <2>2. QED
    BY <1>1, <2>1 DEF TokenChanges, SessionTypeOK, Process, serverVars, historyVars
<1>2. CASE TokenReceived
  <2>1. defaults' \in UserDefaults /\ app' \in Process
    BY <1>0, <1>2 DEF TokenReceived, SessionTypeOK, UserDefaults, Process
  <2>2. unsent' \in [Users -> Seq(OptionalToken)] /\ unregistered' \in BOOLEAN
    BY <1>0, <1>2, RegisterTypes DEF TokenReceived, SessionTypeOK
  <2>3. QED
    BY <1>2, <2>1, <2>2 DEF TokenReceived, SessionTypeOK, serverVars, historyVars
<1>3. CASE InstanceIDAnswers
  <2>1. defaults' \in UserDefaults
    BY <1>0, <1>3 DEF InstanceIDAnswers, SessionTypeOK, UserDefaults
  <2>2. app' \in Process /\ unsent' \in [Users -> Seq(OptionalToken)]
        /\ unregistered' \in BOOLEAN /\ UNCHANGED <<token, granted, serverVars>>
    <3>1. CASE isLoggedIn
      <4>1. app.instanceIDs - 1 \in Nat
        BY <1>3 DEF InstanceIDAnswers, SessionTypeOK, Process
      <4>2. app' \in Process
        BY <1>3, <3>1, <4>1 DEF InstanceIDAnswers, SessionTypeOK, Process
      <4>3. QED
        BY <1>0, <1>3, <3>1, <4>2, RegisterTypes DEF InstanceIDAnswers
    <3>2. CASE ~isLoggedIn
      BY <1>3, <3>2, EndTypes DEF InstanceIDAnswers
    <3>3. QED
      BY <3>1, <3>2
  <2>3. QED
    BY <1>3, <2>1, <2>2 DEF InstanceIDAnswers, SessionTypeOK, serverVars, historyVars
<1>4. CASE InstanceIDFails
  <2>1. app.instanceIDs - 1 \in Nat
    BY <1>4 DEF InstanceIDFails, SessionTypeOK, Process
  <2>2. QED
    BY <1>4, <2>1 DEF InstanceIDFails, SessionTypeOK, Process, serverVars, historyVars
<1>5. CASE PermissionChanges
  BY <1>5 DEF PermissionChanges, SessionTypeOK, serverVars, historyVars
<1>6. CASE StatusChecked
  <2>1. app.statusChecks - 1 \in Nat
    BY <1>6 DEF StatusChecked, SessionTypeOK, Process
  <2>2. QED
    BY <1>6, <2>1 DEF StatusChecked, SessionTypeOK, Process, UserDefaults, serverVars, historyVars
<1>7. QED
  BY <1>1, <1>2, <1>3, <1>4, <1>5, <1>6

\* The gates, their pages and the picture that is picked.
LEMMA GateTypes ==
  ASSUME SessionTypeOK,
         \/ AskForSignIn \/ AskOnMapTap \/ TapSubscribe \/ AnswerPrompt
         \/ LeavePage \/ PickPicture
  PROVE  SessionTypeOK'
<1>1. CASE AskForSignIn
  BY <1>1 DEF AskForSignIn, SessionTypeOK, Process, serverVars, historyVars
<1>2. CASE AskOnMapTap
  BY <1>2 DEF AskOnMapTap, SessionTypeOK, Process, serverVars, historyVars
<1>3. CASE TapSubscribe
  <2>1. app.statusChecks + 1 \in Nat
    BY DEF SessionTypeOK, Process
  <2>2. app' \in Process
    BY <1>3, <2>1 DEF TapSubscribe, SessionTypeOK, Process
  <2>3. QED
    BY <1>3, <2>2 DEF TapSubscribe, SessionTypeOK, serverVars, historyVars
<1>4. CASE AnswerPrompt
  <2>1. app.steady \in BOOLEAN /\ (app.steady /\ granted' = granted) \in BOOLEAN
    BY DEF SessionTypeOK, Process
  <2>2. QED
    BY <1>4, <2>1 DEF AnswerPrompt, SessionTypeOK, Process, serverVars, historyVars
<1>5. CASE LeavePage
  BY <1>5 DEF LeavePage, SessionTypeOK, Process, serverVars, historyVars
<1>6. CASE PickPicture
  <2>1. \A w \in Users : app.uploads[w] + 1 \in Nat
    BY DEF SessionTypeOK, Process
  <2>2. app' \in Process
    BY <1>6, <2>1 DEF PickPicture, SessionTypeOK, Process
  <2>3. QED
    BY <1>6, <2>2 DEF PickPicture, SessionTypeOK, serverVars, historyVars
<1>7. QED
  BY <1>1, <1>2, <1>3, <1>4, <1>5, <1>6

\* The calls about a picture.
LEMMA PictureTypes ==
  ASSUME SessionTypeOK, NEW u \in Users,
         \/ UploadCompletes(u) \/ UploadFails(u) \/ PictureFound(u) \/ PictureNotFound(u)
  PROVE  SessionTypeOK'
<1>1. /\ app.uploads \in [Users -> Nat] /\ app.lookups \in [Users -> Nat]
      /\ app.lookups[u] + 1 \in Nat
      /\ app.uploads[u] > 0 => app.uploads[u] - 1 \in Nat
      /\ app.lookups[u] > 0 => app.lookups[u] - 1 \in Nat
  BY DEF SessionTypeOK, Process
<1>2. CASE UploadCompletes(u)
  BY <1>1, <1>2
  DEF UploadCompletes, SessionTypeOK, Process, OptionalUser, historyVars
<1>3. CASE UploadFails(u)
  BY <1>1, <1>3 DEF UploadFails, SessionTypeOK, Process, serverVars, historyVars
<1>4. CASE PictureFound(u)
  BY <1>1, <1>4
  DEF PictureFound, SessionTypeOK, Process, UserDefaults, OptionalUser, serverVars, historyVars
<1>5. CASE PictureNotFound(u)
  BY <1>1, <1>5 DEF PictureNotFound, SessionTypeOK, Process, serverVars, historyVars
<1>6. QED
  BY <1>2, <1>3, <1>4, <1>5

\* The settings screen and the database.
LEMMA SettingsTypes ==
  ASSUME SessionTypeOK,
         \/ ShowSettings \/ Save \/ SaveForNobody
         \/ \E u \in Users : WriteSent(u)
  PROVE  SessionTypeOK'
<1>1. CASE ShowSettings
  BY <1>1 DEF ShowSettings, SessionTypeOK, Process, UserDefaults, serverVars, historyVars
<1>2. CASE Save
  <2>1. app.settingsUser \in Users
    BY <1>2 DEF Save, SessionTypeOK, Process, OptionalUser
  <2>2. NoToken \in OptionalToken
    BY SessionAssumption DEF NoToken, OptionalToken
  <2>3. Append(unsent[app.settingsUser], NoToken) \in Seq(OptionalToken)
    BY <2>1, <2>2 DEF SessionTypeOK
  <2>4. QED
    BY <1>2, <2>1, <2>3 DEF Save, updateUser, SessionTypeOK, serverVars, historyVars
<1>3. CASE SaveForNobody
  BY <1>3, EndTypes DEF SaveForNobody, SessionTypeOK, serverVars, historyVars
<1>4. ASSUME NEW u \in Users, WriteSent(u)
      PROVE  SessionTypeOK'
  <2>1. unsent[u] \in Seq(OptionalToken) /\ unsent[u] # <<>>
    BY <1>4 DEF WriteSent, SessionTypeOK
  <2>2. Tail(unsent[u]) \in Seq(OptionalToken) /\ Head(unsent[u]) \in OptionalToken
    BY <2>1
  <2>3. QED
    BY <1>4, <2>2 DEF WriteSent, SessionTypeOK, historyVars
<1>5. QED
  BY <1>1, <1>2, <1>3, <1>4

-----------------------------------------------------------------------------

\* What most steps do to who is signed in: nothing, except that the sign-in
\* screen may come up for nobody and that the process may end.
SignInKept ==
  /\ auth' = auth /\ cutShort' = cutShort
  /\ defaults'.userSession = defaults.userSession
  /\ defaults'.hasRunBefore = defaults.hasRunBefore
  /\ \/ /\ app'.up = app.up /\ app'.signedIn = app.signedIn
        /\ app'.authUI = app.authUI \/ (~isLoggedIn /\ app'.authUI)
     \/ app' = NotRunning

\* The steps other than launches, sign-ins, sign-outs and reinstallations.
OtherStep ==
  \/ Kill \/ SignInFails
  \/ TokenChanges \/ TokenReceived \/ InstanceIDAnswers \/ InstanceIDFails
  \/ PermissionChanges \/ StatusChecked
  \/ AskForSignIn \/ AskOnMapTap \/ TapSubscribe \/ AnswerPrompt
  \/ LeavePage \/ PickPicture
  \/ \E u \in Users : UploadCompletes(u) \/ UploadFails(u)
  \/ \E u \in Users : PictureFound(u) \/ PictureNotFound(u)
  \/ ShowSettings \/ Save \/ SaveForNobody
  \/ \E u \in Users : WriteSent(u)

\* Every other step is of that kind.
LEMMA OtherStepsKeepSignIn ==
  ASSUME SessionTypeOK, OtherStep
  PROVE  SignInKept
<1> USE DEF SignInKept
<1>0. defaults \in UserDefaults /\ app \in Process
  BY DEF SessionTypeOK
<1>1. CASE Kill \/ SignInFails \/ SaveForNobody
  BY <1>1 DEF Kill, SignInFails, SaveForNobody, ProcessEnds
<1>2. CASE TokenChanges \/ TokenReceived \/ InstanceIDFails
  BY <1>0, <1>2 DEF TokenChanges, TokenReceived, InstanceIDFails, UserDefaults, Process, historyVars
<1>3. CASE InstanceIDAnswers
  BY <1>0, <1>3 DEF InstanceIDAnswers, ProcessEnds, UserDefaults, Process
<1>4. CASE PermissionChanges \/ StatusChecked
  BY <1>0, <1>4 DEF PermissionChanges, StatusChecked, UserDefaults, Process, historyVars
<1>5. CASE AskForSignIn \/ AskOnMapTap \/ TapSubscribe \/ AnswerPrompt
  BY <1>0, <1>5 DEF AskForSignIn, AskOnMapTap, TapSubscribe, AnswerPrompt, Process, historyVars
<1>6. CASE LeavePage \/ PickPicture
  BY <1>0, <1>6 DEF LeavePage, PickPicture, Process, historyVars
<1>7. CASE \E u \in Users : UploadCompletes(u) \/ UploadFails(u)
  BY <1>0, <1>7 DEF UploadCompletes, UploadFails, Process, historyVars
<1>8. CASE \E u \in Users : PictureFound(u) \/ PictureNotFound(u)
  BY <1>0, <1>8 DEF PictureFound, PictureNotFound, UserDefaults, Process, historyVars
<1>9. CASE ShowSettings
  BY <1>0, <1>9 DEF ShowSettings, Process, historyVars
<1>10. CASE Save \/ \E u \in Users : WriteSent(u)
  BY <1>10 DEF Save, WriteSent, historyVars
<1>11. QED
  BY <1>1, <1>2, <1>3, <1>4, <1>5, <1>6, <1>7, <1>8, <1>9, <1>10 DEF OtherStep

\* A launch leaves alone the settings of someone signed in.
LEMMA LaunchKeepsSession ==
  ASSUME SessionInvariant, Launch
  PROVE  /\ defaults'.hasRunBefore
         /\ isLoggedIn => defaults' = defaults
         /\ ~isLoggedIn => defaults'.userSession = NoUser
         /\ auth' = auth /\ cutShort' = cutShort
         /\ app'.signedIn = NoUser /\ ~app'.authUI
<1>1. defaults \in UserDefaults
  BY DEF SessionInvariant, SessionTypeOK
<1>2. QED
  BY <1>1 DEF Launch, SessionInvariant, SignInInvariant, clearUserDefaultsOnFirstLaunch,
              EmptyDefaults, UserDefaults, NotRunning, isLoggedIn, historyVars

\* No step disturbs why the session is the signed-in account.
LEMMA SignInStep ==
  ASSUME SessionInvariant, [SessionNext]_sessionVars
  PROVE  SignInInvariant'
<1> USE DEF SignInInvariant, SessionIsAuthenticated, isLoggedIn
<1>0. SignInInvariant /\ defaults \in UserDefaults /\ app \in Process
  BY DEF SessionInvariant, SessionTypeOK
<1>1. CASE OtherStep
  BY <1>0, <1>1, OtherStepsKeepSignIn DEF SessionInvariant, SignInKept, NotRunning
<1>2. CASE Launch
  BY <1>0, <1>2, LaunchKeepsSession
<1>3. CASE Reinstall
  BY <1>0, <1>3 DEF Reinstall, EmptyDefaults
<1>4. CASE \E u \in Users : AccountSignsIn(u)
  BY <1>0, <1>4 DEF AccountSignsIn, Process, historyVars
<1>5. CASE \E named \in BOOLEAN : DidSignIn(named)
  <2>1. /\ auth' = auth /\ defaults'.userSession = auth /\ ~app'.authUI
        /\ app'.signedIn = NoUser /\ defaults'.hasRunBefore = defaults.hasRunBefore
        /\ app.up
    BY <1>0, <1>5 DEF DidSignIn, Process, UserDefaults
  <2>2. QED
    BY <1>0, <2>1
<1>6. CASE Logout
  <2>1. /\ defaults'.userSession = NoUser /\ app'.signedIn = app.signedIn
        /\ app'.up = app.up /\ defaults'.hasRunBefore
    BY <1>0, <1>6, ClearTypes
    DEF Logout, CanLogout, CanTap, clearUserData, clearUserDefaultsOnFirstLaunch, UserDefaults,
        EmptyDefaults, Process
  <2>2. app.signedIn = NoUser
    BY <1>0, <1>6 DEF Logout, CanLogout, CanTap
  <2>3. QED
    BY <2>1, <2>2
<1>7. CASE LogoutIsCutShort
  <2>1. auth' = NoUser /\ ~app'.authUI /\ app'.signedIn = NoUser /\ ~app'.up
    BY <1>7 DEF LogoutIsCutShort, ProcessEnds, NotRunning
  <2>2. app.up
    BY <1>7 DEF LogoutIsCutShort, CanLogout, CanTap
  <2>3. defaults'.hasRunBefore /\ (defaults'.userSession # NoUser => cutShort')
    BY <1>0, <1>7, <2>2, CutShortTypes DEF SessionInvariant
  <2>4. QED
    BY <2>1, <2>3
<1>8. CASE UNCHANGED sessionVars
  BY <1>0, <1>8 DEF sessionVars, historyVars
<1>9. QED
  BY <1>1, <1>2, <1>3, <1>4, <1>5, <1>6, <1>7, <1>8 DEF SessionNext, OtherStep

\* Every step keeps the types.
LEMMA TypeStep ==
  ASSUME SessionInvariant, [SessionNext]_sessionVars
  PROVE  SessionTypeOK'
<1>0. SessionTypeOK
  BY DEF SessionInvariant
<1>1. CASE SessionNext
  BY <1>0, <1>1, ProcessTypes, SignInTypes, RegistrationTypes, GateTypes, PictureTypes,
     SettingsTypes DEF SessionNext
<1>2. CASE UNCHANGED sessionVars
  BY <1>0, <1>2 DEF SessionTypeOK, sessionVars, serverVars, historyVars
<1>3. QED
  BY <1>1, <1>2

\* The two hold together in every state.
THEOREM SessionInvariantHolds == SessionSpec => []SessionInvariant
<1>1. SessionInit => SessionInvariant
  BY InitialTypes
  DEF SessionInit, SessionInvariant, SignInInvariant, SessionIsAuthenticated, isLoggedIn,
      EmptyDefaults, NotRunning
<1>2. SessionInvariant /\ [SessionNext]_sessionVars => SessionInvariant'
  BY TypeStep, SignInStep DEF SessionInvariant
<1>3. QED
  BY <1>1, <1>2, PTL DEF SessionSpec

\* Every variable has its type in every state (all of Session's sources).
THEOREM SessionTypeCorrect == SessionSpec => []SessionTypeOK
<1>1. SessionInvariant => SessionTypeOK
  BY DEF SessionInvariant
<1>2. QED
  BY <1>1, SessionInvariantHolds, PTL

\* The session of the app is the account Firebase Auth has signed in; it
\* may outlive the sign-in only where the process ended between the two
\* halves of a sign-out (AuthManager.clearUserData).
THEOREM SessionAuthenticated == SessionSpec => []SessionIsAuthenticated
<1>1. SessionInvariant => SessionIsAuthenticated
  BY DEF SessionInvariant, SignInInvariant
<1>2. QED
  BY <1>1, SessionInvariantHolds, PTL

\* A session ends by a sign-out or with the installation alone
\* (UserSettingsManager.clearUserDefaultsOnFirstLaunch, AuthManager.logout).
THEOREM SessionEndsProperly == SessionSpec => SessionEndsBySignOut
<1> DEFINE Ends ==
      (isLoggedIn /\ defaults'.userSession # defaults.userSession)
      => defaults'.userSession = NoUser /\ (auth' = NoUser \/ ~app'.up)
<1>1. ASSUME SessionInvariant, [SessionNext]_sessionVars
      PROVE  Ends
  <2>0. SessionTypeOK /\ SignInInvariant
    BY <1>1 DEF SessionInvariant
  <2>1. CASE OtherStep
    BY <2>0, <2>1, OtherStepsKeepSignIn DEF SignInKept
  <2>2. CASE Launch
    BY <1>1, <2>2, LaunchKeepsSession
  <2>3. CASE Reinstall
    BY <2>3 DEF Reinstall, EmptyDefaults
  <2>4. CASE \E u \in Users : AccountSignsIn(u)
    BY <2>4 DEF AccountSignsIn
  <2>5. CASE \E named \in BOOLEAN : DidSignIn(named)
    BY <2>0, <2>5 DEF DidSignIn, SignInInvariant
  <2>6. CASE Logout
    <3>1. defaults'.userSession = NoUser
      BY <2>0, <2>6, ClearTypes
      DEF Logout, SessionTypeOK, clearUserData, UserDefaults
    <3>2. QED
      BY <2>6, <3>1 DEF Logout
  <2>7. CASE LogoutIsCutShort
    <3>1. app.up /\ auth' = NoUser
      BY <2>7 DEF LogoutIsCutShort, CanLogout, CanTap
    <3>2. defaults'.userSession # NoUser => defaults'.userSession = defaults.userSession
      BY <2>0, <2>7, <3>1, CutShortTypes DEF SignInInvariant
    <3>3. QED
      BY <3>1, <3>2
  <2>8. CASE UNCHANGED sessionVars
    BY <2>8 DEF sessionVars
  <2>9. QED
    BY <1>1, <2>1, <2>2, <2>3, <2>4, <2>5, <2>6, <2>7, <2>8 DEF SessionNext, OtherStep
<1>2. SessionInvariant /\ [SessionNext]_sessionVars => [Ends]_sessionVars
  BY <1>1
<1>3. QED
  BY <1>2, SessionInvariantHolds, PTL DEF SessionSpec, SessionEndsBySignOut

-----------------------------------------------------------------------------
(***************************************************************************)
(* The permission.  While it is as it was at the launch the process runs,  *)
(* so neither the system's settings nor a reinstallation change it; and    *)
(* the mark of the first launch is there, so no clearance drops it.        *)
(***************************************************************************)
PermissionInvariant ==
  /\ PermissionIsKnown
  /\ app.steady => app.up /\ defaults.hasRunBefore

\* What most steps do to the permission: nothing, except that a check may
\* be added, and that the process may end.
PermissionKept ==
  \/ ~app'.steady
  \/ /\ app'.steady = app.steady /\ app'.up = app.up
     /\ granted' = granted
     /\ defaults'.hasRunBefore = defaults.hasRunBefore
     /\ defaults'.notificationsAuthorized = defaults.notificationsAuthorized
     /\ app'.statusChecks \in {app.statusChecks, app.statusChecks + 1}

LEMMA EndKeepsPermission ==
  ASSUME ProcessEnds
  PROVE  PermissionKept
BY DEF ProcessEnds, NotRunning, PermissionKept

\* The steps other than a launch and the answer of a check.
LEMMA OtherStepsKeepPermission ==
  ASSUME SessionTypeOK, PermissionInvariant, [SessionNext]_sessionVars,
         ~Launch, ~StatusChecked
  PROVE  PermissionKept
<1>0. defaults \in UserDefaults /\ app \in Process
  BY DEF SessionTypeOK
<1>1. CASE Kill \/ SignInFails \/ SaveForNobody \/ LogoutIsCutShort
  BY <1>1, EndKeepsPermission DEF Kill, SignInFails, SaveForNobody, LogoutIsCutShort
<1>2. CASE Reinstall \/ PermissionChanges
  BY <1>2 DEF Reinstall, PermissionChanges, PermissionInvariant, PermissionKept
<1>3. CASE \E u \in Users : AccountSignsIn(u)
  BY <1>0, <1>3 DEF AccountSignsIn, PermissionKept, Process
<1>4. CASE \E named \in BOOLEAN : DidSignIn(named)
  BY <1>0, <1>4 DEF DidSignIn, PermissionKept, Process, UserDefaults
<1>5. CASE Logout
  <2>1. app'.steady = app.steady /\ app'.up = app.up /\ app'.statusChecks = app.statusChecks
    BY <1>0, <1>5 DEF Logout, Process
  <2>2. CASE app.steady
    <3>1. defaults' = clearUserData(defaults)
      BY <1>5, <2>2 DEF Logout, PermissionInvariant, clearUserDefaultsOnFirstLaunch
    <3>2. QED
      BY <1>0, <1>5, <2>1, <3>1 DEF Logout, clearUserData, UserDefaults, PermissionKept
  <2>3. QED
    BY <2>1, <2>2, <1>0 DEF PermissionKept, Process
<1>6. CASE TokenChanges \/ TokenReceived \/ InstanceIDFails
  BY <1>0, <1>6 DEF TokenChanges, TokenReceived, InstanceIDFails, PermissionKept, Process,
                    UserDefaults
<1>7. CASE InstanceIDAnswers
  <2>1. CASE isLoggedIn
    BY <1>0, <1>7, <2>1 DEF InstanceIDAnswers, PermissionKept, Process, UserDefaults
  <2>2. CASE ~isLoggedIn
    BY <1>7, <2>2, EndKeepsPermission DEF InstanceIDAnswers
  <2>3. QED
    BY <2>1, <2>2
<1>8. CASE AskForSignIn \/ AskOnMapTap \/ TapSubscribe \/ LeavePage \/ PickPicture
  BY <1>0, <1>8 DEF AskForSignIn, AskOnMapTap, TapSubscribe, LeavePage, PickPicture,
                    PermissionKept, Process
<1>9. CASE AnswerPrompt
  BY <1>0, <1>9 DEF AnswerPrompt, PermissionKept, Process
<1>10. CASE \E u \in Users : UploadCompletes(u) \/ UploadFails(u) \/ PictureNotFound(u)
  BY <1>0, <1>10 DEF UploadCompletes, UploadFails, PictureNotFound, PermissionKept, Process
<1>11. CASE \E u \in Users : PictureFound(u)
  BY <1>0, <1>11 DEF PictureFound, PermissionKept, Process, UserDefaults
<1>12. CASE ShowSettings
  BY <1>0, <1>12 DEF ShowSettings, PermissionKept, Process
<1>13. CASE Save \/ (\E u \in Users : WriteSent(u)) \/ UNCHANGED sessionVars
  BY <1>13 DEF Save, WriteSent, sessionVars, PermissionKept
<1>14. QED
  BY <1>1, <1>2, <1>3, <1>4, <1>5, <1>6, <1>7, <1>8, <1>9, <1>10, <1>11, <1>12, <1>13
  DEF SessionNext

\* Once its checks have come back the app knows the permission it was
\* launched with (NotificationsManager.checkNotificationsStatus).
THEOREM PermissionKnown == SessionSpec => []PermissionIsKnown
<1>1. SessionInit => PermissionInvariant
  BY DEF SessionInit, PermissionInvariant, PermissionIsKnown, NotRunning
<1>2. ASSUME PermissionInvariant, SessionTypeOK, [SessionNext]_sessionVars
      PROVE  PermissionInvariant'
  <2>0. defaults \in UserDefaults /\ app \in Process
    BY <1>2 DEF SessionTypeOK
  <2>1. CASE Launch
    BY <2>0, <2>1
    DEF Launch, clearUserDefaultsOnFirstLaunch, EmptyDefaults, UserDefaults, NotRunning,
        PermissionInvariant, PermissionIsKnown
  <2>2. CASE StatusChecked
    BY <1>2, <2>0, <2>2
    DEF StatusChecked, PermissionInvariant, PermissionIsKnown, UserDefaults, Process
  <2>3. CASE PermissionKept
    BY <1>2, <2>0, <2>3 DEF PermissionKept, PermissionInvariant, PermissionIsKnown, Process
  <2>4. QED
    BY <1>2, <2>1, <2>2, <2>3, OtherStepsKeepPermission
<1>3. PermissionInvariant => PermissionIsKnown
  BY DEF PermissionInvariant
<1>4. QED
  BY <1>1, <1>2, <1>3, SessionTypeCorrect, PTL DEF SessionSpec

-----------------------------------------------------------------------------
(***************************************************************************)
(* The registration.  What a step may do to the account signed in after it *)
(* is one of three things.                                                 *)
(***************************************************************************)
\* Its token, and what its node will hold, are as they were.
RegistrationKept(u) ==
  /\ defaults.userSession = u /\ auth = u
  /\ defaults'.FCMToken = defaults.FCMToken
  /\ unregistered => unregistered'
  /\ TokenToCome(u)' = TokenToCome(u)

\* The token is written last, if there is one.
RegistrationWritten(u) ==
  defaults'.FCMToken # NoToken => TokenToCome(u)' = defaults'.FCMToken

RegistrationStep ==
  \A u \in Users :
    defaults'.userSession = u /\ auth' = u
    => unregistered' \/ RegistrationKept(u) \/ RegistrationWritten(u)

\* What is written last to a node is what the node will hold.
LEMMA LastWrite ==
  ASSUME NEW writes \in Seq(OptionalToken), NEW t \in OptionalToken
  PROVE  /\ Append(writes, t) # <<>>
         /\ Append(writes, t)[Len(Append(writes, t))] = t
<1>1. /\ Len(writes) \in Nat
      /\ Len(Append(writes, t)) = Len(writes) + 1
      /\ Append(writes, t)[Len(writes) + 1] = t
  OBVIOUS
<1>2. QED
  BY <1>1

\* The node will hold the same when the first of its writes is sent.
LEMMA FirstWrite ==
  ASSUME NEW writes \in Seq(OptionalToken), writes # <<>>
  PROVE  /\ Tail(writes) = <<>> => Head(writes) = writes[Len(writes)]
         /\ Tail(writes) # <<>> => Tail(writes)[Len(Tail(writes))] = writes[Len(writes)]
<1>1. Len(writes) \in Nat /\ Len(writes) > 0 /\ Len(Tail(writes)) = Len(writes) - 1
  OBVIOUS
<1>2. CASE Tail(writes) = <<>>
  <2>1. Len(writes) - 1 = 0
    BY <1>1, <1>2, EmptySeq, Zenon
  <2>2. \A n \in Nat : n - 1 = 0 => n = 1
    OBVIOUS
  <2>3. Len(writes) = 1
    BY <1>1, <2>1, <2>2, Zenon
  <2>4. Head(writes) = writes[1]
    BY <1>1
  <2>5. QED
    BY <1>2, <2>3, <2>4
<1>3. CASE Tail(writes) # <<>>
  <2>1. Len(Tail(writes)) > 0
    BY <1>3
  <2>2. Tail(writes)[Len(writes) - 1] = writes[Len(writes)]
    BY <1>1, <2>1
  <2>3. QED
    BY <1>1, <1>3, <2>2
<1>4. QED
  BY <1>2, <1>3

\* The process may end: what was not sent to the session's node is recorded.
LEMMA EndRegistration ==
  ASSUME SessionTypeOK, ProcessEnds, UNCHANGED defaults, UNCHANGED auth
  PROVE  RegistrationStep
<1>1. SUFFICES ASSUME NEW u \in Users, defaults'.userSession = u, auth' = u,
                      ~unregistered'
      PROVE  RegistrationKept(u)
  BY DEF RegistrationStep
<1>2. /\ unsent[u] = <<>> /\ unsent'[u] = <<>> /\ ~unregistered
      /\ userData' = userData
  BY <1>1 DEF ProcessEnds, serverVars
<1>3. TokenToCome(u) = userData[u] /\ TokenToCome(u)' = userData'[u]
  BY <1>2 DEF TokenToCome
<1>4. QED
  BY <1>1, <1>2, <1>3 DEF RegistrationKept

\* A token is registered for the session.
LEMMA RegisterRegistration ==
  ASSUME SessionTypeOK, isLoggedIn, token \in OptionalToken,
         Register(defaults.userSession, token),
         defaults' = [defaults EXCEPT !.FCMToken = token]
  PROVE  RegistrationStep
<1>1. SUFFICES ASSUME NEW u \in Users, defaults'.userSession = u
      PROVE  RegistrationWritten(u)
  BY DEF RegistrationStep
<1>2. defaults.userSession = u /\ defaults'.FCMToken = token
  BY <1>1 DEF SessionTypeOK, UserDefaults
<1>3. unsent[u] \in Seq(OptionalToken) /\ unsent'[u] = Append(unsent[u], token)
  BY <1>2 DEF Register, SessionTypeOK
<1>4. unsent'[u] # <<>> /\ unsent'[u][Len(unsent'[u])] = token
  BY <1>3, LastWrite
<1>5. QED
  BY <1>2, <1>4 DEF RegistrationWritten, TokenToCome

\* A sign-in writes the token last.
LEMMA SignInRegistration ==
  ASSUME SessionInvariant, NEW named \in BOOLEAN, DidSignIn(named)
  PROVE  RegistrationStep
<1>1. SUFFICES ASSUME NEW u \in Users, defaults'.userSession = u,
                      defaults'.FCMToken # NoToken
      PROVE  TokenToCome(u)' = defaults'.FCMToken
  BY DEF RegistrationStep, RegistrationWritten
<1>2. auth = u /\ defaults'.FCMToken = defaults.FCMToken /\ defaults.FCMToken \in OptionalToken
  BY <1>1 DEF DidSignIn, SessionInvariant, SessionTypeOK, UserDefaults
<1>3. unsent[u] \in Seq(OptionalToken) /\ unsent'[u] = SignInWrites(u, named)
  BY <1>2 DEF DidSignIn, SessionInvariant, SessionTypeOK
<1>4. PICK profile \in Seq(OptionalToken) : unsent'[u] = Append(profile, defaults.FCMToken)
  <2>1. NoToken \in OptionalToken
    BY EmptyTypes
  <2>2. updateUser(u, unsent[u]) \in Seq(OptionalToken)
    BY <1>3, <2>1 DEF updateUser
  <2>3. QED
    BY <1>1, <1>2, <1>3, <2>2 DEF SignInWrites
<1>5. unsent'[u] # <<>> /\ unsent'[u][Len(unsent'[u])] = defaults.FCMToken
  BY <1>2, <1>4, LastWrite
<1>6. QED
  BY <1>2, <1>5 DEF TokenToCome

\* A write to the node of the account that is signed in is not denied.
LEMMA SentRegistration ==
  ASSUME SessionInvariant, NEW w \in Users, WriteSent(w)
  PROVE  RegistrationStep
<1>1. SUFFICES ASSUME NEW u \in Users, defaults'.userSession = u, auth' = u
      PROVE  RegistrationKept(u)
  BY DEF RegistrationStep
<1>2. /\ defaults' = defaults /\ auth' = auth /\ unregistered' = unregistered
      /\ unsent \in [Users -> Seq(OptionalToken)] /\ userData \in [Users -> OptionalToken]
  BY DEF WriteSent, SessionInvariant, SessionTypeOK, historyVars
<1>3. TokenToCome(u)' = TokenToCome(u)
  <2>1. CASE u # w
    BY <1>2, <2>1 DEF WriteSent, TokenToCome
  <2>2. CASE u = w
    <3>1. auth = u
      BY <1>1, <1>2
    <3>2. userData'[u] = Head(unsent[u]) /\ unsent'[u] = Tail(unsent[u]) /\ unsent[u] # <<>>
      BY <1>2, <2>2, <3>1 DEF WriteSent
    <3>3. unsent[u] \in Seq(OptionalToken)
      BY <1>2
    <3>4. QED
      BY <3>2, <3>3, FirstWrite DEF TokenToCome
  <2>3. QED
    BY <2>1, <2>2
<1>4. QED
  BY <1>1, <1>2, <1>3 DEF RegistrationKept

\* A save replaces the node of the account the screen was shown for.
LEMMA SaveRegistration ==
  ASSUME SessionTypeOK, Save
  PROVE  RegistrationStep
<1>1. SUFFICES ASSUME NEW u \in Users, defaults'.userSession = u, auth' = u,
                      ~unregistered'
      PROVE  RegistrationKept(u)
  BY DEF RegistrationStep
<1>2. /\ defaults' = defaults /\ auth' = auth /\ userData' = userData
      /\ app.settingsUser # u /\ ~unregistered /\ unsent'[u] = unsent[u]
  BY <1>1 DEF Save, SessionTypeOK, serverVars, historyVars
<1>3. TokenToCome(u)' = TokenToCome(u)
  BY <1>2 DEF TokenToCome
<1>4. QED
  BY <1>1, <1>2, <1>3 DEF RegistrationKept

\* The other steps leave the session's registration alone, or end it.
LEMMA OtherRegistration ==
  ASSUME SessionInvariant, [SessionNext]_sessionVars,
         ~ (Kill \/ SignInFails \/ SaveForNobody \/ TokenReceived \/ InstanceIDAnswers
            \/ Save \/ (\E named \in BOOLEAN : DidSignIn(named))
            \/ \E u \in Users : WriteSent(u))
  PROVE  RegistrationStep
<1>1. SUFFICES ASSUME NEW u \in Users, defaults'.userSession = u, auth' = u
      PROVE  RegistrationKept(u)
  BY DEF RegistrationStep
<1>2. u # NoUser /\ defaults \in UserDefaults
  BY SessionAssumption DEF SessionInvariant, SessionTypeOK
<1>3. CASE Launch
  BY <1>1, <1>2, <1>3, LaunchKeepsSession
  DEF Launch, serverVars, historyVars, RegistrationKept, TokenToCome, isLoggedIn
<1>4. CASE Reinstall
  BY <1>1, <1>2, <1>4 DEF Reinstall, EmptyDefaults
<1>5. CASE Logout \/ LogoutIsCutShort
  BY <1>1, <1>2, <1>5 DEF Logout, LogoutIsCutShort
<1>9. CASE \E v \in Users : AccountSignsIn(v)
  BY <1>1, <1>2, <1>9 DEF AccountSignsIn, SessionInvariant, SignInInvariant, isLoggedIn
<1>6. CASE \/ TokenChanges \/ InstanceIDFails \/ PermissionChanges
           \/ AskForSignIn \/ AskOnMapTap \/ TapSubscribe \/ AnswerPrompt
           \/ LeavePage \/ PickPicture \/ ShowSettings
           \/ \E v \in Users : UploadCompletes(v) \/ UploadFails(v)
           \/ \E v \in Users : PictureNotFound(v)
           \/ UNCHANGED sessionVars
  <2>1. UNCHANGED <<defaults, auth, unsent, userData, unregistered>>
    BY <1>6
    DEF TokenChanges, InstanceIDFails, PermissionChanges, AskForSignIn,
        AskOnMapTap, TapSubscribe, AnswerPrompt, LeavePage, PickPicture, ShowSettings,
        UploadCompletes, UploadFails, PictureNotFound, sessionVars, serverVars, historyVars
  <2>2. QED
    BY <1>1, <2>1 DEF RegistrationKept, TokenToCome
<1>7. CASE StatusChecked \/ \E v \in Users : PictureFound(v)
  <2>1. /\ UNCHANGED <<auth, unsent, userData, unregistered>>
        /\ defaults'.userSession = defaults.userSession
        /\ defaults'.FCMToken = defaults.FCMToken
    BY <1>2, <1>7 DEF StatusChecked, PictureFound, serverVars, historyVars, UserDefaults
  <2>2. QED
    BY <1>1, <2>1 DEF RegistrationKept, TokenToCome
<1>8. QED
  BY <1>3, <1>4, <1>5, <1>6, <1>7, <1>9 DEF SessionNext

\* Every step is a registration step.
LEMMA EveryStepIsRegistrationStep ==
  ASSUME SessionInvariant, [SessionNext]_sessionVars
  PROVE  RegistrationStep
<1>0. SessionTypeOK
  BY DEF SessionInvariant
<1>1. CASE Kill \/ SignInFails \/ SaveForNobody
  BY <1>0, <1>1, EndRegistration DEF Kill, SignInFails, SaveForNobody, serverVars, historyVars
<1>2. CASE TokenReceived
  <2>1. CASE isLoggedIn
    BY <1>0, <1>2, <2>1, RegisterRegistration DEF TokenReceived, SessionTypeOK
  <2>2. CASE ~isLoggedIn
    BY <1>0, <1>2, <2>2, SessionAssumption
    DEF TokenReceived, SessionTypeOK, UserDefaults, isLoggedIn, RegistrationStep
  <2>3. QED
    BY <2>1, <2>2
<1>3. CASE InstanceIDAnswers
  <2>1. CASE isLoggedIn
    BY <1>0, <1>3, <2>1, RegisterRegistration DEF InstanceIDAnswers, SessionTypeOK
  <2>2. CASE ~isLoggedIn
    BY <1>0, <1>3, <2>2, SessionAssumption
    DEF InstanceIDAnswers, SessionTypeOK, UserDefaults, isLoggedIn, RegistrationStep
  <2>3. QED
    BY <2>1, <2>2
<1>4. CASE Save
  BY <1>0, <1>4, SaveRegistration
<1>5. CASE \E named \in BOOLEAN : DidSignIn(named)
  BY <1>5, SignInRegistration
<1>6. CASE \E u \in Users : WriteSent(u)
  BY <1>6, SentRegistration
<1>7. QED
  BY <1>1, <1>2, <1>3, <1>4, <1>5, <1>6, OtherRegistration

\* The phone of the account signed in is registered for it, whatever the
\* order of sign-ins, sign-outs, tokens and writes (AuthManager, AppDelegate).
THEOREM PhoneIsRegistered == SessionSpec => []SignedInPhoneIsRegistered
<1>1. SessionInit => SignedInPhoneIsRegistered
  BY SessionAssumption DEF SessionInit, SignedInPhoneIsRegistered, EmptyDefaults
<1>2. ASSUME SignedInPhoneIsRegistered, SessionInvariant, [SessionNext]_sessionVars
      PROVE  SignedInPhoneIsRegistered'
  <2>1. SUFFICES ASSUME NEW u \in Users, defaults'.userSession = u, auth' = u,
                        defaults'.FCMToken # NoToken, ~unregistered'
        PROVE  TokenToCome(u)' = defaults'.FCMToken
    BY DEF SignedInPhoneIsRegistered
  <2>2. RegistrationKept(u) \/ RegistrationWritten(u)
    BY <1>2, <2>1, EveryStepIsRegistrationStep DEF RegistrationStep
  <2>3. CASE RegistrationKept(u)
    BY <1>2, <2>1, <2>3 DEF RegistrationKept, SignedInPhoneIsRegistered
  <2>4. CASE RegistrationWritten(u)
    BY <2>1, <2>4 DEF RegistrationWritten
  <2>5. QED
    BY <2>2, <2>3, <2>4
<1>3. QED
  BY <1>1, <1>2, SessionInvariantHolds, PTL DEF SessionSpec
=============================================================================
