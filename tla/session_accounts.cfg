SPECIFICATION SessionFairSpec
CONSTANTS
  Users = {u1, u2}
  NoUser = NoUser
  MaxTokens = 2
  MaxUnsent = 0
  MaxCalls = 1
  Lifecycle <- KillAndReinstall
INVARIANT SessionTypeOK
INVARIANT SignedInPhoneIsRegistered
INVARIANT SessionIsAuthenticated
INVARIANT PermissionIsKnown
PROPERTY SessionEndsBySignOut
PROPERTY LaunchRegistersToken
