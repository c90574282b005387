SPECIFICATION Spec
CONSTANTS
  Null = Null
  Boot = "boot"
  Task <- MCTask
  Offered <- MCOffered
  Starts <- MCStarts
  Seed <- MCSeed
  SearchCount = 1
  MaxCrashes = 1
INVARIANTS
  TypeOK
  GrantsNamePrincipals
  ListingsAgree
  SomeoneAdministers
  UsersAreWhole
  CoversAreKept
  TokensDieWithUsers
  RefusalsChangeNothing
PROPERTIES
  AnswersAreAllowed
  NewItemsHaveNoRules
CHECK_DEADLOCK FALSE
