CONSTANTS
  national = national
  Settings <- SomeSettings
  Role <- Roles
  Admin = national
  MaxLink = 2
  MaxTab = 2
  AskLimit = 2
  Mishaps = 2
SPECIFICATION Spec
INVARIANTS PilotPromises LinkOpensOnce
PROPERTIES ActsAsRegistered GetsIn
