SPECIFICATION FairSpec
CONSTANTS
  Account = {"lagos", "abuja"}
  Client = {"phone", "laptop"}
  Sid = {"s1", "s2", "s3"}
  Inactivity = 1
  PasscodeWindow = 1
  MaxInFlight = 1
PROPERTIES
  LiveSessionKept
  PasscodeWindowCloses
  AbandonedLetsGo
CHECK_DEADLOCK FALSE
