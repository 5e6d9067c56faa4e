SPECIFICATION FairPairSpec
CONSTANTS
  TravelUp = 4
  TravelDown = 3
  Tilt = 1
  Step = 1
  Rest = 2
  BootOpen = TRUE
  HomeAtBoot = FALSE
  PublishEvery = 1
  Elapsed = {1}
  Percents = {0, 50, 100}
  HalfWord = 3
  Debounce = 1
  Gap = 2
  Hold = 2
  HoldLong = 3
INVARIANTS
  RestIsInOrder
  DeadManStops
  CommittedHeadsForEnd
PROPERTIES
  MotorSpec
  SettlesWhenLeftAlone
  SettlesWhenLetGo
