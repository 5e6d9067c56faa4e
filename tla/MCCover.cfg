SPECIFICATION Spec
CONSTANTS
  TravelUp = 4
  TravelDown = 3
  Tilt = 2
  Step = 1
  Rest = 2
  BootOpen = TRUE
  HomeAtBoot = FALSE
  PublishEvery = 2
  Elapsed = {1, 2}
  Percents = {0, 50, 100}
  HalfWord = 4
PROPERTY
  FullRest
