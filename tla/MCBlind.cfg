SPECIFICATION BlindSpec
CONSTANTS
  TravelUp = 5
  TravelDown = 3
  Tilt = 1
  Step = 1
  Rest = 1
  BootOpen = TRUE
  HomeAtBoot = TRUE
  PublishEvery = 0
  Elapsed = {1, 2}
  MaxAdrift = 2
  Percents = {0, 100}
  HalfWord = 3
INVARIANTS
  TypeOK
  RelaysMatchMotion
  TargetAhead
  DriftsOnlyByCommands
  HomingMeasures
PROPERTIES
  ArrivesOnTarget
