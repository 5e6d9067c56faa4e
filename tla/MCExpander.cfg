SPECIFICATION FairSpec
CONSTANTS
  button = button
  up = up
  down = down
  Last = 2
  In = {button}
  Out = {up, down}
  ChipOf <- Wiring
  ActiveHigh = {up}
  Interlocks = {{up, down}}
  Safety = 3
  Elapsed = {1, 2}
  Slowest = 2
  MaxFailures = 1
INVARIANTS
  NothingForgotten
  ShadowCatchesUp
  InterlockHolds
PROPERTIES
  OutputsFollow
