SPECIFICATION FairSpec
CONSTANTS
  pir = pir
  far = far
  lamp = lamp
  fan = fan
  Local = {pir}
  Remote = {far}
  Lights = {lamp, fan}
  Gated = {lamp}
  Rules = {1, 2}
  Sources <- SharedLocal
  Targets <- Wiring
  ToggleGroups = {{lamp}}
  OffDelay = 3
  Debounce = 1
  Elapsed = {1, 2}
INVARIANTS
  CountdownWhileQuiet
  RulesSeeSensors
PROPERTIES
  OffOnlyAfterDelay
  DayIsLeftAlone
  EmptyRoomGoesDark
