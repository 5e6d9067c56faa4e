SPECIFICATION Spec
CONSTANTS
  pir = pir
  far = far
  lamp = lamp
  fan = fan
  Local = {pir}
  Remote = {far}
  Lights = {lamp, fan}
  Gated = {lamp}
  Rules = {1, 2}
  Sources <- SharedRemote
  Targets <- Wiring
  ToggleGroups = {{lamp}}
  OffDelay = 2
  Debounce = 1
  Elapsed = {1, 2}
INVARIANTS
  FanOutIsFree
