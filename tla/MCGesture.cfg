SPECIFICATION FairGestureSpec
CONSTANTS
  Debounce = 2
  Gap = 4
  Hold = 3
  HoldLong = 6
  Elapsed = {1, 2}
INVARIANTS
  BootReportsNoPress
  NoPressOverdue
PROPERTIES
  FollowsGrammar
  LeftAloneIsReported
