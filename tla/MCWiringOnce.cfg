SPECIFICATION Spec
CONSTANTS
  Wrong = Wrong
  TooLong = "long"
  Networks <- Logins
  Secrets <- Logins
  Entries <- File
  MaxEntries <- Lengths
  MaxFile = 6
CHECK_DEADLOCK FALSE
INVARIANT OncePerEvent
