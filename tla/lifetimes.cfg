SPECIFICATION Spec
CONSTANTS
  Durations <- MCDurations
  Delays = {300, 900}
  MaxClock = 3000
  None = None
INVARIANTS TypeOK LifetimesNested CookieGap
