CONSTANTS
  Parts = {"register"}
  t1 = t1
  t2 = t2
  t3 = t3
  d1 = d1
  d2 = d2
  d3 = d3
  d4 = d4
  Alarm = {t1, t2, t3}
  Descr = {d1, d2, d3, d4}
  None = None
  MaxTime = 5
  MaxWatched = 3
  Active = FALSE
  directory_alarm = t1
  Soon = 1
  Interval = 2
  Configured = TRUE
  Request <- Three
  Long <- TooLongRequest
  EarlyDeath = TRUE
  MaxLines = 2
  NoRequest = NoRequest
SYMMETRY Alike
SPECIFICATION Spec
PROPERTIES
  OthersStayScheduled
CHECK_DEADLOCK FALSE
