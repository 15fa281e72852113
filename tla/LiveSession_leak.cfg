SPECIFICATION Spec
CONSTANTS
  f1 = f1
  f2 = f2
  b1 = b1
  b2 = b2
  Foreground = {f1}
  Background = {b1}
  MaxTexts = 0
  MaxInFlight = 2
  BufCap = 2
  Nobody = Nobody
PROPERTIES
  ForegroundUndisturbed
CHECK_DEADLOCK FALSE
