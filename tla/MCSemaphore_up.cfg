\* Two tasks and no unit at first: the ups come one by one.
CONSTANTS
  Tasks = {t1, t2}
  COUNT = 0
  COUNT_MOD = 8
  MAX_UPS = 2
  MAX_DOWNS = 1
SPECIFICATION SemaphoreFairSpec
CHECK_DEADLOCK FALSE
PROPERTIES UpEndsDown
