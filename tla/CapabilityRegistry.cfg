SPECIFICATION RegistrySpec
CONSTANTS
  Tasks = {t1, t2}
  Versions = {v1, v2, bad}
  Valid = {v1, v2}
  RateLimit = 2
  MaxNow = 3
  MaxCalls = 4
  None = None
CHECK_DEADLOCK FALSE
PROPERTY OverwriteNeedsOverlap LossNeedsOverlap
