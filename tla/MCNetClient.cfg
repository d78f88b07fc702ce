SPECIFICATION FairSpec
CONSTANTS
  Caller = {a, b, c}
  Retries = 2
  retry_on_429 = TRUE
  failure_threshold = 3
  reset_seconds = 2
  Faults = {"undecodable", "cancelled"}
INVARIANTS OneProbe MarkIsBacked
PROPERTIES BacksOff ClosesAgain
