SPECIFICATION FileSpec
CONSTANTS
  Writer = {w1, w2, w3}
  Initial = Initial
  Torn = Torn
  MaxPowerLosses = 2
INVARIANT DurableSurvives
PROPERTY IsRegister
