\* A negative level (samples below it, at it, and of the other sign) and a
\* level of zero; scalers that are raised, lowered and set to zero.
CONSTANTS
  L = 5
  TRIG = 3
  SCALER_MAX = 4
  RATE_MAX = 2
  Sample <- NegSample
  Level <- Levels
  Scaler <- Scalers
SPECIFICATION Spec
INVARIANT RateNotLow
PROPERTY PassedOnlyByWrite
