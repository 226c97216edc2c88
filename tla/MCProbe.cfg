SPECIFICATION Spec
CONSTANTS
  n1 = n1
  n2 = n2
  None = None
  Messages <- MCMessages
  Probes <- MCProbes
  Handlers = {h1, h2}
  Skew = 1
  TTL = 4
  Lag = 1
  Drift = 2
  MaxTime = 9
INVARIANTS ProbeAnswered
