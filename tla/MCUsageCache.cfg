SPECIFICATION LiveSpec
CONSTANTS
  Handlers = {h1, h2, h3}
  MaxFlights = 3
  None = None
INVARIANTS UsageTypeOK SingleFlight NeverGoesBack
PROPERTIES AllAnswered
CHECK_DEADLOCK FALSE
