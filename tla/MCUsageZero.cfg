SPECIFICATION Spec
CONSTANTS
  Handlers = {h1, h2, h3}
  MaxFlights = 3
  None = None
INVARIANTS AnswerHasSnapshot
CHECK_DEADLOCK FALSE
