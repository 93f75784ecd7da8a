SPECIFICATION Spec
CONSTANTS
  Pollers = {p1}
  Cancellers = {p1, c1}
INVARIANTS CancelledIsDown
PROPERTIES FinalIsTrue CancelDoesAll
