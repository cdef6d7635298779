SPECIFICATION Spec
CONSTANTS
  Client = {c1}
  Worker = {w1, w2}
CHECK_DEADLOCK FALSE
PROPERTIES SignalEnds
