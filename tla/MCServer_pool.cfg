SPECIFICATION Spec
CONSTANTS
  Client = {c1, c2, c3}
  Worker = {w1, w2}
CHECK_DEADLOCK FALSE
INVARIANTS ServedInOrder OneOwner NoSleepOnWork DrainedBeforeSave
PROPERTIES AcceptedIsServed 
