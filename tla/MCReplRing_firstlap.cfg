SPECIFICATION SpecFirstLap
CONSTANTS
  repl_cap = 5
  MaxMsgs = 5
  NoItem = NoItem
INVARIANTS QueueIsFifo ItemIsLive NothingLeaks
PROPERTIES QueuedIsSent 
