SPECIFICATION RingSpec
CONSTANTS
  repl_cap = 3
  MaxMsgs = 4
  NoItem = NoItem
INVARIANT ItemIsLive
