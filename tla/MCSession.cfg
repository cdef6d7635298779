SPECIFICATION SessionSpec
CONSTANTS
  Command <- MCCommand
  RX = 5
  LINE = 3
  KEPT = 1
  ELEMS = 1
  MaxCmds = 3
  MaxMsgs = 1
CHECK_DEADLOCK FALSE
INVARIANTS LinesIntact
PROPERTIES AnsweredInStep
