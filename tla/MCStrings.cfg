SPECIFICATION Spec
CONSTANTS
  Worker = {1, 2}
  Slots <- MCSlots
  MaxCmds = 4
  MaxTime = 1
  Absent = Absent
  Forever = Forever
  EOF = EOF
  Hole = Hole
CHECK_DEADLOCK FALSE
INVARIANT CommandsAreAtomic
  
