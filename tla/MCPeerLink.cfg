SPECIFICATION LinkSpec
CONSTANTS
  Fd = {3, 4, 5}
  DEAD = 2
  Gap = 1
  MaxWait = 1
  MaxLag = 1
  MaxFaults = 1
INVARIANTS OutFdOwned
PROPERTIES NoFalseDeath LinkHeals
