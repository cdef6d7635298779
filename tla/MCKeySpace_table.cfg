SPECIFICATION Spec
CONSTANTS
  k1 = k1
  k2 = k2
  k3 = k3
  Key = {k1, k2, k3}
  Hash <- MCHash3
  INITIAL_CAPACITY = 4
  MaxCapacity = 8
  MaxVersion = 1
  Metas <- MCOneMeta
  Ttls = {0}
  NoKey = NoKey
  NoObject = NoObject
  NoMeta = NoMeta
  NoRequest = NoRequest
INVARIANTS KeysFindable KeysComplete LoadBounded VersionCoversObjects
PROPERTY ImplementsMap
