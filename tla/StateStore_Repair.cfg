SPECIFICATION StoreSpec
CONSTANTS
  putA = putA
  putB = putB
  dropB = dropB
  setA = setA
  look = look
  s1 = s1
  s2 = s2
  idA = idA
  idB = idB
  Nobody = Nobody
  Ids = {idA, idB}
  Stores = {s1}
  Calls = {putA, putB, look}
  StoreOf <- OneStore
  IdOf <- MCIdOf
  Kind <- MCKind
  Faults = {}
INVARIANT
  NothingIsLost
CHECK_DEADLOCK FALSE
