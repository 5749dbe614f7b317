SPECIFICATION StoreFairSpec
CONSTANTS
  putA = putA
  putB = putB
  dropB = dropB
  setA = setA
  look = look
  s1 = s1
  s2 = s2
  idA = idA
  idB = idB
  Nobody = Nobody
  Ids = {idA, idB}
  Stores = {s1, s2}
  Calls = {putA, setA, dropB, look}
  StoreOf <- TwoStores
  IdOf <- MCIdOf
  Kind <- MCKind
  Faults = {"crash", "trailing", "garbage"}
CHECK_DEADLOCK FALSE
INVARIANTS
  QueueLosesNothing
PROPERTIES
  CallsEnd
