SPECIFICATION FairSpec
CONSTANTS
  job = job
  twin = twin
  rival = rival
  late = late
  again = again
  k1 = k1
  ownA = ownA
  ownB = ownB
  ownC = ownC
  NoOwner = NoOwner
  Tasks = {job, twin, rival, late, again}
  Keys <- MCKeys
  Owners <- MCOwners
  KeyOf <- MCKeyOf
  OwnerOf <- MCOwnerOf
  Leaders = {twin, late}
  AutoRenew = {job, twin, rival, late, again}
  Ttl <- MixedTtl
  RenewOption <- MixedRenew
  WaitMs <- MixedWait
  RetryMs = 2
  MinRenewEvery = 1
  HandTtl = 4
  MaxLag = 1
INVARIANTS
  MutualExclusion
  NoOrphanLock
PROPERTIES
  MutexSpec
  ReleasedOnlyByOwner
  WaitEnds
  DeposedLeaderHears
