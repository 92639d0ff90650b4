SPECIFICATION Spec
CONSTANTS
  KvMeta = kv_meta
  t1 = t1
  t2 = t2
  t3 = t3
  t4 = t4
  Objects = {kv_meta, t1, t2, t3, t4}
  Files <- ThreeFiles
  MaxFaults = 2
  MaxKills = 3
INVARIANTS
  VersionIsTruthful
  OpenedIsMigrated
  FailsOnlyAfterFault
