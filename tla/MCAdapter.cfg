CONSTANTS
  Observers = {o1, o2}
  Threads = {t1, t2}
  Null = Null
  MaxEntries = 3
SPECIFICATION FairSpec
INVARIANTS
  TypeOK
  RegistryExact
  ExportLinearizable
PROPERTY MutexReleased
