CONSTANTS
  Threads = {t1, t2}
  NoThread = NoThread
  Queues = {g1}
  Family = f1
  Families = {f1}
  NoFamily = NoFamily
  FamilyOf <- MCFamilyOf
  Encoders = {e1, e2}
  Null = Null
  Infos <- MCInfos
  MaxItems = 2
  MaxSubmits = 2
SPECIFICATION FairVulkanSpec
INVARIANTS
  VulkanTypeOK
  FenceCovers
  ExecutesLive
  ObjectsOwned
  NothingLost
  CallerOrderKept
PROPERTY VulkanMutexReleased
CHECK_DEADLOCK FALSE
