CONSTANTS
  Threads = {t1, t2}
  NoThread = NoThread
  Queues = {g1, g2}
  Family = f1
  Families = {f1}
  NoFamily = NoFamily
  FamilyOf <- MCFamilyOf
  Encoders = {e1, e2}
  Null = Null
  Infos <- MCInfos
  MaxItems = 1
  MaxSubmits = 2
SPECIFICATION VulkanSpec
INVARIANT VkQueueGuarded
