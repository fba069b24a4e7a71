CONSTANTS
  DrawCounts = 4
  Null = Null
  Snapshots <- MCSnapshots
  Revisions <- MCRevisions
  FirstRevision <- MCFirstRevision
  Keys = {k1, k2}
  States = {opaque, alpha}
  MaxLookups = 4
SPECIFICATION Spec
INVARIANTS
  PlanRunnable
  PlanComplete
  CacheOfRevision
PROPERTY MaterialsKept
