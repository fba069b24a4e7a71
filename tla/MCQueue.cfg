CONSTANTS
  Queues = {q1, q2}
  Line = tl
  Fence = fn
  Timelines = {tl}
  Fences = {fn}
  Null = Null
  Submissions <- MCSubmissions
  Batches <- MCBatches
  MaxSubmissions = 3
SPECIFICATION OwnedClient
INVARIANTS
  StableOrder
  VerdictIsLoop
  HeadsReady
  IInv
PROPERTY NeverRegress
