CONSTANTS
  Queues = {q1}
  Line = tl
  Timelines = {tl}
  Fences = {}
  Null = Null
  Submissions <- MCSubmissions
  Batches = {}
  DrawCounts = 4
  Encoders = {e1, e2}
  Plans <- MCPlans
  AdapterCount = 1
  ImageCounts = {1, 2}
  MaxCommands = 1
  MaxSubmissions = 2
SPECIFICATION AnyClient
INVARIANT PendingAlive
