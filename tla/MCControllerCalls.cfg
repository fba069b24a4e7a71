CONSTANTS
  Threads = {t1, t2}
  NoThread = NoThread
  Sinks = {s1}
  NoopSink = NoopSink
  Logger = Logger
  Tracer = Tracer
  Throwing = {s1}
  Configs = {cDefault, cTraced, cInvalid}
  ValidConfigs = {cDefault, cTraced}
  TracedConfigs = {cTraced}
  DefaultConfig = cDefault
  Torn = Torn
SPECIFICATION CallsSpec
INVARIANTS
  MutexHeldInMutators
  StoppingNeverReported
  ConfigReadsEffective
  IInv
  FrameTracesOnlyWhileRunning
PROPERTIES
  ImplementsContract
  HolderReleases
