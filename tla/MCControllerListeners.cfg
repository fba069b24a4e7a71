CONSTANTS
  Threads = {t1, t2}
  NoThread = NoThread
  Sinks = {s1}
  NoopSink = NoopSink
  Logger = Logger
  Tracer = Tracer
  Throwing = {Logger, Tracer}
  Configs = {cDefault, cTraced, cInvalid}
  ValidConfigs = {cDefault, cTraced}
  TracedConfigs = {cTraced}
  DefaultConfig = cDefault
  Torn = Torn
SPECIFICATION Spec
SYMMETRY Symmetry
INVARIANTS
  StreamsWellFormed
  SinkListSound
