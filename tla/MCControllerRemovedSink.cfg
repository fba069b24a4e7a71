CONSTANTS
  Threads = {t1}
  NoThread = NoThread
  Sinks = {s1}
  NoopSink = NoopSink
  Logger = Logger
  Tracer = Tracer
  Throwing = {}
  Configs = {cDefault, cTraced, cInvalid}
  ValidConfigs = {cDefault, cTraced}
  TracedConfigs = {cTraced}
  DefaultConfig = cDefault
  Torn = Torn
SPECIFICATION Spec
PROPERTY RemovedSinkIsSilent
