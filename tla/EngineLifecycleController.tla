---------------------- MODULE EngineLifecycleController ----------------------
(***************************************************************************)
(* engine/core: EngineLifecycleController called by several host threads.  *)
(*                                                                         *)
(* A mutator (initialize, tick, pause, resume, shutdown) holds             *)
(* state_mutex_ from its first line to its return and, inside it, emits an *)
(* attempt event, checks its preconditions, changes state_ and emits a     *)
(* success or a failure event.  Emitting copies the sink list under        *)
(* sinks_mutex_ and then calls every copied sink, and after them the       *)
(* logger, without sinks_mutex_: the list may change between two sinks,    *)
(* from another thread or from inside a sink.  The sections guarded by     *)
(* sinks_mutex_ call nothing and take no other lock, so each of them is    *)
(* one atomic step and the mutex itself is not a variable.                 *)
(***************************************************************************)
EXTENDS Naturals, Sequences, SequencesExt

CONSTANTS
  Threads,        \* the threads of the host application
  NoThread,       \* holder of a free mutex
  Sinks,          \* the custom IObservabilitySink objects
  NoopSink,       \* the member noop_sink_
  Logger,         \* the IEngineLogger a host may install
  Tracer,         \* the IEngineTracer a host may install
  Throwing,       \* the sinks, logger and tracer that may throw
  Configs,        \* the EngineConfig values a caller may pass
  ValidConfigs,   \* those for which EngineConfig::is_valid() holds
  TracedConfigs,  \* those with enable_frame_trace
  DefaultConfig,  \* the value-initialised config_ member
  Torn            \* config_ while another thread is assigning to it

ASSUME ControllerAssumption ==
  /\ NoThread \notin Threads
  /\ NoopSink \notin Sinks
  /\ Logger \notin Sinks \cup {NoopSink}
  /\ Tracer \notin Sinks \cup {NoopSink, Logger}
  /\ Throwing \subseteq Sinks \cup {Logger, Tracer}
  /\ ValidConfigs \subseteq Configs
  /\ TracedConfigs \subseteq Configs
  /\ DefaultConfig \in Configs
  /\ Torn \notin Configs
  /\ Configs \cap {"none", "pending", "threw", "Stopping"} = {}

VARIABLES
  state,       \* state_
  config,      \* config_
  stateMutex,  \* the thread that holds state_mutex_
  sinks,       \* observability_sinks_, in registration order
  logger,      \* whether logger_ is non-null
  tracer,      \* whether tracer_ is non-null
  pc,          \* where each thread is
  request,     \* the call each thread is making
  before,      \* the local state_before of that call
  signal,      \* the signal it is exporting
  copy,        \* the rest of its local sinks_copy
  result,      \* what the call returns
  lastSeen     \* history: the last lifecycle event each listener received
               \* since it was registered and since the last exception

shared == <<state, config, stateMutex>>
clients == <<sinks, logger, tracer, lastSeen>>
locals == <<request, before, signal, copy, result>>
vars == <<shared, clients, pc, locals>>

-----------------------------------------------------------------------------
EngineStates == {"Uninitialized", "Initialized", "Running", "Paused",
                 "Stopping", "Stopped"}

Mutators == {"initialize", "tick", "pause", "resume", "shutdown"}
Operations == Mutators \cup {"state", "config"}

Codes == {"Ok",
          "LifecycleInitializeInvalidState", "LifecycleInvalidConfig",
          "LifecycleTickInvalidState", "LifecycleInvalidFrameContext",
          "LifecyclePauseInvalidState", "LifecycleResumeInvalidState",
          "LifecycleShutdownInvalidState"}

Phases == {"Attempt", "Success", "Failure"}

(* A call: config is the argument of initialize, negative says whether the *)
(* delta_time given to tick is below zero.                                 *)
Requests == [op : Operations, config : Configs, negative : BOOLEAN]
NoRequest == [op |-> "state", config |-> DefaultConfig, negative |-> FALSE]

Signals == [kind : {"none", "lifecycle", "frame"}, op : Mutators,
            phase : Phases, before : EngineStates, after : EngineStates,
            code : Codes]

LifecycleEvent(op, phase, sb, sa, code) ==
  [kind |-> "lifecycle", op |-> op, phase |-> phase,
   before |-> sb, after |-> sa, code |-> code]

(* A FrameTraceEvent, and the absence of any signal; only kind matters.    *)
FrameTrace ==
  [kind |-> "frame", op |-> "tick", phase |-> "Attempt",
   before |-> "Uninitialized", after |-> "Uninitialized", code |-> "Ok"]
NoSignal == [FrameTrace EXCEPT !.kind = "none"]

Listeners == Sinks \cup {Logger}

Locations == {"idle", "lock", "export", "deliver", "decide", "store", "stop",
              "unlock", "deref", "return"}

(* The locations between acquiring state_mutex_ and releasing it.          *)
Critical == {"export", "deliver", "decide", "store", "stop", "unlock"}

Goto(t, l) == pc' = [pc EXCEPT ![t] = l]

-----------------------------------------------------------------------------
Init ==
  /\ state = "Uninitialized"
  /\ config = DefaultConfig
  /\ stateMutex = NoThread
  /\ sinks = <<NoopSink>>
  /\ logger = FALSE
  /\ tracer = FALSE
  /\ pc = [t \in Threads |-> "idle"]
  /\ request = [t \in Threads |-> NoRequest]
  /\ before = [t \in Threads |-> "Uninitialized"]
  /\ signal = [t \in Threads |-> NoSignal]
  /\ copy = [t \in Threads |-> <<>>]
  /\ result = [t \in Threads |-> "none"]
  /\ lastSeen = [l \in Listeners |-> NoSignal]

(* A thread of the host calls the controller.  config() may be called only *)
(* after a successful initialize.                                          *)
Call(t, r) ==
  /\ pc[t] = "idle"
  /\ r.op = "config" => state # "Uninitialized"
  /\ request' = [request EXCEPT ![t] = r]
  /\ Goto(t, "lock")
  /\ UNCHANGED <<shared, clients, before, signal, copy, result>>

Return(t) ==
  /\ pc[t] = "return"
  /\ request' = [request EXCEPT ![t] = NoRequest]
  /\ result' = [result EXCEPT ![t] = "none"]
  /\ before' = [before EXCEPT ![t] = "Uninitialized"]
  /\ signal' = [signal EXCEPT ![t] = NoSignal]
  /\ Goto(t, "idle")
  /\ UNCHANGED <<shared, clients, copy>>

-----------------------------------------------------------------------------
(* A variant of ReadState that reads state_ without the lock.              *)
ReadStateUnlocked(t) ==
  /\ pc[t] = "lock" /\ request[t].op = "state"
  /\ result' = [result EXCEPT ![t] = state]
  /\ Goto(t, "return")
  /\ UNCHANGED <<shared, clients, request, before, signal, copy>>

(* state(): the lock, the read and the unlock.                             *)
ReadState(t) ==
  /\ pc[t] = "lock" /\ request[t].op = "state"
  /\ stateMutex = NoThread
  /\ result' = [result EXCEPT ![t] = state]
  /\ Goto(t, "return")
  /\ UNCHANGED <<shared, clients, request, before, signal, copy>>

(* config() returns a reference under the lock ...                         *)
ReferConfig(t) ==
  /\ pc[t] = "lock" /\ request[t].op = "config"
  /\ stateMutex = NoThread
  /\ Goto(t, "deref")
  /\ UNCHANGED <<shared, clients, locals>>

(* ... through which the caller reads config_ later, without the lock.     *)
DerefConfig(t) ==
  /\ pc[t] = "deref"
  /\ result' = [result EXCEPT ![t] = config]
  /\ Goto(t, "return")
  /\ UNCHANGED <<shared, clients, request, before, signal, copy>>

-----------------------------------------------------------------------------
(* A variant of LockAndAttempt that does not wait for the mutex.           *)
AttemptUnlocked(t) ==
  /\ pc[t] = "lock" /\ request[t].op \in Mutators
  /\ stateMutex' = t
  /\ before' = [before EXCEPT ![t] = state]
  /\ signal' = [signal EXCEPT ![t] =
                  LifecycleEvent(request[t].op, "Attempt", state, state, "Ok")]
  /\ Goto(t, "export")
  /\ UNCHANGED <<state, config, clients, request, copy, result>>

(* Every mutator starts with the scoped_lock, state_before and the attempt *)
(* event.                                                                  *)
LockAndAttempt(t) ==
  /\ pc[t] = "lock" /\ request[t].op \in Mutators
  /\ stateMutex = NoThread
  /\ stateMutex' = t
  /\ before' = [before EXCEPT ![t] = state]
  /\ signal' = [signal EXCEPT ![t] =
                  LifecycleEvent(request[t].op, "Attempt", state, state, "Ok")]
  /\ Goto(t, "export")
  /\ UNCHANGED <<state, config, clients, request, copy, result>>

(* export_observability_signal: the copy under sinks_mutex_ ...            *)
CopySinks(t) ==
  /\ pc[t] = "export"
  /\ copy' = [copy EXCEPT ![t] = sinks]
  /\ Goto(t, "deliver")
  /\ UNCHANGED <<shared, clients, request, before, signal, result>>

(* The event reaches listener l, which is noted if l is still registered.  *)
Registered(l) == l \in Range(sinks) \/ (l = Logger /\ logger)

Receive(l, s) ==
  lastSeen' = IF l \in Listeners /\ Registered(l) /\ s.kind = "lifecycle"
              THEN [lastSeen EXCEPT ![l] = s]
              ELSE lastSeen

(* ... and the call of each copied sink, outside it.                       *)
DeliverToSink(t) ==
  /\ pc[t] = "deliver" /\ copy[t] # <<>>
  /\ Receive(Head(copy[t]), signal[t])
  /\ copy' = [copy EXCEPT ![t] = Tail(@)]
  /\ UNCHANGED <<shared, sinks, logger, tracer, pc, request, before, signal,
                 result>>

(* Once the sinks are done emit_lifecycle_event calls the logger.  After   *)
(* an attempt the operation goes on, after its outcome it returns.         *)
EndEvent(t) ==
  /\ pc[t] = "deliver" /\ copy[t] = <<>>
  /\ signal[t].kind = "lifecycle"
  /\ Receive(Logger, signal[t])
  /\ Goto(t, IF signal[t].phase = "Attempt" THEN "decide" ELSE "unlock")
  /\ UNCHANGED <<shared, sinks, logger, tracer, locals>>

(* trace_frame_event calls the tracer, and tick emits its success event.   *)
EndFrameTrace(t) ==
  /\ pc[t] = "deliver" /\ copy[t] = <<>>
  /\ signal[t].kind = "frame"
  /\ signal' = [signal EXCEPT ![t] =
                  LifecycleEvent("tick", "Success", before[t], state, "Ok")]
  /\ Goto(t, "export")
  /\ UNCHANGED <<shared, clients, request, before, copy, result>>

(* The history of the listeners in S starts anew.                          *)
Forget(S) == lastSeen' = [l \in Listeners |-> IF l \in S THEN NoSignal ELSE lastSeen[l]]

(* A variant of Unwind that leaves the mutex locked.                       *)
UnwindLocked(t) ==
  /\ copy' = [copy EXCEPT ![t] = <<>>]
  /\ result' = [result EXCEPT ![t] = "threw"]
  /\ Forget(Listeners)
  /\ Goto(t, "return")
  /\ UNCHANGED <<shared, sinks, logger, tracer, request, before, signal>>

(* A sink, the logger or the tracer throws: the rest of the sinks, the     *)
(* logger and the rest of the operation are skipped, the scoped_lock is    *)
(* released and the caller gets the exception.  No listener gets the       *)
(* outcome of the operation: their histories start anew.                   *)
Unwind(t) ==
  /\ copy' = [copy EXCEPT ![t] = <<>>]
  /\ result' = [result EXCEPT ![t] = "threw"]
  /\ stateMutex' = NoThread
  /\ Forget(Listeners)
  /\ Goto(t, "return")
  /\ UNCHANGED <<state, config, sinks, logger, tracer, request, before, signal>>

ThrowFrom(t) ==
  /\ pc[t] = "deliver"
  /\ \/ /\ copy[t] # <<>>
        /\ Head(copy[t]) \in Throwing
     \/ /\ copy[t] = <<>>
        /\ signal[t].kind = "lifecycle" /\ logger /\ Logger \in Throwing
     \/ /\ copy[t] = <<>>
        /\ signal[t].kind = "frame" /\ tracer /\ Tracer \in Throwing
  /\ Unwind(t)

-----------------------------------------------------------------------------
(* The two ways to finish: a failure event that leaves state_ alone, or a  *)
(* success event with the state reached.                                   *)
Fail(t, op, code) ==
  /\ signal' = [signal EXCEPT ![t] =
                  LifecycleEvent(op, "Failure", before[t], state, code)]
  /\ result' = [result EXCEPT ![t] = code]
  /\ Goto(t, "export")
  /\ UNCHANGED <<state, config>>

Succeed(t, op) ==
  /\ signal' = [signal EXCEPT ![t] =
                  LifecycleEvent(op, "Success", before[t], state', "Ok")]
  /\ result' = [result EXCEPT ![t] = "Ok"]
  /\ Goto(t, "export")

Deciding(t, op) ==
  /\ pc[t] = "decide" /\ request[t].op = op
  /\ UNCHANGED <<stateMutex, clients, request, before, copy>>

(* A variant of Initialize that also restarts a stopped engine.            *)
InitializeAgain(t) ==
  /\ Deciding(t, "initialize")
  /\ \/ /\ state \notin {"Uninitialized", "Stopped"}
        /\ Fail(t, "initialize", "LifecycleInitializeInvalidState")
     \/ /\ state \in {"Uninitialized", "Stopped"}
        /\ request[t].config \in ValidConfigs
        /\ config' = Torn
        /\ Goto(t, "store")
        /\ UNCHANGED <<state, signal, result>>

(* A variant of Initialize that takes every configuration.                 *)
InitializeUnchecked(t) ==
  /\ Deciding(t, "initialize")
  /\ \/ /\ state # "Uninitialized"
        /\ Fail(t, "initialize", "LifecycleInitializeInvalidState")
     \/ /\ state = "Uninitialized"
        /\ config' = Torn
        /\ Goto(t, "store")
        /\ UNCHANGED <<state, signal, result>>

(* initialize: the assignment to config_ copies several fields.            *)
Initialize(t) ==
  /\ Deciding(t, "initialize")
  /\ \/ /\ state # "Uninitialized"
        /\ Fail(t, "initialize", "LifecycleInitializeInvalidState")
     \/ /\ state = "Uninitialized"
        /\ request[t].config \notin ValidConfigs
        /\ Fail(t, "initialize", "LifecycleInvalidConfig")
     \/ /\ state = "Uninitialized"
        /\ request[t].config \in ValidConfigs
        /\ config' = Torn
        /\ Goto(t, "store")
        /\ UNCHANGED <<state, signal, result>>

StoreConfig(t) ==
  /\ pc[t] = "store"
  /\ config' = request[t].config
  /\ state' = "Initialized"
  /\ Succeed(t, "initialize")
  /\ UNCHANGED <<stateMutex, clients, request, before, copy>>

(* A variant of Tick that traces the frame before it looks at delta_time.  *)
TickTracesFirst(t) ==
  /\ Deciding(t, "tick")
  /\ state \in {"Initialized", "Running"}
  /\ state' = "Running"
  /\ signal' = [signal EXCEPT ![t] = FrameTrace]
  /\ result' = [result EXCEPT ![t] =
                  IF request[t].negative THEN "LifecycleInvalidFrameContext" ELSE "Ok"]
  /\ Goto(t, "export")
  /\ UNCHANGED config

(* A variant of Tick that starts the engine before it looks at delta_time. *)
TickStartsFirst(t) ==
  /\ Deciding(t, "tick")
  /\ state \in {"Initialized", "Running"}
  /\ state' = "Running"
  /\ UNCHANGED config
  /\ IF request[t].negative
     THEN /\ signal' = [signal EXCEPT ![t] =
                          LifecycleEvent("tick", "Failure", before[t], state',
                                         "LifecycleInvalidFrameContext")]
          /\ result' = [result EXCEPT ![t] = "LifecycleInvalidFrameContext"]
          /\ Goto(t, "export")
     ELSE Succeed(t, "tick")

(* tick: the first accepted frame starts the engine; with tracing enabled  *)
(* the FrameTraceEvent is exported before the success event.               *)
Tick(t) ==
  /\ Deciding(t, "tick")
  /\ \/ /\ state \notin {"Initialized", "Running"}
        /\ Fail(t, "tick", "LifecycleTickInvalidState")
     \/ /\ state \in {"Initialized", "Running"}
        /\ request[t].negative
        /\ Fail(t, "tick", "LifecycleInvalidFrameContext")
     \/ /\ state \in {"Initialized", "Running"}
        /\ ~request[t].negative
        /\ state' = "Running"
        /\ UNCHANGED config
        /\ IF config \in TracedConfigs
           THEN /\ signal' = [signal EXCEPT ![t] = FrameTrace]
                /\ result' = [result EXCEPT ![t] = "Ok"]
                /\ Goto(t, "export")
           ELSE Succeed(t, "tick")

Pause(t) ==
  /\ Deciding(t, "pause")
  /\ \/ /\ state # "Running"
        /\ Fail(t, "pause", "LifecyclePauseInvalidState")
     \/ /\ state = "Running"
        /\ state' = "Paused"
        /\ UNCHANGED config
        /\ Succeed(t, "pause")

Resume(t) ==
  /\ Deciding(t, "resume")
  /\ \/ /\ state # "Paused"
        /\ Fail(t, "resume", "LifecycleResumeInvalidState")
     \/ /\ state = "Paused"
        /\ state' = "Running"
        /\ UNCHANGED config
        /\ Succeed(t, "resume")

(* shutdown: passes through Stopping, idempotent once stopped.             *)
Shutdown(t) ==
  /\ Deciding(t, "shutdown")
  /\ \/ /\ state = "Uninitialized"
        /\ Fail(t, "shutdown", "LifecycleShutdownInvalidState")
     \/ /\ state \in {"Stopping", "Stopped"}
        /\ UNCHANGED <<state, config>>
        /\ Succeed(t, "shutdown")
     \/ /\ state \in {"Initialized", "Running", "Paused"}
        /\ state' = "Stopping"
        /\ Goto(t, "stop")
        /\ UNCHANGED <<config, signal, result>>

FinishStop(t) ==
  /\ pc[t] = "stop"
  /\ state' = "Stopped"
  /\ Succeed(t, "shutdown")
  /\ UNCHANGED <<config, stateMutex, clients, request, before, copy>>

Unlock(t) ==
  /\ pc[t] = "unlock"
  /\ stateMutex' = NoThread
  /\ Goto(t, "return")
  /\ UNCHANGED <<state, config, clients, locals>>

-----------------------------------------------------------------------------
(* The sink list, under sinks_mutex_: any thread, any time, also from      *)
(* inside a sink that is being called.                                     *)
(* A variant of AddSink that does not look for the sink first.             *)
AddSinkAgain(s) ==
  /\ sinks' = Append(IF sinks = <<NoopSink>> THEN <<>> ELSE sinks, s)
  /\ UNCHANGED <<shared, logger, tracer, lastSeen, pc, locals>>

AddSink(s) ==
  /\ s \notin Range(sinks)
  /\ sinks' = Append(IF sinks = <<NoopSink>> THEN <<>> ELSE sinks, s)
  /\ UNCHANGED <<shared, logger, tracer, lastSeen, pc, locals>>

OrNoop(list) == IF list = <<>> THEN <<NoopSink>> ELSE list

(* The list holds a sink at most once (SinkListSound), so erasing every    *)
(* occurrence of it is erasing the one there is.                           *)
RemoveSink(s) ==
  /\ \/ /\ s \notin Range(sinks)
        /\ sinks' = OrNoop(sinks)
     \/ \E i \in DOMAIN sinks :
          /\ sinks[i] = s
          /\ sinks' = OrNoop(RemoveAt(sinks, i))
  /\ Forget({s})
  /\ UNCHANGED <<shared, logger, tracer, pc, locals>>

ClearSinks ==
  /\ sinks' = <<NoopSink>>
  /\ Forget(Sinks)
  /\ UNCHANGED <<shared, logger, tracer, pc, locals>>

(* set_logger and set_tracer take state_mutex_ and thus wait for the       *)
(* operation in progress.                                                  *)
SetLogger(installed) ==
  /\ stateMutex = NoThread
  /\ logger' = installed
  /\ Forget({Logger})
  /\ UNCHANGED <<shared, sinks, tracer, pc, locals>>

SetTracer(installed) ==
  /\ stateMutex = NoThread
  /\ tracer' = installed
  /\ UNCHANGED <<shared, sinks, logger, lastSeen, pc, locals>>

-----------------------------------------------------------------------------
(* What a thread does once it called, as opposed to what hosts choose.     *)
Step(t) ==
  \/ ReadState(t) \/ ReferConfig(t) \/ DerefConfig(t)
  \/ LockAndAttempt(t) \/ CopySinks(t) \/ DeliverToSink(t)
  \/ EndEvent(t) \/ EndFrameTrace(t) \/ ThrowFrom(t)
  \/ Initialize(t) \/ StoreConfig(t) \/ Tick(t) \/ Pause(t) \/ Resume(t)
  \/ Shutdown(t) \/ FinishStop(t) \/ Unlock(t) \/ Return(t)

(* The arguments an operation does not read are left at their defaults.    *)
Calls ==
  {r \in Requests : /\ r.op # "initialize" => r.config = DefaultConfig
                    /\ r.op # "tick" => ~r.negative}

Environment ==
  \/ \E t \in Threads, r \in Calls : Call(t, r)
  \/ \E s \in Sinks : AddSink(s) \/ RemoveSink(s)
  \/ ClearSinks
  \/ \E b \in BOOLEAN : SetLogger(b) \/ SetTracer(b)

Next == Environment \/ \E t \in Threads : Step(t)

Spec == Init /\ [][Next]_vars

(* A scheduled thread keeps running and the sinks, logger and tracer       *)
(* return.  std::mutex is not fair, so a thread may wait for it forever:   *)
(* weak fairness only.                                                     *)
Fairness == \A t \in Threads : WF_vars(Step(t))

FairSpec == Spec /\ Fairness
-----------------------------------------------------------------------------
(* PROPERTIES                                                              *)

(* Every variable stays in its domain; in particular no call ever returns  *)
(* a configuration caught in the middle of its assignment.                 *)
TypeOK ==
  /\ state \in EngineStates
  /\ config \in Configs \cup {Torn}
  /\ stateMutex \in Threads \cup {NoThread}
  /\ sinks \in Seq(Sinks \cup {NoopSink})
  /\ logger \in BOOLEAN
  /\ tracer \in BOOLEAN
  /\ pc \in [Threads -> Locations]
  /\ request \in [Threads -> Requests]
  /\ before \in [Threads -> EngineStates]
  /\ signal \in [Threads -> Signals]
  /\ copy \in [Threads -> Seq(Sinks \cup {NoopSink})]
  /\ result \in [Threads -> Codes \cup EngineStates \cup Configs \cup {"none", "threw"}]
  /\ lastSeen \in [Listeners -> Signals]

(* state_mutex_ is held exactly by the thread that is inside a mutator, on *)
(* every path out of it, the exceptional one included.                     *)
MutexHeldInMutators ==
  \A t \in Threads : pc[t] \in Critical <=> stateMutex = t

(* Stopping exists only inside shutdown: no state() call returns it and no *)
(* event carries it.                                                       *)
StoppingNeverReported ==
  \A t \in Threads :
    /\ result[t] # "Stopping"
    /\ signal[t].before # "Stopping" /\ signal[t].after # "Stopping"

(* The reference returned by config() is read without the lock, and still  *)
(* every read gives the one configuration that initialize accepted.        *)
ConfigReadsEffective ==
  \A t \in Threads :
    pc[t] = "return" /\ request[t].op = "config" =>
      result[t] = config /\ config \in ValidConfigs

(* What the four properties above need to be inductive.  Where a thread is *)
(* says what it is calling; ...                                            *)
CallsKnown ==
  \A t \in Threads :
    /\ pc[t] \in Critical => request[t].op \in Mutators
    /\ pc[t] = "deref" => request[t].op = "config"
    /\ pc[t] = "store" => /\ request[t].op = "initialize"
                          /\ request[t].config \in ValidConfigs
    /\ pc[t] = "stop" => request[t].op = "shutdown"

(* ... the intermediate values of state_ and config_ exist only while the  *)
(* holder of the mutex is between two of its assignments; ...              *)
IntermediatesGuarded ==
  /\ state = "Stopping" => stateMutex \in Threads /\ pc[stateMutex] = "stop"
  /\ config = Torn => stateMutex \in Threads /\ pc[stateMutex] = "store"
  /\ \A t \in Threads :
       /\ pc[t] = "stop" => state = "Stopping"
       /\ pc[t] = "store" => state = "Uninitialized" /\ config = Torn
       /\ before[t] # "Stopping"

(* ... the configuration is settled once initialize succeeded, and only    *)
(* callers that come later hold a reference to it; ...                     *)
ConfigSettled ==
  /\ state = "Uninitialized" => config \in {DefaultConfig, Torn}
  /\ state # "Uninitialized" => config \in ValidConfigs
  /\ \A t \in Threads :
       pc[t] # "idle" /\ request[t].op = "config" => state # "Uninitialized"

(* ... and a call has a result exactly from the moment it took effect.     *)
ResultKnown ==
  \A t \in Threads :
    /\ pc[t] \in {"idle", "lock", "deref", "decide", "store", "stop"} => result[t] = "none"
    /\ pc[t] \in {"unlock", "return"} => result[t] # "none"
    /\ pc[t] \in {"export", "deliver"} =>
         (result[t] = "none" <=> signal[t].kind = "lifecycle" /\ signal[t].phase = "Attempt")

IInv ==
  /\ TypeOK
  /\ MutexHeldInMutators
  /\ StoppingNeverReported
  /\ ConfigReadsEffective
  /\ CallsKnown
  /\ IntermediatesGuarded
  /\ ConfigSettled
  /\ ResultKnown

(* The sink list is never empty, never holds a sink twice and holds the    *)
(* no-op sink exactly when there is no other.                              *)
SinkListSound ==
  /\ sinks # <<>>
  /\ IsInjective(sinks)
  /\ NoopSink \in Range(sinks) => sinks = <<NoopSink>>

(* e may come right after last in the stream of one listener: an attempt   *)
(* is followed by the outcome of the same operation, an outcome by an      *)
(* attempt that starts from the state it left.                             *)
Continues(last, e) ==
  \/ last.kind = "none"
  \/ /\ last.phase = "Attempt" /\ e.phase # "Attempt"
     /\ e.op = last.op /\ e.before = last.before
  \/ /\ last.phase # "Attempt" /\ e.phase = "Attempt"
     /\ e.before = last.after

(* t is about to call listener l with a lifecycle event.                   *)
AboutToCall(t, l) ==
  /\ pc[t] = "deliver" /\ signal[t].kind = "lifecycle"
  /\ \/ copy[t] # <<>> /\ l = Head(copy[t])
     \/ copy[t] = <<>> /\ l = Logger /\ logger

(* As long as it stays registered, every sink and the logger see all the   *)
(* events, in order, each operation's outcome right after its attempt      *)
(* unless one of them throws, whatever threads call and however the list   *)
(* changes meanwhile. Unlike a sink, a logger is never installed in the    *)
(* middle of an operation: the first event it gets is an attempt.          *)
StreamsWellFormed ==
  \A t \in Threads, l \in Listeners :
    AboutToCall(t, l) /\ Registered(l) =>
      /\ Continues(lastSeen[l], signal[t])
      /\ l = Logger /\ lastSeen[l].kind = "none" => signal[t].phase = "Attempt"

(* A frame is traced only by an engine that is running, was configured for *)
(* it and has accepted the frame.                                          *)
FrameTracesOnlyWhileRunning ==
  \A t \in Threads :
    pc[t] \in {"export", "deliver"} /\ signal[t].kind = "frame" =>
      /\ state = "Running" /\ config \in TracedConfigs
      /\ request[t].op = "tick" /\ ~request[t].negative

(* The controller is the linearizable object of LifecycleContract: a call  *)
(* takes effect when its checks pass, and shutdown's two assignments and   *)
(* the copy of the configuration are each one step for its callers.        *)
Outcome(t) ==
  IF pc[t] = "idle" THEN "none"
  ELSE IF pc[t] = "stop" THEN "Ok"
  ELSE IF result[t] = "none" THEN "pending"
  ELSE result[t]

Contract == INSTANCE LifecycleContract WITH
  state <- IF state = "Stopping" THEN "Stopped" ELSE state,
  config <- IF config = Torn THEN DefaultConfig ELSE config,
  outcome <- [t \in Threads |-> Outcome(t)]

ImplementsContract == Contract!Spec

(* Whoever holds state_mutex_ releases it, also when what it calls throws: *)
(* the mutex is free again and again.                                      *)
HolderReleases == stateMutex # NoThread ~> stateMutex = NoThread

(* After remove_observability_sink or clear_observability_sinks returned,  *)
(* the sink receives no further signal.                                    *)
RemovedSinkIsSilent ==
  [][\A t \in Threads :
       pc[t] = "deliver" /\ copy[t] # <<>> /\ copy'[t] # copy[t]
         => Head(copy[t]) \in Range(sinks) \cup {NoopSink}]_vars
=============================================================================
