-------------------------- MODULE LifecycleContract --------------------------
(***************************************************************************)
(* What IEngineLifecycle promises its callers: the lifecycle is one object *)
(* that any number of threads call, and every call takes effect at one     *)
(* instant between its invocation and its return.  There are no locks, no  *)
(* sinks and no intermediate states here; EngineLifecycleController is     *)
(* shown to implement this module.                                         *)
(***************************************************************************)

CONSTANTS
  Threads,        \* the threads of the host application
  Configs,        \* the EngineConfig values a caller may pass
  ValidConfigs,   \* those for which EngineConfig::is_valid() holds
  DefaultConfig   \* the value-initialised config_ member

VARIABLES
  state,    \* the lifecycle state every caller agrees on
  config,   \* the effective configuration
  request,  \* what each thread is calling
  outcome   \* what each thread's call will return, once it took effect

vars == <<state, config, request, outcome>>

-----------------------------------------------------------------------------
(* "Stopping" is a state of the code and not of the contract.              *)
PublicStates == {"Uninitialized", "Initialized", "Running", "Paused", "Stopped"}

Mutators == {"initialize", "tick", "pause", "resume", "shutdown"}
Operations == Mutators \cup {"state", "config"}

(* A call: config is read by initialize only, negative (the sign of        *)
(* FrameContext::delta_time) by tick only.                                 *)
Requests == [op : Operations, config : Configs, negative : BOOLEAN]

NoRequest == [op |-> "state", config |-> DefaultConfig, negative |-> FALSE]

(* The states from which each operation succeeds, the state it then leads  *)
(* to and the error code it returns from any other state.                  *)
Accepts == [initialize |-> {"Uninitialized"},
            tick       |-> {"Initialized", "Running"},
            pause      |-> {"Running"},
            resume     |-> {"Paused"},
            shutdown   |-> PublicStates \ {"Uninitialized"}]

Target == [initialize |-> "Initialized",
           tick       |-> "Running",
           pause      |-> "Paused",
           resume     |-> "Running",
           shutdown   |-> "Stopped"]

InvalidState == [initialize |-> "LifecycleInitializeInvalidState",
                 tick       |-> "LifecycleTickInvalidState",
                 pause      |-> "LifecyclePauseInvalidState",
                 resume     |-> "LifecycleResumeInvalidState",
                 shutdown   |-> "LifecycleShutdownInvalidState"]

BadConfig(r) == r.op = "initialize" /\ r.config \notin ValidConfigs
BadFrame(r)  == r.op = "tick" /\ r.negative

-----------------------------------------------------------------------------
Init ==
  /\ state = "Uninitialized"
  /\ config = DefaultConfig
  /\ request = [t \in Threads |-> NoRequest]
  /\ outcome = [t \in Threads |-> "none"]

Invoke(t, r) ==
  /\ outcome[t] = "none"
  /\ request' = [request EXCEPT ![t] = r]
  /\ outcome' = [outcome EXCEPT ![t] = "pending"]
  /\ UNCHANGED <<state, config>>

Answer(t, v) == outcome' = [outcome EXCEPT ![t] = v]

(* The instant at which a call that changes the lifecycle takes effect.    *)
PerformMutator(t) ==
  LET r == request[t] IN
  /\ outcome[t] = "pending"
  /\ r.op \in Mutators
  /\ \/ /\ state \notin Accepts[r.op]
        /\ Answer(t, InvalidState[r.op])
        /\ UNCHANGED <<state, config>>
     \/ /\ state \in Accepts[r.op]
        /\ BadConfig(r)
        /\ Answer(t, "LifecycleInvalidConfig")
        /\ UNCHANGED <<state, config>>
     \/ /\ state \in Accepts[r.op]
        /\ BadFrame(r)
        /\ Answer(t, "LifecycleInvalidFrameContext")
        /\ UNCHANGED <<state, config>>
     \/ /\ state \in Accepts[r.op]
        /\ ~BadConfig(r) /\ ~BadFrame(r)
        /\ Answer(t, "Ok")
        /\ state' = Target[r.op]
        /\ config' = IF r.op = "initialize" THEN r.config ELSE config
  /\ UNCHANGED request

PerformState(t) ==
  /\ outcome[t] = "pending"
  /\ request[t].op = "state"
  /\ Answer(t, state)
  /\ UNCHANGED <<state, config, request>>

PerformConfig(t) ==
  /\ outcome[t] = "pending"
  /\ request[t].op = "config"
  /\ Answer(t, config)
  /\ UNCHANGED <<state, config, request>>

(* A sink, the logger or the tracer may throw through a mutator, before or *)
(* after the instant at which it took effect; the effect is never undone.  *)
Raise(t) ==
  /\ outcome[t] # "none"
  /\ request[t].op \in Mutators
  /\ Answer(t, "threw")
  /\ UNCHANGED <<state, config, request>>

Return(t) ==
  /\ outcome[t] \notin {"none", "pending"}
  /\ request' = [request EXCEPT ![t] = NoRequest]
  /\ outcome' = [outcome EXCEPT ![t] = "none"]
  /\ UNCHANGED <<state, config>>

Next == \E t \in Threads :
  \/ \E r \in Requests : Invoke(t, r)
  \/ PerformMutator(t)
  \/ PerformState(t)
  \/ PerformConfig(t)
  \/ Raise(t)
  \/ Return(t)

Spec == Init /\ [][Next]_vars
=============================================================================
