------------------- MODULE EngineLifecycleController_proofs -------------------
(***************************************************************************)
(* Theorems about EngineLifecycleController for any set of threads, sinks  *)
(* and configurations, and their proofs.                                   *)
(***************************************************************************)
EXTENDS EngineLifecycleController, PositionFacts, SequenceTheorems, TLAPS

Listed == Sinks \cup {NoopSink}

(* A lifecycle event is a signal, whatever its fields are.                 *)
LEMMA EventIsSignal ==
  ASSUME NEW op \in Mutators, NEW phase \in Phases, NEW code \in Codes,
         NEW sb \in EngineStates, NEW sa \in EngineStates
  PROVE  LifecycleEvent(op, phase, sb, sa, code) \in Signals
BY DEF LifecycleEvent, Signals

(* The two constant signals are signals.                                   *)
LEMMA ConstantSignals == FrameTrace \in Signals /\ NoSignal \in Signals
BY DEF FrameTrace, NoSignal, Signals, Mutators, Phases, EngineStates, Codes

(* What the sink-list operations do to the list keeps it a list of sinks.  *)
LEMMA SinkListType ==
  ASSUME sinks \in Seq(Listed)
  PROVE  /\ \A s \in Sinks :
              Append(IF sinks = <<NoopSink>> THEN <<>> ELSE sinks, s) \in Seq(Listed)
         /\ OrNoop(sinks) \in Seq(Listed)
         /\ \A i \in DOMAIN sinks : OrNoop(RemoveAt(sinks, i)) \in Seq(Listed)
<1>1. <<NoopSink>> \in Seq(Listed)
  BY DEF Listed
<1>2. \A list \in Seq(Listed) : OrNoop(list) \in Seq(Listed)
  BY <1>1 DEF OrNoop
<1>3. \A s \in Sinks :
        Append(IF sinks = <<NoopSink>> THEN <<>> ELSE sinks, s) \in Seq(Listed)
  BY DEF Listed
<1>4. ASSUME NEW i \in DOMAIN sinks
      PROVE  RemoveAt(sinks, i) \in Seq(Listed)
  <2>1. i \in 1 .. Len(sinks) /\ Len(sinks) \in Nat
    OBVIOUS
  <2>2. \A j \in 1 .. Len(sinks) : sinks[j] \in Listed
    OBVIOUS
  <2>3. SubSeq(sinks, 1, i - 1) \in Seq(Listed)
    BY <2>1, <2>2, SubSeqProperties
  <2>4. SubSeq(sinks, i + 1, Len(sinks)) \in Seq(Listed)
    BY <2>1, <2>2, SubSeqProperties
  <2>5. QED
    BY <2>3, <2>4, ConcatProperties DEF RemoveAt
<1>5. QED
  BY <1>2, <1>3, <1>4

-----------------------------------------------------------------------------
(* Every step keeps the types, given that no caller reads config_ while it *)
(* is being assigned: the one fact about types that needs the invariant.   *)
LEMMA TypeInit == Init => TypeOK
<1> SUFFICES ASSUME Init
             PROVE  TypeOK
  OBVIOUS
<1>1. sinks \in Seq(Sinks \cup {NoopSink}) /\ <<>> \in Seq(Sinks \cup {NoopSink})
  BY DEF Init
<1>2. NoRequest \in Requests
  BY ControllerAssumption DEF NoRequest, Requests, Operations
<1>3. QED
  BY <1>1, <1>2, ControllerAssumption, ConstantSignals
     DEF Init, TypeOK, EngineStates, Locations

(* No step of any thread or host takes a variable out of its domain.       *)
LEMMA TypeStep == IInv /\ [Next]_vars => TypeOK'
<1> SUFFICES ASSUME IInv, [Next]_vars
             PROVE  TypeOK'
  OBVIOUS
<1> USE ControllerAssumption, ConstantSignals
<1>0. TypeOK
  BY DEF IInv
<1> USE <1>0
<1>1. ASSUME NEW t \in Threads, NEW r \in Calls, Call(t, r)
      PROVE  TypeOK'
  BY <1>1 DEF Call, Calls, Goto, Locations, TypeOK, shared, clients
<1>2. ASSUME NEW s \in Sinks, AddSink(s)
      PROVE  TypeOK'
  BY <1>2, SinkListType DEF AddSink, Listed, TypeOK, shared, locals
<1>3. ASSUME NEW s \in Sinks, RemoveSink(s)
      PROVE  TypeOK'
  <2>1. sinks' \in Seq(Sinks \cup {NoopSink})
    BY <1>3, SinkListType DEF RemoveSink, Listed, TypeOK
  <2>2. lastSeen' \in [Listeners -> Signals]
    BY <1>3 DEF RemoveSink, Forget, TypeOK
  <2>3. QED
    BY <1>3, <2>1, <2>2 DEF RemoveSink, TypeOK, shared, locals
<1>4. ASSUME ClearSinks
      PROVE  TypeOK'
  BY <1>4 DEF ClearSinks, Forget, TypeOK, shared, locals
<1>5. ASSUME NEW b \in BOOLEAN, SetLogger(b) \/ SetTracer(b)
      PROVE  TypeOK'
  <2>1. CASE SetLogger(b)
    BY <2>1 DEF SetLogger, Forget, TypeOK, shared, locals
  <2>2. CASE SetTracer(b)
    BY <2>2 DEF SetTracer, TypeOK, shared, locals
  <2>3. QED
    BY <1>5, <2>1, <2>2
<1>6. ASSUME NEW t \in Threads, ReadState(t) \/ ReferConfig(t)
      PROVE  TypeOK'
  <2>1. CASE ReadState(t)
    BY <2>1 DEF ReadState, Goto, Locations, TypeOK, shared, clients
  <2>2. CASE ReferConfig(t)
    BY <2>2 DEF ReferConfig, Goto, Locations, TypeOK, shared, clients, locals
  <2>3. QED
    BY <1>6, <2>1, <2>2
<1>7. ASSUME NEW t \in Threads, DerefConfig(t)
      PROVE  TypeOK'
  <2>1. config \in Configs
    BY <1>7 DEF DerefConfig, IInv, CallsKnown, ConfigSettled
  <2>2. QED
    BY <1>7, <2>1 DEF DerefConfig, Goto, Locations, TypeOK, shared, clients
<1>8. ASSUME NEW t \in Threads, LockAndAttempt(t)
      PROVE  TypeOK'
  <2>1. LifecycleEvent(request[t].op, "Attempt", state, state, "Ok") \in Signals
    BY <1>8, EventIsSignal DEF LockAndAttempt, TypeOK, Phases, Codes
  <2>2. QED
    BY <1>8, <2>1 DEF LockAndAttempt, Goto, Locations, TypeOK, clients
<1>9. ASSUME NEW t \in Threads, CopySinks(t)
      PROVE  TypeOK'
  BY <1>9 DEF CopySinks, Goto, Locations, TypeOK, shared, clients
<1>10. ASSUME NEW t \in Threads, DeliverToSink(t)
       PROVE  TypeOK'
  <2>1. lastSeen' \in [Listeners -> Signals]
    BY <1>10 DEF DeliverToSink, Receive, TypeOK
  <2>2. Tail(copy[t]) \in Seq(Sinks \cup {NoopSink})
    BY <1>10, HeadTailProperties DEF DeliverToSink, TypeOK
  <2>3. QED
    BY <1>10, <2>1, <2>2 DEF DeliverToSink, TypeOK, shared
<1>11. ASSUME NEW t \in Threads, EndEvent(t)
       PROVE  TypeOK'
  <2>1. lastSeen' \in [Listeners -> Signals]
    BY <1>11 DEF EndEvent, Receive, TypeOK
  <2>2. QED
    BY <1>11, <2>1 DEF EndEvent, Goto, Locations, TypeOK, shared, locals
<1>12. ASSUME NEW t \in Threads, EndFrameTrace(t)
       PROVE  TypeOK'
  <2>1. LifecycleEvent("tick", "Success", before[t], state, "Ok") \in Signals
    BY EventIsSignal DEF TypeOK, Phases, Codes, Mutators
  <2>2. QED
    BY <1>12, <2>1 DEF EndFrameTrace, Goto, Locations, TypeOK, shared, clients
<1>13. ASSUME NEW t \in Threads, ThrowFrom(t)
       PROVE  TypeOK'
  <2>1. lastSeen' \in [Listeners -> Signals]
    BY <1>13, ConstantSignals DEF ThrowFrom, Unwind, Forget, TypeOK
  <2>2. QED
    BY <1>13, <2>1 DEF ThrowFrom, Unwind, Goto, Locations, TypeOK
<1>14. ASSUME NEW t \in Threads, NEW op \in Mutators, NEW code \in Codes,
              Fail(t, op, code),
              UNCHANGED <<stateMutex, clients, request, before, copy>>
       PROVE  TypeOK'
  <2>1. LifecycleEvent(op, "Failure", before[t], state, code) \in Signals
    BY EventIsSignal DEF TypeOK, Phases
  <2>2. QED
    BY <1>14, <2>1 DEF Fail, Goto, Locations, TypeOK, clients
<1>15. ASSUME NEW t \in Threads, NEW op \in Mutators, Succeed(t, op),
              state' \in EngineStates, config' \in Configs \cup {Torn},
              UNCHANGED <<stateMutex, clients, request, before, copy>>
       PROVE  TypeOK'
  <2>1. LifecycleEvent(op, "Success", before[t], state', "Ok") \in Signals
    BY <1>15, EventIsSignal DEF TypeOK, Phases, Codes
  <2>2. QED
    BY <1>15, <2>1 DEF Succeed, Goto, Locations, Codes, TypeOK, clients
<1>16. ASSUME NEW t \in Threads, Initialize(t)
       PROVE  TypeOK'
  <2>1. CASE \/ Fail(t, "initialize", "LifecycleInitializeInvalidState")
             \/ Fail(t, "initialize", "LifecycleInvalidConfig")
    BY <1>16, <2>1, <1>14 DEF Initialize, Deciding, Mutators, Codes
  <2>2. CASE config' = Torn /\ Goto(t, "store") /\ UNCHANGED <<state, signal, result>>
    BY <1>16, <2>2 DEF Initialize, Deciding, Goto, Locations, TypeOK, clients
  <2>3. QED
    BY <1>16, <2>1, <2>2 DEF Initialize
<1>17. ASSUME NEW t \in Threads, StoreConfig(t)
       PROVE  TypeOK'
  <2>1. config' \in Configs
    BY <1>17 DEF StoreConfig, TypeOK, Requests
  <2>2. QED
    BY <1>17, <2>1, <1>15 DEF StoreConfig, EngineStates, Mutators
<1>18. ASSUME NEW t \in Threads, Tick(t)
       PROVE  TypeOK'
  <2>1. CASE \/ Fail(t, "tick", "LifecycleTickInvalidState")
             \/ Fail(t, "tick", "LifecycleInvalidFrameContext")
    BY <1>18, <2>1, <1>14 DEF Tick, Deciding, Mutators, Codes
  <2>2. CASE state' = "Running" /\ UNCHANGED config /\ Succeed(t, "tick")
    BY <1>18, <2>2, <1>15 DEF Tick, Deciding, Mutators, EngineStates, TypeOK
  <2>3. CASE /\ state' = "Running" /\ UNCHANGED config
             /\ signal' = [signal EXCEPT ![t] = FrameTrace]
             /\ result' = [result EXCEPT ![t] = "Ok"]
             /\ Goto(t, "export")
    BY <1>18, <2>3 DEF Tick, Deciding, Goto, Locations, EngineStates, Codes,
                       TypeOK, clients
  <2>4. QED
    BY <1>18, <2>1, <2>2, <2>3 DEF Tick
<1>19. ASSUME NEW t \in Threads, Pause(t)
       PROVE  TypeOK'
  <2>1. CASE Fail(t, "pause", "LifecyclePauseInvalidState")
    BY <1>19, <2>1, <1>14 DEF Pause, Deciding, Mutators, Codes
  <2>2. CASE state' = "Paused" /\ UNCHANGED config /\ Succeed(t, "pause")
    BY <1>19, <2>2, <1>15 DEF Pause, Deciding, Mutators, EngineStates, TypeOK
  <2>3. QED
    BY <1>19, <2>1, <2>2 DEF Pause
<1>20. ASSUME NEW t \in Threads, Resume(t)
       PROVE  TypeOK'
  <2>1. CASE Fail(t, "resume", "LifecycleResumeInvalidState")
    BY <1>20, <2>1, <1>14 DEF Resume, Deciding, Mutators, Codes
  <2>2. CASE state' = "Running" /\ UNCHANGED config /\ Succeed(t, "resume")
    BY <1>20, <2>2, <1>15 DEF Resume, Deciding, Mutators, EngineStates, TypeOK
  <2>3. QED
    BY <1>20, <2>1, <2>2 DEF Resume
<1>21. ASSUME NEW t \in Threads, Shutdown(t)
       PROVE  TypeOK'
  <2>1. CASE Fail(t, "shutdown", "LifecycleShutdownInvalidState")
    BY <1>21, <2>1, <1>14 DEF Shutdown, Deciding, Mutators, Codes
  <2>2. CASE UNCHANGED <<state, config>> /\ Succeed(t, "shutdown")
    BY <1>21, <2>2, <1>15 DEF Shutdown, Deciding, Mutators, TypeOK
  <2>3. CASE /\ state' = "Stopping" /\ Goto(t, "stop")
             /\ UNCHANGED <<config, signal, result>>
    BY <1>21, <2>3 DEF Shutdown, Deciding, Goto, Locations, EngineStates, TypeOK,
                       clients
  <2>4. QED
    BY <1>21, <2>1, <2>2, <2>3 DEF Shutdown
<1>22. ASSUME NEW t \in Threads, FinishStop(t)
       PROVE  TypeOK'
  BY <1>22, <1>15 DEF FinishStop, Mutators, EngineStates, TypeOK
<1>23. ASSUME NEW t \in Threads, Unlock(t)
       PROVE  TypeOK'
  BY <1>23 DEF Unlock, Goto, Locations, TypeOK, clients, locals
<1>24. ASSUME NEW t \in Threads, Return(t)
       PROVE  TypeOK'
  <2>1. NoRequest \in Requests
    BY DEF NoRequest, Requests, Operations
  <2>2. QED
    BY <1>24, <2>1 DEF Return, Goto, Locations, TypeOK, shared, clients, EngineStates
<1>25. CASE UNCHANGED vars
  BY <1>25 DEF vars, shared, clients, locals, TypeOK
<1>26. QED
  BY <1>1, <1>2, <1>3, <1>4, <1>5, <1>6, <1>7, <1>8, <1>9, <1>10, <1>11, <1>12,
     <1>13, <1>16, <1>17, <1>18, <1>19, <1>20, <1>21, <1>22, <1>23, <1>24, <1>25
     DEF Next, Environment, Step

-----------------------------------------------------------------------------
(* The invariant without its type part.                                    *)
LockInv ==
  /\ MutexHeldInMutators
  /\ StoppingNeverReported
  /\ ConfigReadsEffective
  /\ CallsKnown
  /\ IntermediatesGuarded
  /\ ConfigSettled
  /\ ResultKnown

(* The lock invariant holds initially ...                                  *)
LEMMA LockInvInit == Init => LockInv
BY ControllerAssumption
   DEF Init, LockInv, MutexHeldInMutators, StoppingNeverReported, Critical,
       ConfigReadsEffective, CallsKnown, IntermediatesGuarded, ConfigSettled,
       ResultKnown, NoSignal, FrameTrace, NoRequest

(* ... and every step keeps it.                                            *)
LEMMA LockInvStep == IInv /\ [Next]_vars => LockInv'
<1> SUFFICES ASSUME IInv, [Next]_vars
             PROVE  LockInv'
  OBVIOUS
<1>0. TypeOK /\ LockInv
  BY DEF IInv, LockInv
<1> USE <1>0, ControllerAssumption
    DEF LockInv, MutexHeldInMutators, StoppingNeverReported, Critical,
        ConfigReadsEffective, CallsKnown, IntermediatesGuarded, ConfigSettled,
        ResultKnown, Goto, Mutators, Operations
<1>1. ASSUME NEW t \in Threads, NEW r \in Calls, Call(t, r)
      PROVE  LockInv'
  BY <1>1 DEF Call, Calls, TypeOK, shared, clients
<1>2. ASSUME UNCHANGED <<shared, pc, locals>>
      PROVE  LockInv'
  BY <1>2 DEF shared, locals
<1>3. ASSUME NEW t \in Threads, ReadState(t)
      PROVE  LockInv'
  <2>1. state \in EngineStates \ {"Stopping"}
    BY <1>3 DEF ReadState, TypeOK
  <2>2. state # "none"
    BY <2>1 DEF EngineStates
  <2>3. QED
    BY <1>3, <2>1, <2>2 DEF ReadState, TypeOK, shared, clients
<1>4. ASSUME NEW t \in Threads, ReferConfig(t)
      PROVE  LockInv'
  BY <1>4 DEF ReferConfig, TypeOK, shared, locals
<1>5. ASSUME NEW t \in Threads, DerefConfig(t)
      PROVE  LockInv'
  <2>1. request[t].op = "config" /\ config \in ValidConfigs /\ config \in Configs
    BY <1>5 DEF DerefConfig
  <2>2. config \notin {"none", "Stopping"}
    BY <2>1
  <2>3. QED
    BY <1>5, <2>1, <2>2 DEF DerefConfig, TypeOK, shared, clients
<1>6. ASSUME NEW t \in Threads, LockAndAttempt(t)
      PROVE  LockInv'
  BY <1>6 DEF LockAndAttempt, TypeOK, LifecycleEvent
<1>7. ASSUME NEW t \in Threads, CopySinks(t)
      PROVE  LockInv'
  BY <1>7 DEF CopySinks, TypeOK, shared
<1>8. ASSUME NEW t \in Threads, DeliverToSink(t)
      PROVE  LockInv'
  BY <1>8 DEF DeliverToSink, TypeOK, shared
<1>9. ASSUME NEW t \in Threads, EndEvent(t)
      PROVE  LockInv'
  BY <1>9 DEF EndEvent, TypeOK, shared, locals
<1>10. ASSUME NEW t \in Threads, EndFrameTrace(t)
       PROVE  LockInv'
  BY <1>10 DEF EndFrameTrace, TypeOK, shared, LifecycleEvent
<1>11. ASSUME NEW t \in Threads, ThrowFrom(t)
       PROVE  LockInv'
  <2>1. pc[t] = "deliver" /\ Unwind(t)
    BY <1>11 DEF ThrowFrom
  <2>2. request[t].op # "config" /\ stateMutex = t
    BY <2>1
  <2>3. QED
    BY <2>1, <2>2 DEF Unwind, TypeOK
(* A mutator finishes without touching the intermediate states.            *)
<1>12. ASSUME NEW t \in Threads, pc[t] \in {"decide", "store", "stop"}
       PROVE  /\ stateMutex = t
              /\ request[t].op \in Mutators
              /\ pc[t] = "decide" => state # "Stopping" /\ config # Torn
              /\ \A u \in Threads \ {t} : pc[u] \notin Critical
  BY <1>12
<1>13. ASSUME NEW t \in Threads, NEW op \in Mutators, NEW code \in Codes,
              pc[t] = "decide", Fail(t, op, code),
              UNCHANGED <<stateMutex, clients, request, before, copy>>
       PROVE  LockInv'
  <2>1. signal' = [signal EXCEPT ![t] =
                    LifecycleEvent(op, "Failure", before[t], state, code)]
    BY <1>13 DEF Fail
  <2>2. code \notin {"none", "Stopping"}
    BY DEF Codes
  <2>3. StoppingNeverReported'
    BY <1>12, <1>13, <2>1, <2>2 DEF Fail, TypeOK, LifecycleEvent
  <2>4. ResultKnown'
    BY <1>12, <1>13, <2>1, <2>2 DEF Fail, TypeOK, LifecycleEvent
  <2>5. (MutexHeldInMutators /\ CallsKnown /\ IntermediatesGuarded)'
    BY <1>12, <1>13 DEF Fail, TypeOK
  <2>6. (ConfigReadsEffective /\ ConfigSettled)'
    BY <1>12, <1>13 DEF Fail, TypeOK
  <2>7. QED
    BY <2>3, <2>4, <2>5, <2>6
<1>14. ASSUME NEW t \in Threads, NEW op \in Mutators, Succeed(t, op),
              pc[t] \in {"decide", "store", "stop"},
              state' \in EngineStates \ {"Stopping", "Uninitialized"},
              config' \in ValidConfigs,
              pc[t] # "store" => config' = config /\ state # "Uninitialized",
              UNCHANGED <<stateMutex, clients, request, before, copy>>
       PROVE  LockInv'
  <2>1. signal' = [signal EXCEPT ![t] =
                    LifecycleEvent(op, "Success", before[t], state', "Ok")]
    BY <1>14 DEF Succeed
  <2>2. StoppingNeverReported'
    BY <1>12, <1>14, <2>1 DEF Succeed, TypeOK, LifecycleEvent
  <2>3. ResultKnown'
    BY <1>12, <1>14, <2>1 DEF Succeed, TypeOK, LifecycleEvent
  <2>4. (MutexHeldInMutators /\ CallsKnown /\ IntermediatesGuarded)'
    BY <1>12, <1>14 DEF Succeed, TypeOK
  <2>5. (ConfigReadsEffective /\ ConfigSettled)'
    BY <1>12, <1>14 DEF Succeed, TypeOK
  <2>6. QED
    BY <2>2, <2>3, <2>4, <2>5
<1>15. ASSUME NEW t \in Threads, Initialize(t)
       PROVE  LockInv'
  <2>1. CASE \/ Fail(t, "initialize", "LifecycleInitializeInvalidState")
             \/ Fail(t, "initialize", "LifecycleInvalidConfig")
    BY <1>13, <1>15, <2>1 DEF Initialize, Deciding, Codes
  <2>2. CASE /\ state = "Uninitialized" /\ request[t].config \in ValidConfigs
             /\ config' = Torn /\ Goto(t, "store")
             /\ UNCHANGED <<state, signal, result>>
    BY <1>12, <1>15, <2>2 DEF Initialize, Deciding, TypeOK, clients
  <2>3. QED
    BY <1>15, <2>1, <2>2 DEF Initialize
<1>16. ASSUME NEW t \in Threads, StoreConfig(t)
       PROVE  LockInv'
  BY <1>14, <1>16 DEF StoreConfig, EngineStates
<1>17. ASSUME NEW t \in Threads, Tick(t)
       PROVE  LockInv'
  <2>1. CASE \/ Fail(t, "tick", "LifecycleTickInvalidState")
             \/ Fail(t, "tick", "LifecycleInvalidFrameContext")
    BY <1>13, <1>17, <2>1 DEF Tick, Deciding, Codes
  <2>2. CASE /\ state \in {"Initialized", "Running"}
             /\ state' = "Running" /\ UNCHANGED config /\ Succeed(t, "tick")
    BY <1>14, <1>17, <2>2 DEF Tick, Deciding, EngineStates
  <2>3. CASE /\ state \in {"Initialized", "Running"}
             /\ state' = "Running" /\ UNCHANGED config
             /\ signal' = [signal EXCEPT ![t] = FrameTrace]
             /\ result' = [result EXCEPT ![t] = "Ok"]
             /\ Goto(t, "export")
    BY <1>12, <1>17, <2>3 DEF Tick, Deciding, TypeOK, FrameTrace
  <2>4. QED
    BY <1>17, <2>1, <2>2, <2>3 DEF Tick
<1>18. ASSUME NEW t \in Threads, Pause(t)
       PROVE  LockInv'
  BY <1>13, <1>14, <1>18 DEF Pause, Deciding, Codes, EngineStates
<1>19. ASSUME NEW t \in Threads, Resume(t)
       PROVE  LockInv'
  BY <1>13, <1>14, <1>19 DEF Resume, Deciding, Codes, EngineStates
<1>20. ASSUME NEW t \in Threads, Shutdown(t)
       PROVE  LockInv'
  <2>1. CASE Fail(t, "shutdown", "LifecycleShutdownInvalidState")
    BY <1>13, <1>20, <2>1 DEF Shutdown, Deciding, Codes
  <2>2. CASE /\ state \in {"Stopping", "Stopped"}
             /\ UNCHANGED <<state, config>> /\ Succeed(t, "shutdown")
    BY <1>12, <1>14, <1>20, <2>2 DEF Shutdown, Deciding, EngineStates
  <2>3. CASE /\ state \in {"Initialized", "Running", "Paused"}
             /\ state' = "Stopping" /\ Goto(t, "stop")
             /\ UNCHANGED <<config, signal, result>>
    BY <1>12, <1>20, <2>3 DEF Shutdown, Deciding, TypeOK
  <2>4. QED
    BY <1>20, <2>1, <2>2, <2>3 DEF Shutdown
<1>21. ASSUME NEW t \in Threads, FinishStop(t)
       PROVE  LockInv'
  BY <1>12, <1>14, <1>21 DEF FinishStop, EngineStates
<1>22. ASSUME NEW t \in Threads, Unlock(t)
       PROVE  LockInv'
  <2>1. /\ stateMutex = t /\ request[t].op \in Mutators /\ result[t] # "none"
        /\ state # "Stopping" /\ config # Torn
    BY <1>22 DEF Unlock
  <2>2. /\ pc' = [pc EXCEPT ![t] = "return"] /\ stateMutex' = NoThread
        /\ UNCHANGED <<state, config, request, before, signal, result>>
    BY <1>22 DEF Unlock, locals
  <2>3. QED
    BY <2>1, <2>2 DEF TypeOK
<1>23. ASSUME NEW t \in Threads, Return(t)
       PROVE  LockInv'
  BY <1>23 DEF Return, TypeOK, shared, NoRequest, NoSignal, FrameTrace
<1>24. CASE \/ \E s \in Sinks : AddSink(s) \/ RemoveSink(s)
            \/ ClearSinks
            \/ \E b \in BOOLEAN : SetLogger(b) \/ SetTracer(b)
            \/ UNCHANGED vars
  BY <1>2, <1>24 DEF AddSink, RemoveSink, ClearSinks, SetLogger, SetTracer, vars
<1>25. QED
  BY <1>1, <1>3, <1>4, <1>5, <1>6, <1>7, <1>8, <1>9, <1>10, <1>11, <1>15, <1>16,
     <1>17, <1>18, <1>19, <1>20, <1>21, <1>22, <1>23, <1>24
     DEF Next, Environment, Step

-----------------------------------------------------------------------------
(* The inductive invariant holds of every behaviour.                       *)
THEOREM Invariance == Spec => []IInv
<1>1. Init => IInv
  BY TypeInit, LockInvInit DEF IInv, LockInv
<1>2. IInv /\ [Next]_vars => IInv'
  BY TypeStep, LockInvStep DEF IInv, LockInv
<1>3. QED
  BY <1>1, <1>2, PTL DEF Spec

(* Every variable of the controller keeps its type; no call ever returns a *)
(* configuration caught in the middle of its assignment.                   *)
THEOREM TypeCorrect == Spec => []TypeOK
BY Invariance, PTL DEF IInv

(* state_mutex_ is held by a thread exactly while that thread is inside    *)
(* initialize, tick, pause, resume or shutdown, exceptions included.       *)
THEOREM MutexDiscipline == Spec => []MutexHeldInMutators
BY Invariance, PTL DEF IInv

(* Neither a caller of state() nor a listener ever learns of Stopping.     *)
THEOREM StoppingHidden == Spec => []StoppingNeverReported
BY Invariance, PTL DEF IInv

(* The reference config() hands out is safe to read without the lock.      *)
THEOREM ConfigSafe == Spec => []ConfigReadsEffective
BY Invariance, PTL DEF IInv

-----------------------------------------------------------------------------
(* Refinement.  The abstract values of the variables that the contract     *)
(* names; request is the same on both sides.                               *)
AbsState == IF state = "Stopping" THEN "Stopped" ELSE state
AbsConfig == IF config = Torn THEN DefaultConfig ELSE config
AbsOutcome == [t \in Threads |-> Outcome(t)]

(* A step that changes no abstract value is a stuttering step.             *)
LEMMA Stutter ==
  ASSUME UNCHANGED <<AbsState, AbsConfig, request, AbsOutcome>>
  PROVE  UNCHANGED Contract!vars
BY DEF Contract!vars, AbsState, AbsConfig, AbsOutcome

(* A thread that moves changes its own outcome and no other.               *)
LEMMA Answered ==
  ASSUME TypeOK, NEW t \in Threads,
         pc' = [pc EXCEPT ![t] = pc'[t]],
         result' = [result EXCEPT ![t] = result'[t]]
  PROVE  AbsOutcome' = [AbsOutcome EXCEPT ![t] = Outcome(t)']
<1>1. \A u \in Threads \ {t} : Outcome(u)' = Outcome(u)
  BY DEF Outcome, TypeOK
<1>2. QED
  BY <1>1 DEF AbsOutcome

(* The initial states are initial states of the contract.                  *)
LEMMA RefineInit == Init => Contract!Init
BY ControllerAssumption
   DEF Init, Contract!Init, Outcome, NoRequest, Contract!NoRequest

(* Every step is a step of the contract or one that it does not see.       *)
LEMMA RefineStep == IInv /\ [Next]_vars => [Contract!Next]_(Contract!vars)
<1> SUFFICES ASSUME IInv, [Next]_vars
             PROVE  Contract!Next \/ UNCHANGED Contract!vars
  OBVIOUS
<1>0. /\ TypeOK /\ CallsKnown /\ ResultKnown /\ MutexHeldInMutators
      /\ IntermediatesGuarded /\ ConfigSettled
  BY DEF IInv
<1> USE <1>0, ControllerAssumption
(* The steps that the contract does not see.                               *)
<1>1. ASSUME UNCHANGED <<state, config, request, pc, result>>
      PROVE  UNCHANGED Contract!vars
  BY <1>1, Stutter DEF AbsState, AbsConfig, AbsOutcome, Outcome
<1>2. ASSUME NEW t \in Threads, UNCHANGED <<state, config, request>>,
             pc' = [pc EXCEPT ![t] = pc'[t]],
             result' = [result EXCEPT ![t] = result'[t]],
             Outcome(t)' = Outcome(t)
      PROVE  UNCHANGED Contract!vars
  <2>1. AbsOutcome' = AbsOutcome
    BY <1>2 DEF AbsOutcome, Outcome, TypeOK
  <2>2. QED
    BY <1>2, <2>1, Stutter DEF AbsState, AbsConfig
<1>3. ASSUME NEW t \in Threads,
             LockAndAttempt(t) \/ CopySinks(t) \/ EndEvent(t)
             \/ EndFrameTrace(t) \/ ReferConfig(t) \/ Unlock(t)
      PROVE  UNCHANGED Contract!vars
  <2>1. UNCHANGED <<state, config, request>>
    BY <1>3 DEF LockAndAttempt, CopySinks, EndEvent, EndFrameTrace, ReferConfig,
                Unlock, shared, locals
  <2>2. result' = result /\ pc' = [pc EXCEPT ![t] = pc'[t]]
    BY <1>3 DEF LockAndAttempt, CopySinks, EndEvent, EndFrameTrace, ReferConfig,
                Unlock, shared, locals, Goto, TypeOK
  <2>3. pc[t] \notin {"idle", "stop"} /\ pc'[t] \notin {"idle", "stop"}
    BY <1>3 DEF LockAndAttempt, CopySinks, EndEvent, EndFrameTrace, ReferConfig,
                Unlock, Goto, TypeOK
  <2>4. result' = [result EXCEPT ![t] = result'[t]]
    BY <2>2 DEF TypeOK
  <2>5. QED
    BY <1>2, <2>1, <2>2, <2>3, <2>4 DEF Outcome
(* The start and the end of a call, and its exceptional end.               *)
<1>4. ASSUME NEW t \in Threads, NEW r \in Calls, Call(t, r)
      PROVE  Contract!Next
  <2>0. /\ pc[t] = "idle" /\ pc' = [pc EXCEPT ![t] = "lock"]
        /\ result' = result /\ result[t] = "none"
    BY <1>4 DEF Call, Goto, ResultKnown
  <2>1. Outcome(t) = "none" /\ Outcome(t)' = "pending"
    BY <2>0 DEF Outcome, TypeOK
  <2>2. Contract!Answer(t, "pending")
    <3>1. /\ pc' = [pc EXCEPT ![t] = pc'[t]]
          /\ result' = [result EXCEPT ![t] = result'[t]]
      BY <2>0 DEF TypeOK
    <3>2. AbsOutcome' = [AbsOutcome EXCEPT ![t] = Outcome(t)']
      BY <3>1, Answered
    <3>3. QED
      BY <3>2, <2>1 DEF AbsOutcome, Contract!Answer
  <2>3. Contract!Invoke(t, r)
    BY <1>4, <2>1, <2>2 DEF Call, Contract!Invoke, Contract!Answer, shared
  <2>4. r \in Contract!Requests
    BY DEF Calls, Requests, Operations, Mutators, Contract!Requests,
           Contract!Operations, Contract!Mutators
  <2>5. QED
    BY <2>3, <2>4 DEF Contract!Next
<1>5. ASSUME NEW t \in Threads, Return(t)
      PROVE  Contract!Next
  <2>1. Outcome(t) \notin {"none", "pending"}
    <3>1. result[t] \notin {"none", "pending"}
      BY <1>5 DEF Return, ResultKnown, TypeOK, Codes, EngineStates
    <3>2. QED
      BY <1>5, <3>1 DEF Return, Outcome
  <2>2. Outcome(t)' = "none"
    BY <1>5 DEF Return, Goto, Outcome, TypeOK
  <2>3. Contract!Answer(t, "none")
    <3>1. /\ pc' = [pc EXCEPT ![t] = pc'[t]]
          /\ result' = [result EXCEPT ![t] = result'[t]]
      BY <1>5 DEF Return, Goto, TypeOK
    <3>2. AbsOutcome' = [AbsOutcome EXCEPT ![t] = Outcome(t)']
      BY <3>1, Answered
    <3>3. QED
      BY <3>2, <2>2 DEF AbsOutcome, Contract!Answer
  <2>4. NoRequest = Contract!NoRequest
    BY DEF NoRequest, Contract!NoRequest
  <2>5. Contract!Return(t)
    BY <1>5, <2>1, <2>3, <2>4 DEF Return, Contract!Return, Contract!Answer, shared
  <2>6. QED
    BY <2>5 DEF Contract!Next
<1>6. ASSUME NEW t \in Threads, ThrowFrom(t)
      PROVE  Contract!Next
  <2>1. Unwind(t) /\ pc[t] = "deliver"
    BY <1>6 DEF ThrowFrom
  <2>2. Outcome(t) # "none" /\ request[t].op \in Contract!Mutators
    BY <2>1 DEF Outcome, CallsKnown, Critical, Mutators, Contract!Mutators
  <2>3. Outcome(t)' = "threw"
    BY <2>1 DEF Unwind, Goto, Outcome, TypeOK
  <2>4. Contract!Answer(t, "threw")
    <3>1. /\ pc' = [pc EXCEPT ![t] = pc'[t]]
          /\ result' = [result EXCEPT ![t] = result'[t]]
      BY <2>1 DEF Unwind, Goto, TypeOK
    <3>2. AbsOutcome' = [AbsOutcome EXCEPT ![t] = Outcome(t)']
      BY <3>1, Answered
    <3>3. QED
      BY <3>2, <2>3 DEF AbsOutcome, Contract!Answer
  <2>5. Contract!Raise(t)
    BY <2>1, <2>2, <2>4 DEF Unwind, Contract!Raise
  <2>6. QED
    BY <2>5 DEF Contract!Next
(* The readers.                                                            *)
<1>7. ASSUME NEW t \in Threads, ReadState(t)
      PROVE  Contract!Next
  <2>1. state # "Stopping" /\ state # "none"
    BY <1>7 DEF ReadState, IntermediatesGuarded, TypeOK, EngineStates
  <2>2. Outcome(t) = "pending" /\ Outcome(t)' = state
    BY <1>7, <2>1 DEF ReadState, Outcome, Goto, TypeOK, ResultKnown
  <2>3. Contract!Answer(t, state)
    <3>1. /\ pc' = [pc EXCEPT ![t] = pc'[t]]
          /\ result' = [result EXCEPT ![t] = result'[t]]
      BY <1>7 DEF ReadState, Goto, TypeOK
    <3>2. AbsOutcome' = [AbsOutcome EXCEPT ![t] = Outcome(t)']
      BY <3>1, Answered
    <3>3. QED
      BY <3>2, <2>2 DEF AbsOutcome, Contract!Answer
  <2>4. Contract!PerformState(t)
    BY <1>7, <2>1, <2>2, <2>3 DEF ReadState, shared, Contract!PerformState
  <2>5. QED
    BY <2>4 DEF Contract!Next
<1>8. ASSUME NEW t \in Threads, DerefConfig(t)
      PROVE  Contract!Next
  <2>1. config \in Configs /\ config # Torn /\ config # "none"
    BY <1>8 DEF DerefConfig, CallsKnown, ConfigSettled
  <2>2. Outcome(t) = "pending" /\ Outcome(t)' = config
    BY <1>8, <2>1 DEF DerefConfig, Outcome, Goto, TypeOK, ResultKnown
  <2>3. Contract!Answer(t, config)
    <3>1. /\ pc' = [pc EXCEPT ![t] = pc'[t]]
          /\ result' = [result EXCEPT ![t] = result'[t]]
      BY <1>8 DEF DerefConfig, Goto, TypeOK
    <3>2. AbsOutcome' = [AbsOutcome EXCEPT ![t] = Outcome(t)']
      BY <3>1, Answered
    <3>3. QED
      BY <3>2, <2>2 DEF AbsOutcome, Contract!Answer
  <2>4. request[t].op = "config"
    BY <1>8 DEF DerefConfig, CallsKnown
  <2>5. Contract!PerformConfig(t)
    BY <1>8, <2>1, <2>2, <2>3, <2>4 DEF DerefConfig, shared, Contract!PerformConfig
  <2>6. QED
    BY <2>5 DEF Contract!Next
(* A call whose checks fail takes effect with its failure event.           *)
<1>9. ASSUME NEW t \in Threads, pc[t] = "decide"
      PROVE  /\ Outcome(t) = "pending" /\ request[t].op \in Contract!Mutators
             /\ AbsState = state /\ AbsConfig = config
  BY <1>9 DEF Outcome, AbsState, AbsConfig, CallsKnown, ResultKnown, Critical,
              Mutators, Contract!Mutators, IntermediatesGuarded, MutexHeldInMutators
<1>10. ASSUME NEW t \in Threads, NEW op, NEW code \in Codes, Deciding(t, op),
              Fail(t, op, code)
       PROVE  /\ Contract!Answer(t, code)
              /\ UNCHANGED <<AbsState, AbsConfig, request>>
  <2>1. Outcome(t)' = code
    BY <1>10 DEF Deciding, Fail, Goto, Outcome, TypeOK, Codes
  <2>2. Contract!Answer(t, code)
    <3>1. /\ pc' = [pc EXCEPT ![t] = pc'[t]]
          /\ result' = [result EXCEPT ![t] = result'[t]]
      BY <1>10 DEF Fail, Goto, TypeOK
    <3>2. AbsOutcome' = [AbsOutcome EXCEPT ![t] = Outcome(t)']
      BY <3>1, Answered
    <3>3. QED
      BY <3>2, <2>1 DEF AbsOutcome, Contract!Answer
  <2>3. QED
    BY <1>10, <2>2 DEF Deciding, Fail, AbsState, AbsConfig
<1>11. ASSUME NEW t \in Threads, NEW op \in Mutators, Deciding(t, op),
              Fail(t, op, Contract!InvalidState[op]),
              state \notin Contract!Accepts[op]
       PROVE  Contract!Next
  <2>1. Contract!InvalidState[op] \in Codes
    BY DEF Mutators, Contract!InvalidState, Codes
  <2>2. Contract!PerformMutator(t)
    BY <1>9, <1>10, <1>11, <2>1
       DEF Deciding, Contract!PerformMutator, AbsState, AbsConfig
  <2>3. QED
    BY <2>2 DEF Contract!Next
(* A call whose checks pass takes effect when it changes state_, but for   *)
(* shutdown, whose second assignment is the one the contract does not see. *)
<1>12. ASSUME NEW t \in Threads, NEW op \in Mutators, request[t].op = op,
              Outcome(t) = "pending", Contract!Answer(t, "Ok"),
              AbsState \in Contract!Accepts[op],
              ~Contract!BadConfig(request[t]), ~Contract!BadFrame(request[t]),
              AbsState' = Contract!Target[op],
              AbsConfig' = IF op = "initialize" THEN request[t].config ELSE AbsConfig,
              UNCHANGED request
       PROVE  Contract!Next
  <2>1. request[t].op \in Contract!Mutators
    BY <1>12 DEF Mutators, Contract!Mutators
  <2>2. Contract!PerformMutator(t)
    BY <1>12, <2>1 DEF Contract!PerformMutator, AbsState, AbsConfig
  <2>3. QED
    BY <2>2 DEF Contract!Next
<1>13. ASSUME NEW t \in Threads, pc' = [pc EXCEPT ![t] = "export"],
              result' = [result EXCEPT ![t] = "Ok"]
       PROVE  Contract!Answer(t, "Ok")
  <2>1. /\ pc' = [pc EXCEPT ![t] = pc'[t]]
        /\ result' = [result EXCEPT ![t] = result'[t]]
        /\ Outcome(t)' = "Ok"
    BY <1>13 DEF Outcome, TypeOK
  <2>2. AbsOutcome' = [AbsOutcome EXCEPT ![t] = Outcome(t)']
    BY <2>1, Answered
  <2>3. QED
    BY <2>1, <2>2 DEF AbsOutcome, Contract!Answer
<1>14. ASSUME NEW t \in Threads, Initialize(t)
       PROVE  Contract!Next \/ UNCHANGED Contract!vars
  <2>0. Deciding(t, "initialize") /\ pc[t] = "decide"
    BY <1>14 DEF Initialize, Deciding
  <2>1. CASE /\ state # "Uninitialized"
             /\ Fail(t, "initialize", "LifecycleInitializeInvalidState")
    BY <2>0, <2>1, <1>11 DEF Mutators, Contract!InvalidState, Contract!Accepts
  <2>2. CASE /\ state = "Uninitialized" /\ request[t].config \notin ValidConfigs
             /\ Fail(t, "initialize", "LifecycleInvalidConfig")
    <3>1. /\ Contract!Answer(t, "LifecycleInvalidConfig")
          /\ UNCHANGED <<AbsState, AbsConfig, request>>
      BY <2>0, <2>2, <1>10 DEF Codes
    <3>2. Contract!PerformMutator(t)
      BY <2>0, <2>2, <3>1, <1>9
         DEF Deciding, Contract!PerformMutator, Contract!Accepts, Contract!BadConfig,
             AbsState, AbsConfig
    <3>3. QED
      BY <3>2 DEF Contract!Next
  <2>3. CASE /\ state = "Uninitialized" /\ config' = Torn /\ Goto(t, "store")
             /\ UNCHANGED <<state, signal, result>>
    <3>1. Outcome(t)' = Outcome(t)
      BY <2>0, <2>3 DEF Goto, Outcome, TypeOK
    <3>2. AbsOutcome' = AbsOutcome
      BY <2>0, <2>3, <3>1 DEF Goto, AbsOutcome, Outcome, TypeOK
    <3>3. config = DefaultConfig
      BY <2>0, <2>3, <1>9 DEF ConfigSettled, AbsConfig
    <3>4. UNCHANGED <<AbsState, AbsConfig, request>>
      BY <2>0, <2>3, <3>3 DEF AbsState, AbsConfig, Deciding
    <3>5. QED
      BY <3>2, <3>4, Stutter
  <2>4. QED
    BY <1>14, <2>1, <2>2, <2>3 DEF Initialize
<1>15. ASSUME NEW t \in Threads, StoreConfig(t)
       PROVE  Contract!Next
  <2>1. /\ pc[t] = "store" /\ request[t].op = "initialize"
        /\ request[t].config \in ValidConfigs
        /\ state = "Uninitialized" /\ config = Torn /\ result[t] = "none"
    BY <1>15 DEF StoreConfig, CallsKnown, IntermediatesGuarded, ResultKnown
  <2>2. /\ config' = request[t].config /\ state' = "Initialized"
        /\ UNCHANGED request
        /\ Contract!Answer(t, "Ok")
    BY <1>13, <1>15 DEF StoreConfig, Succeed, Goto
  <2>3. Outcome(t) = "pending"
    BY <2>1 DEF Outcome
  <2>4. /\ AbsState = "Uninitialized" /\ AbsState' = "Initialized"
        /\ AbsConfig' = request[t].config
    BY <2>1, <2>2 DEF AbsState, AbsConfig
  <2>5. ~Contract!BadConfig(request[t]) /\ ~Contract!BadFrame(request[t])
    BY <2>1 DEF Contract!BadConfig, Contract!BadFrame
  <2>6. /\ AbsState \in Contract!Accepts["initialize"]
        /\ AbsState' = Contract!Target["initialize"]
    BY <2>4 DEF Contract!Accepts, Contract!Target
  <2>7. QED
    BY <1>12, <2>1, <2>2, <2>3, <2>4, <2>5, <2>6 DEF Mutators
<1>16. ASSUME NEW t \in Threads, NEW op \in Mutators \ {"initialize"}, Deciding(t, op),
              AbsState \in Contract!Accepts[op], ~Contract!BadFrame(request[t]),
              AbsState' = Contract!Target[op], UNCHANGED config,
              Contract!Answer(t, "Ok")
       PROVE  Contract!Next
  <2>1. AbsConfig' = AbsConfig /\ ~Contract!BadConfig(request[t])
    BY <1>16 DEF AbsConfig, Deciding, Contract!BadConfig
  <2>2. QED
    BY <1>9, <1>12, <1>16, <2>1 DEF Deciding
<1>17. ASSUME NEW t \in Threads, Tick(t)
       PROVE  Contract!Next
  <2>0. Deciding(t, "tick") /\ pc[t] = "decide" /\ request[t].op = "tick"
    BY <1>17 DEF Tick, Deciding
  <2>1. CASE /\ state \notin {"Initialized", "Running"}
             /\ Fail(t, "tick", "LifecycleTickInvalidState")
    BY <2>0, <2>1, <1>11 DEF Mutators, Contract!InvalidState, Contract!Accepts
  <2>2. CASE /\ state \in {"Initialized", "Running"} /\ request[t].negative
             /\ Fail(t, "tick", "LifecycleInvalidFrameContext")
    <3>1. /\ Contract!Answer(t, "LifecycleInvalidFrameContext")
          /\ UNCHANGED <<AbsState, AbsConfig, request>>
      BY <2>0, <2>2, <1>10 DEF Codes
    <3>2. Contract!PerformMutator(t)
      BY <2>0, <2>2, <3>1, <1>9
         DEF Contract!PerformMutator, Contract!Accepts, Contract!BadFrame,
             AbsState, AbsConfig
    <3>3. QED
      BY <3>2 DEF Contract!Next
  <2>3. CASE /\ state \in {"Initialized", "Running"} /\ ~request[t].negative
             /\ state' = "Running" /\ UNCHANGED config
             /\ pc' = [pc EXCEPT ![t] = "export"]
             /\ result' = [result EXCEPT ![t] = "Ok"]
    <3>1. AbsState \in Contract!Accepts["tick"] /\ AbsState' = Contract!Target["tick"]
      BY <2>3 DEF AbsState, Contract!Accepts, Contract!Target
    <3>2. ~Contract!BadFrame(request[t])
      BY <2>3 DEF Contract!BadFrame
    <3>3. QED
      BY <1>13, <1>16, <2>0, <2>3, <3>1, <3>2 DEF Mutators
  <2>4. QED
    BY <1>17, <2>1, <2>2, <2>3 DEF Tick, Succeed, Goto
<1>18. ASSUME NEW t \in Threads, Pause(t)
       PROVE  Contract!Next
  <2>0. Deciding(t, "pause") /\ request[t].op = "pause"
    BY <1>18 DEF Pause, Deciding
  <2>1. CASE state # "Running" /\ Fail(t, "pause", "LifecyclePauseInvalidState")
    BY <2>0, <2>1, <1>11 DEF Mutators, Contract!InvalidState, Contract!Accepts
  <2>2. CASE /\ state = "Running" /\ state' = "Paused" /\ UNCHANGED config
             /\ Succeed(t, "pause")
    <3>1. /\ AbsState \in Contract!Accepts["pause"] /\ AbsState' = Contract!Target["pause"]
          /\ ~Contract!BadFrame(request[t])
      BY <2>0, <2>2 DEF AbsState, Contract!Accepts, Contract!Target, Contract!BadFrame
    <3>2. Contract!Answer(t, "Ok")
      BY <1>13, <2>2 DEF Succeed, Goto
    <3>3. QED
      BY <1>16, <2>0, <2>2, <3>1, <3>2 DEF Mutators
  <2>3. QED
    BY <1>18, <2>1, <2>2 DEF Pause
<1>19. ASSUME NEW t \in Threads, Resume(t)
       PROVE  Contract!Next
  <2>0. Deciding(t, "resume") /\ request[t].op = "resume"
    BY <1>19 DEF Resume, Deciding
  <2>1. CASE state # "Paused" /\ Fail(t, "resume", "LifecycleResumeInvalidState")
    BY <2>0, <2>1, <1>11 DEF Mutators, Contract!InvalidState, Contract!Accepts
  <2>2. CASE /\ state = "Paused" /\ state' = "Running" /\ UNCHANGED config
             /\ Succeed(t, "resume")
    <3>1. /\ AbsState \in Contract!Accepts["resume"] /\ AbsState' = Contract!Target["resume"]
          /\ ~Contract!BadFrame(request[t])
      BY <2>0, <2>2 DEF AbsState, Contract!Accepts, Contract!Target, Contract!BadFrame
    <3>2. Contract!Answer(t, "Ok")
      BY <1>13, <2>2 DEF Succeed, Goto
    <3>3. QED
      BY <1>16, <2>0, <2>2, <3>1, <3>2 DEF Mutators
  <2>3. QED
    BY <1>19, <2>1, <2>2 DEF Resume
<1>20. ASSUME NEW t \in Threads, Shutdown(t)
       PROVE  Contract!Next
  <2>0. Deciding(t, "shutdown") /\ pc[t] = "decide" /\ request[t].op = "shutdown"
    BY <1>20 DEF Shutdown, Deciding
  <2>1. CASE state = "Uninitialized" /\ Fail(t, "shutdown", "LifecycleShutdownInvalidState")
    BY <2>0, <2>1, <1>11 DEF Mutators, Contract!InvalidState, Contract!Accepts
  <2>2. CASE /\ state \in {"Stopping", "Stopped"}
             /\ UNCHANGED <<state, config>> /\ Succeed(t, "shutdown")
    <3>1. /\ AbsState \in Contract!Accepts["shutdown"]
          /\ AbsState' = Contract!Target["shutdown"]
          /\ ~Contract!BadFrame(request[t])
      BY <2>0, <2>2 DEF AbsState, Contract!Accepts, Contract!Target, Contract!BadFrame,
                        Contract!PublicStates
    <3>2. Contract!Answer(t, "Ok")
      BY <1>13, <2>2 DEF Succeed, Goto
    <3>3. QED
      BY <1>16, <2>0, <2>2, <3>1, <3>2 DEF Mutators
  <2>3. CASE /\ state \in {"Initialized", "Running", "Paused"}
             /\ state' = "Stopping" /\ Goto(t, "stop")
             /\ UNCHANGED <<config, signal, result>>
    <3>1. /\ AbsState \in Contract!Accepts["shutdown"]
          /\ AbsState' = Contract!Target["shutdown"]
          /\ ~Contract!BadFrame(request[t])
      BY <2>0, <2>3 DEF AbsState, Contract!Accepts, Contract!Target, Contract!BadFrame,
                        Contract!PublicStates
    <3>2. /\ pc' = [pc EXCEPT ![t] = pc'[t]] /\ result' = [result EXCEPT ![t] = result'[t]]
          /\ Outcome(t)' = "Ok"
      BY <2>3 DEF Goto, Outcome, TypeOK
    <3>3. AbsOutcome' = [AbsOutcome EXCEPT ![t] = Outcome(t)']
      BY <3>2, Answered
    <3>4. Contract!Answer(t, "Ok")
      BY <3>2, <3>3 DEF AbsOutcome, Contract!Answer
    <3>5. QED
      BY <1>16, <2>0, <2>3, <3>1, <3>4 DEF Mutators
  <2>4. QED
    BY <1>20, <2>1, <2>2, <2>3 DEF Shutdown
<1>21. ASSUME NEW t \in Threads, FinishStop(t)
       PROVE  UNCHANGED Contract!vars
  <2>1. state = "Stopping"
    BY <1>21 DEF FinishStop, IntermediatesGuarded
  <2>2. UNCHANGED <<AbsState, AbsConfig, request>>
    BY <1>21, <2>1 DEF FinishStop, AbsState, AbsConfig
  <2>3. /\ pc[t] = "stop" /\ pc' = [pc EXCEPT ![t] = "export"]
        /\ result' = [result EXCEPT ![t] = "Ok"]
    BY <1>21 DEF FinishStop, Succeed, Goto
  <2>4. AbsOutcome' = AbsOutcome
    BY <2>3 DEF AbsOutcome, Outcome, TypeOK
  <2>5. QED
    BY <2>2, <2>4, Stutter
<1>22. CASE \/ \E s \in Sinks : AddSink(s) \/ RemoveSink(s)
            \/ ClearSinks
            \/ \E b \in BOOLEAN : SetLogger(b) \/ SetTracer(b)
            \/ \E t \in Threads : DeliverToSink(t)
            \/ UNCHANGED vars
  BY <1>1, <1>22 DEF AddSink, RemoveSink, ClearSinks, SetLogger, SetTracer,
                     DeliverToSink, vars, shared, locals
<1>23. QED
  BY <1>3, <1>4, <1>5, <1>6, <1>7, <1>8, <1>14, <1>15, <1>17, <1>18, <1>19, <1>20,
     <1>21, <1>22 DEF Next, Environment, Step

(* The controller implements the linearizable lifecycle of the contract:   *)
(* every interleaving of calls is one in which each call takes effect at   *)
(* one instant between its invocation and its return.                      *)
THEOREM Refinement == Spec => ImplementsContract
BY Invariance, RefineInit, RefineStep, PTL
   DEF Spec, ImplementsContract, Contract!Spec

-----------------------------------------------------------------------------
(* LISTENERS.  What a listener has received last, compared with where the  *)
(* holder of the mutex is: with the mutex free and before an attempt it is *)
(* settled, after an attempt and before its outcome it is told.            *)
Attempting(t) == signal[t].kind = "lifecycle" /\ signal[t].phase = "Attempt"

Settled(l) ==
  \/ lastSeen[l].kind = "none"
  \/ lastSeen[l].phase # "Attempt" /\ lastSeen[l].after = state

Told(t, l) ==
  \/ lastSeen[l].kind = "none"
  \/ /\ lastSeen[l].phase = "Attempt"
     /\ lastSeen[l].op = request[t].op /\ lastSeen[l].before = before[t]

(* The signal of t has yet to reach listener l.                            *)
Awaits(t, l) == l = Logger \/ l \in Range(copy[t])

Heard(t, l) ==
  /\ pc[t] = "export" => IF Attempting(t) THEN Settled(l) ELSE Told(t, l)
  /\ pc[t] = "deliver" =>
       IF signal[t].kind = "lifecycle" /\ (Attempting(t) <=> Awaits(t, l))
       THEN Settled(l) ELSE Told(t, l)
  /\ pc[t] \in {"decide", "store", "stop"} => Told(t, l)
  /\ pc[t] = "unlock" => Settled(l)

(* An operation that is past its attempt has told the logger of it.        *)
PastAttempt(t) ==
  \/ pc[t] \in {"decide", "store", "stop"}
  \/ pc[t] \in {"export", "deliver"} /\ ~Attempting(t)

(* The signal under way is a frame, or the event of this very operation.   *)
Truthful(t) ==
  pc[t] \in {"export", "deliver"} =>
    /\ signal[t].kind \in {"lifecycle", "frame"}
    /\ signal[t].kind = "lifecycle" =>
         /\ signal[t].op = request[t].op
         /\ signal[t].before = before[t] /\ signal[t].after = state
         /\ signal[t].phase = "Attempt" => before[t] = state

Streams ==
  /\ \A l \in Listeners : Registered(l) \/ lastSeen[l].kind = "none"
  /\ stateMutex = NoThread => \A l \in Listeners : Settled(l)
  /\ \A t \in Threads : stateMutex = t =>
       /\ Truthful(t)
       /\ \A l \in Listeners : Heard(t, l)
       /\ logger /\ PastAttempt(t) => lastSeen[Logger].kind # "none"

CopiesOnce == \A t \in Threads : IsInjective(copy[t])

ListenInv == SinkListSound /\ CopiesOnce /\ FrameTracesOnlyWhileRunning /\ Streams

-----------------------------------------------------------------------------
(* The sink list: the operations on it keep it sound, the other listeners  *)
(* keep their place, and the one that is removed or cleared is gone.       *)
LEMMA SinkListStays ==
  ASSUME TypeOK, SinkListSound,
         \/ \E s \in Sinks : AddSink(s) \/ RemoveSink(s)
         \/ ClearSinks
  PROVE  /\ SinkListSound'
         /\ \A l \in Listeners :
              \/ lastSeen'[l].kind = "none"
              \/ lastSeen'[l] = lastSeen[l] /\ (Registered(l) => Registered(l)')
<1> USE ControllerAssumption
<1>1. /\ sinks \in Seq(Listed) /\ <<NoopSink>> \in Seq(Listed) /\ <<>> \in Seq(Listed)
      /\ Sinks \subseteq Listed
  BY DEF TypeOK, Listed
<1>2. Range(<<>>) = {} /\ IsInjective(<<>>)
  BY DEF Range, IsInjective
<1>3. Range(<<NoopSink>>) = {NoopSink} /\ IsInjective(<<NoopSink>>)
  BY DEF Range, IsInjective
<1>4. NoSignal.kind = "none"
  BY DEF NoSignal, FrameTrace
<1>5. ASSUME NEW s \in Sinks, AddSink(s)
      PROVE  /\ SinkListSound'
             /\ lastSeen' = lastSeen
             /\ \A l \in Listeners : Registered(l) => Registered(l)'
  <2> DEFINE list == IF sinks = <<NoopSink>> THEN <<>> ELSE sinks
  <2>1. list \in Seq(Listed) /\ IsInjective(list) /\ s \notin Range(list)
    BY <1>1, <1>2, <1>5 DEF SinkListSound, AddSink
  <2>2. NoopSink \notin Range(list) /\ Range(sinks) \subseteq Range(list) \cup {NoopSink}
    BY <1>2, <1>3 DEF SinkListSound
  <2>3. sinks' = Append(list, s) /\ logger' = logger /\ lastSeen' = lastSeen
    BY <1>5 DEF AddSink
  <2> HIDE DEF list
  <2>4. Range(sinks') = Range(list) \cup {s} /\ IsInjective(sinks') /\ sinks' # <<>>
    BY <1>1, <2>1, <2>3, Elements, OnceAtTheEnds, AppendProperties
  <2>5. SinkListSound'
    BY <2>2, <2>4 DEF SinkListSound
  <2>6. \A l \in Listeners : l # NoopSink
    BY DEF Listeners
  <2>7. QED
    BY <2>2, <2>3, <2>4, <2>5, <2>6 DEF Registered
<1>6. ASSUME NEW list \in Seq(Listed), IsInjective(list),
             NoopSink \in Range(list) => list = <<NoopSink>>
      PROVE  /\ IsInjective(OrNoop(list)) /\ OrNoop(list) # <<>>
             /\ NoopSink \in Range(OrNoop(list)) => OrNoop(list) = <<NoopSink>>
             /\ Range(list) \subseteq Range(OrNoop(list))
  <2>1. CASE list = <<>>
    BY <1>2, <1>3, <2>1 DEF OrNoop
  <2>2. CASE list # <<>>
    BY <1>6, <2>2 DEF OrNoop
  <2>3. QED
    BY <2>1, <2>2
<1>7. ASSUME NEW s \in Sinks, RemoveSink(s)
      PROVE  /\ SinkListSound'
             /\ lastSeen'[s].kind = "none"
             /\ \A l \in Listeners \ {s} :
                  lastSeen'[l] = lastSeen[l] /\ (Registered(l) => Registered(l)')
  <2>1. /\ logger' = logger
        /\ lastSeen' = [l \in Listeners |-> IF l \in {s} THEN NoSignal ELSE lastSeen[l]]
    BY <1>7 DEF RemoveSink, Forget
  <2>2. SinkListSound' /\ Range(sinks) \ {s} \subseteq Range(sinks')
    <3>1. CASE sinks' = OrNoop(sinks)
      BY <1>1, <1>6, <3>1 DEF SinkListSound
    <3>2. ASSUME NEW i \in DOMAIN sinks, sinks[i] = s, sinks' = OrNoop(RemoveAt(sinks, i))
          PROVE  SinkListSound' /\ Range(sinks) \ {s} \subseteq Range(sinks')
      <4>1. i \in 1 .. Len(sinks)
        BY <1>1, LenProperties
      <4>2. /\ RemoveAt(sinks, i) \in Seq(Listed)
            /\ IsInjective(RemoveAt(sinks, i))
            /\ Range(RemoveAt(sinks, i)) = Range(sinks) \ {s}
        BY <1>1, <3>2, <4>1, Erased, ErasedOnce DEF SinkListSound
      <4>3. NoopSink \notin Range(RemoveAt(sinks, i))
        <5>1. s \in Range(sinks) /\ s # NoopSink
          BY <3>2 DEF Range
        <5>2. QED
          BY <1>3, <4>2, <5>1 DEF SinkListSound
      <4>4. QED
        BY <1>6, <3>2, <4>2, <4>3 DEF SinkListSound
    <3>3. QED
      BY <1>7, <3>1, <3>2 DEF RemoveSink
  <2>3. QED
    BY <1>4, <2>1, <2>2 DEF Registered, Listeners
<1>8. ASSUME ClearSinks
      PROVE  /\ SinkListSound'
             /\ \A l \in Listeners :
                  \/ lastSeen'[l].kind = "none"
                  \/ lastSeen'[l] = lastSeen[l] /\ (Registered(l) => Registered(l)')
  <2>1. /\ sinks' = <<NoopSink>> /\ logger' = logger
        /\ lastSeen' = [l \in Listeners |-> IF l \in Sinks THEN NoSignal ELSE lastSeen[l]]
    BY <1>8 DEF ClearSinks, Forget
  <2>2. SinkListSound'
    BY <1>3, <2>1 DEF SinkListSound
  <2>3. Logger \notin Range(sinks)
    BY <1>1, Elements DEF Listed
  <2>4. QED
    BY <1>4, <2>1, <2>2, <2>3 DEF Registered, Listeners
<1>9. QED
  BY <1>5, <1>7, <1>8

-----------------------------------------------------------------------------
(* Nothing but the holder of the mutex moves the streams on: a step that   *)
(* leaves its locals alone, and at most silences listeners, keeps them.    *)
LEMMA BystanderKeeps ==
  ASSUME IInv, IInv', Streams, FrameTracesOnlyWhileRunning,
         UNCHANGED shared,
         \A t \in Threads : stateMutex = t =>
           /\ pc'[t] = pc[t] /\ request'[t] = request[t] /\ before'[t] = before[t]
           /\ signal'[t] = signal[t] /\ copy'[t] = copy[t],
         \A l \in Listeners :
           \/ lastSeen'[l].kind = "none"
           \/ lastSeen'[l] = lastSeen[l] /\ (Registered(l) => Registered(l)'),
         stateMutex # NoThread =>
           logger' = logger /\ lastSeen'[Logger] = lastSeen[Logger]
  PROVE  Streams' /\ FrameTracesOnlyWhileRunning'
<1> USE ControllerAssumption
<1>1. state' = state /\ config' = config /\ stateMutex' = stateMutex
  BY DEF shared
<1>2. \A l \in Listeners : (Registered(l) \/ lastSeen[l].kind = "none")'
  BY DEF Streams
<1>3. stateMutex' = NoThread => \A l \in Listeners : Settled(l)'
  BY <1>1 DEF Streams, Settled
<1>4. ASSUME NEW t \in Threads, stateMutex' = t
      PROVE  /\ Truthful(t)'
             /\ \A l \in Listeners : Heard(t, l)'
             /\ (logger /\ PastAttempt(t) => lastSeen[Logger].kind # "none")'
             /\ (pc[t] \in {"export", "deliver"} /\ signal[t].kind = "frame" =>
                   /\ state = "Running" /\ config \in TracedConfigs
                   /\ request[t].op = "tick" /\ ~request[t].negative)'
  <2>0. stateMutex = t
    BY <1>1, <1>4
  <2>1. /\ pc'[t] = pc[t] /\ request'[t] = request[t] /\ before'[t] = before[t]
        /\ signal'[t] = signal[t] /\ copy'[t] = copy[t]
    BY <2>0
  <2>2. /\ Truthful(t)
        /\ \A l \in Listeners : Heard(t, l)
        /\ logger /\ PastAttempt(t) => lastSeen[Logger].kind # "none"
    BY <2>0 DEF Streams
  <2>3. Truthful(t)'
    BY <1>1, <2>1, <2>2 DEF Truthful
  <2>4. ASSUME NEW l \in Listeners
        PROVE  Heard(t, l)'
    <3>1. CASE lastSeen'[l].kind = "none"
      BY <3>1 DEF Heard, Settled, Told
    <3>2. CASE lastSeen'[l] = lastSeen[l]
      <4>1. Heard(t, l)
        BY <2>2
      <4>2. /\ Settled(l)' = Settled(l) /\ Told(t, l)' = Told(t, l)
            /\ Awaits(t, l)' = Awaits(t, l) /\ Attempting(t)' = Attempting(t)
        BY <1>1, <2>1, <3>2 DEF Settled, Told, Awaits, Attempting
      <4>3. QED
        BY <2>1, <4>1, <4>2 DEF Heard
    <3>3. QED
      BY <3>1, <3>2
  <2>5. (logger /\ PastAttempt(t) => lastSeen[Logger].kind # "none")'
    BY <2>0, <2>1, <2>2 DEF PastAttempt, Attempting
  <2>6. QED
    BY <1>1, <2>1, <2>3, <2>4, <2>5 DEF FrameTracesOnlyWhileRunning
<1>5. Streams'
  BY <1>2, <1>3, <1>4 DEF Streams
<1>6. FrameTracesOnlyWhileRunning'
  <2> SUFFICES ASSUME NEW t \in Threads,
                      pc'[t] \in {"export", "deliver"}, signal'[t].kind = "frame"
               PROVE  /\ state' = "Running" /\ config' \in TracedConfigs
                      /\ request'[t].op = "tick" /\ ~request'[t].negative
    BY DEF FrameTracesOnlyWhileRunning
  <2>1. stateMutex' = t
    BY DEF IInv, MutexHeldInMutators, Critical
  <2>2. QED
    BY <1>4, <2>1
<1>7. QED
  BY <1>5, <1>6

(* A step of the thread that holds the mutex, or takes or releases it: it  *)
(* is enough to look at that thread.                                       *)
LEMMA HolderKeeps ==
  ASSUME NEW t \in Threads, IInv',
         UNCHANGED <<sinks, logger>>,
         stateMutex' \in {t, NoThread},
         \A l \in Listeners : Registered(l) \/ lastSeen'[l].kind = "none",
         stateMutex' = NoThread => \A l \in Listeners : Settled(l)',
         stateMutex' = t => /\ Truthful(t)'
                            /\ \A l \in Listeners : Heard(t, l)'
                            /\ (logger /\ PastAttempt(t) => lastSeen[Logger].kind # "none")',
         pc'[t] \in {"export", "deliver"} /\ signal'[t].kind = "frame" =>
           /\ state' = "Running" /\ config' \in TracedConfigs
           /\ request'[t].op = "tick" /\ ~request'[t].negative
  PROVE  Streams' /\ FrameTracesOnlyWhileRunning'
<1> USE ControllerAssumption
<1>1. \A l \in Listeners : (Registered(l) \/ lastSeen[l].kind = "none")'
  BY DEF Registered
<1>2. ASSUME NEW u \in Threads, stateMutex' = u
      PROVE  u = t
  BY <1>2
<1>3. Streams'
  BY <1>1, <1>2 DEF Streams
<1>4. FrameTracesOnlyWhileRunning'
  <2>1. ASSUME NEW u \in Threads, pc'[u] \in {"export", "deliver"}
        PROVE  u = t
    BY <1>2, <2>1 DEF IInv, MutexHeldInMutators, Critical
  <2>2. QED
    BY <2>1 DEF FrameTracesOnlyWhileRunning
<1>5. QED
  BY <1>3, <1>4

(* What the invariant says of the thread that holds the mutex.             *)
LEMMA HolderKnows ==
  ASSUME NEW t \in Threads, IInv, ListenInv, pc[t] \in Critical
  PROVE  /\ stateMutex = t /\ request[t].op \in Mutators
         /\ Truthful(t)
         /\ \A l \in Listeners : Heard(t, l)
         /\ logger /\ PastAttempt(t) => lastSeen[Logger].kind # "none"
         /\ \A l \in Listeners : Registered(l) \/ lastSeen[l].kind = "none"
<1>1. stateMutex = t /\ request[t].op \in Mutators
  BY DEF IInv, MutexHeldInMutators, CallsKnown
<1>2. QED
  BY <1>1 DEF ListenInv, Streams

(* The step a mutator starts with.                                         *)
LEMMA LockStreams ==
  ASSUME NEW t \in Threads, IInv, IInv', ListenInv, LockAndAttempt(t)
  PROVE  Streams' /\ FrameTracesOnlyWhileRunning'
<1> USE ControllerAssumption
<1>1. /\ stateMutex = NoThread /\ stateMutex' = t /\ t # NoThread
      /\ state' = state /\ lastSeen' = lastSeen /\ sinks' = sinks /\ logger' = logger
      /\ request' = request
  BY DEF LockAndAttempt, clients
<1>2. /\ pc'[t] = "export" /\ before'[t] = state
      /\ signal'[t] = LifecycleEvent(request[t].op, "Attempt", state, state, "Ok")
  BY DEF LockAndAttempt, Goto, IInv, TypeOK
<1>3. \A l \in Listeners : Settled(l)
  BY <1>1 DEF ListenInv, Streams
<1>4. Attempting(t)' /\ Truthful(t)' /\ ~PastAttempt(t)'
  BY <1>1, <1>2 DEF Attempting, Truthful, PastAttempt, LifecycleEvent
<1>5. ASSUME NEW l \in Listeners
      PROVE  Heard(t, l)'
  <2>1. Settled(l)'
    BY <1>1, <1>3 DEF Settled
  <2>2. QED
    BY <1>2, <1>4, <2>1 DEF Heard
<1>6. \A l \in Listeners : Registered(l) \/ lastSeen'[l].kind = "none"
  BY <1>1 DEF ListenInv, Streams
<1>7. signal'[t].kind # "frame"
  BY <1>2 DEF LifecycleEvent
<1>8. QED
  BY <1>1, <1>4, <1>5, <1>6, <1>7, HolderKeeps

(* Copying the list: who is not on it has nothing to wait for.             *)
LEMMA CopyStreams ==
  ASSUME NEW t \in Threads, IInv, IInv', ListenInv, CopySinks(t)
  PROVE  Streams' /\ FrameTracesOnlyWhileRunning' /\ IsInjective(copy'[t])
<1> USE ControllerAssumption
<1>0. /\ pc[t] = "export" /\ pc[t] \in Critical
  BY DEF CopySinks, Critical
<1>1. /\ UNCHANGED <<state, config, stateMutex, sinks, logger, lastSeen>>
      /\ UNCHANGED <<request, before, signal>>
  BY DEF CopySinks, shared, clients
<1>2. pc'[t] = "deliver" /\ copy'[t] = sinks
  BY DEF CopySinks, Goto, IInv, TypeOK
<1>3. /\ stateMutex = t /\ Truthful(t) /\ \A l \in Listeners : Heard(t, l)
      /\ logger /\ PastAttempt(t) => lastSeen[Logger].kind # "none"
      /\ \A l \in Listeners : Registered(l) \/ lastSeen[l].kind = "none"
  BY <1>0, HolderKnows
<1>4. Truthful(t)' /\ PastAttempt(t)' = PastAttempt(t) /\ Attempting(t)' = Attempting(t)
  BY <1>0, <1>1, <1>2, <1>3 DEF Truthful, PastAttempt, Attempting
<1>5. ASSUME NEW l \in Listeners
      PROVE  Heard(t, l)'
  <2>1. IF Attempting(t) THEN Settled(l) ELSE Told(t, l)
    BY <1>0, <1>3 DEF Heard
  <2>2. Settled(l)' = Settled(l) /\ Told(t, l)' = Told(t, l)
    BY <1>1 DEF Settled, Told
  <2>3. Awaits(t, l)' \/ lastSeen[l].kind = "none"
    BY <1>2, <1>3 DEF Awaits, Registered
  <2>4. lastSeen[l].kind = "none" => Settled(l) /\ Told(t, l)
    BY DEF Settled, Told
  <2>5. signal[t].kind # "lifecycle" => ~Attempting(t)
    BY DEF Attempting
  <2>6. QED
    BY <1>1, <1>2, <1>4, <2>1, <2>2, <2>3, <2>4, <2>5 DEF Heard
<1>6. signal[t].kind = "frame" => /\ state = "Running" /\ config \in TracedConfigs
                                  /\ request[t].op = "tick" /\ ~request[t].negative
  BY <1>0 DEF ListenInv, FrameTracesOnlyWhileRunning
<1>7. Streams' /\ FrameTracesOnlyWhileRunning'
  BY <1>1, <1>3, <1>4, <1>5, <1>6, HolderKeeps
<1>8. QED
  BY <1>2, <1>7 DEF ListenInv, SinkListSound

(* One sink is called: it had to hear this very event next.                *)
LEMMA DeliverStreams ==
  ASSUME NEW t \in Threads, IInv, IInv', ListenInv, DeliverToSink(t)
  PROVE  Streams' /\ FrameTracesOnlyWhileRunning' /\ IsInjective(copy'[t])
<1> USE ControllerAssumption
<1> DEFINE s == Head(copy[t])
<1>0. pc[t] = "deliver" /\ pc[t] \in Critical /\ copy[t] # <<>>
  BY DEF DeliverToSink, Critical
<1>1. /\ UNCHANGED <<state, config, stateMutex, sinks, logger>>
      /\ UNCHANGED <<pc, request, before, signal>>
  BY DEF DeliverToSink, shared
<1>2. copy'[t] = Tail(copy[t]) /\ copy[t] \in Seq(Listed)
  BY DEF DeliverToSink, IInv, TypeOK, Listed
<1>3. /\ stateMutex = t /\ Truthful(t) /\ \A l \in Listeners : Heard(t, l)
      /\ logger /\ PastAttempt(t) => lastSeen[Logger].kind # "none"
      /\ \A l \in Listeners : Registered(l) \/ lastSeen[l].kind = "none"
  BY <1>0, HolderKnows
<1>4. /\ s \in Listed /\ Range(copy[t]) = {s} \cup Range(copy'[t])
      /\ s \notin Range(copy'[t]) /\ IsInjective(copy'[t])
  <2>1. IsInjective(copy[t])
    BY DEF ListenInv, CopiesOnce
  <2>2. QED
    BY <1>0, <1>2, <2>1, Elements, OnceAtTheEnds, HeadTailProperties
<1>5. s # Logger
  BY <1>4 DEF Listed
<1>6. lastSeen' = IF s \in Listeners /\ Registered(s) /\ signal[t].kind = "lifecycle"
                  THEN [lastSeen EXCEPT ![s] = signal[t]]
                  ELSE lastSeen
  BY DEF DeliverToSink, Receive
<1> HIDE DEF s
<1>7. /\ \A l \in Listeners \ {s} : lastSeen'[l] = lastSeen[l]
      /\ s \in Listeners => lastSeen'[s] = IF Registered(s) /\ signal[t].kind = "lifecycle"
                                           THEN signal[t] ELSE lastSeen[s]
  BY <1>6 DEF IInv, TypeOK
<1>8. Truthful(t)' /\ PastAttempt(t)' = PastAttempt(t) /\ Attempting(t)' = Attempting(t)
  BY <1>1, <1>3 DEF Truthful, PastAttempt, Attempting
<1>9. ASSUME NEW l \in Listeners
      PROVE  Heard(t, l)'
  <2>1. IF signal[t].kind = "lifecycle" /\ (Attempting(t) <=> Awaits(t, l))
        THEN Settled(l) ELSE Told(t, l)
    BY <1>0, <1>3 DEF Heard
  <2>2. SUFFICES IF signal[t].kind = "lifecycle" /\ (Attempting(t) <=> Awaits(t, l)')
                 THEN Settled(l)' ELSE Told(t, l)'
    BY <1>0, <1>1, <1>8 DEF Heard
  <2>3. CASE l # s
    <3>1. Settled(l)' = Settled(l) /\ Told(t, l)' = Told(t, l)
      BY <1>1, <1>7, <2>3 DEF Settled, Told
    <3>2. Awaits(t, l)' <=> Awaits(t, l)
      BY <1>4, <2>3 DEF Awaits
    <3>3. QED
      BY <2>1, <3>1, <3>2
  <2>4. CASE l = s
    <3>1. Awaits(t, l) /\ ~Awaits(t, l)'
      BY <1>4, <1>5, <2>4 DEF Awaits
    <3>2. CASE signal[t].kind # "lifecycle"
      <4>1. Told(t, l)' = Told(t, l)
        BY <1>1, <1>7, <2>4, <3>2 DEF Told
      <4>2. QED
        BY <2>1, <3>2, <4>1
    <3>3. CASE signal[t].kind = "lifecycle" /\ ~Registered(l)
      <4>1. lastSeen'[l] = lastSeen[l] /\ lastSeen[l].kind = "none"
        BY <1>3, <1>7, <2>4, <3>3
      <4>2. QED
        BY <4>1 DEF Settled, Told
    <3>4. CASE signal[t].kind = "lifecycle" /\ Registered(l)
      <4>1. lastSeen'[l] = signal[t]
        BY <1>7, <2>4, <3>4
      <4>2. /\ signal[t].op = request[t].op
            /\ signal[t].before = before[t] /\ signal[t].after = state
        BY <1>0, <1>3, <3>4 DEF Truthful
      <4>3. IF Attempting(t) THEN Told(t, l)' ELSE Settled(l)'
        BY <1>1, <3>4, <4>1, <4>2 DEF Attempting, Settled, Told
      <4>4. QED
        BY <3>1, <3>4, <4>3
    <3>5. QED
      BY <3>2, <3>3, <3>4
  <2>5. QED
    BY <2>3, <2>4
<1>10. \A l \in Listeners : Registered(l) \/ lastSeen'[l].kind = "none"
  BY <1>3, <1>7
<1>11. logger /\ PastAttempt(t) => lastSeen'[Logger].kind # "none"
  BY <1>3, <1>5, <1>7 DEF Listeners
<1>12. signal[t].kind = "frame" => /\ state = "Running" /\ config \in TracedConfigs
                                   /\ request[t].op = "tick" /\ ~request[t].negative
  BY <1>0 DEF ListenInv, FrameTracesOnlyWhileRunning
<1>13. Streams' /\ FrameTracesOnlyWhileRunning'
  BY <1>1, <1>3, <1>8, <1>9, <1>10, <1>11, <1>12, HolderKeeps
<1>14. QED
  BY <1>4, <1>13

(* The logger is called after the sinks, then the operation goes on.       *)
LEMMA EndEventStreams ==
  ASSUME NEW t \in Threads, IInv, IInv', ListenInv, EndEvent(t)
  PROVE  Streams' /\ FrameTracesOnlyWhileRunning'
<1> USE ControllerAssumption
<1>0. /\ pc[t] = "deliver" /\ pc[t] \in Critical /\ copy[t] = <<>>
      /\ signal[t].kind = "lifecycle"
  BY DEF EndEvent, Critical
<1>1. /\ UNCHANGED <<state, config, stateMutex, sinks, logger>>
      /\ UNCHANGED <<request, before, signal, copy>>
  BY DEF EndEvent, shared, locals
<1>2. pc'[t] = IF Attempting(t) THEN "decide" ELSE "unlock"
  BY <1>0 DEF EndEvent, Goto, IInv, TypeOK, Attempting
<1>3. /\ stateMutex = t /\ Truthful(t) /\ \A l \in Listeners : Heard(t, l)
      /\ \A l \in Listeners : Registered(l) \/ lastSeen[l].kind = "none"
  BY <1>0, HolderKnows
<1>4. \A l \in Listeners : Awaits(t, l) <=> l = Logger
  BY <1>0 DEF Awaits, Range
<1>5. lastSeen' = IF Logger \in Listeners /\ Registered(Logger) /\ signal[t].kind = "lifecycle"
                  THEN [lastSeen EXCEPT ![Logger] = signal[t]]
                  ELSE lastSeen
  BY DEF EndEvent, Receive
<1>6. /\ \A l \in Listeners \ {Logger} : lastSeen'[l] = lastSeen[l]
      /\ lastSeen'[Logger] = IF Registered(Logger) THEN signal[t] ELSE lastSeen[Logger]
      /\ Logger \in Listeners
  BY <1>0, <1>5 DEF IInv, TypeOK, Listeners
<1>7. /\ signal[t].op = request[t].op
      /\ signal[t].before = before[t] /\ signal[t].after = state
  BY <1>0, <1>3 DEF Truthful
<1>8. ASSUME NEW l \in Listeners
      PROVE  IF Attempting(t) THEN Told(t, l)' ELSE Settled(l)'
  <2>1. IF Attempting(t) <=> Awaits(t, l) THEN Settled(l) ELSE Told(t, l)
    BY <1>0, <1>3 DEF Heard
  <2>2. CASE l # Logger
    <3>1. Settled(l)' = Settled(l) /\ Told(t, l)' = Told(t, l)
      BY <1>1, <1>6, <2>2 DEF Settled, Told
    <3>2. QED
      BY <1>4, <2>1, <2>2, <3>1
  <2>3. CASE l = Logger /\ ~Registered(Logger)
    <3>1. lastSeen'[l].kind = "none"
      BY <1>3, <1>6, <2>3
    <3>2. QED
      BY <3>1 DEF Settled, Told
  <2>4. CASE l = Logger /\ Registered(Logger)
    <3>1. lastSeen'[l] = signal[t]
      BY <1>6, <2>4
    <3>2. QED
      BY <1>0, <1>1, <1>7, <3>1 DEF Attempting, Settled, Told
  <2>5. QED
    BY <2>2, <2>3, <2>4
<1>9. \A l \in Listeners : Heard(t, l)'
  BY <1>2, <1>8 DEF Heard
<1>10. Truthful(t)'
  BY <1>2 DEF Truthful
<1>11. (logger /\ PastAttempt(t) => lastSeen[Logger].kind # "none")'
  BY <1>0, <1>1, <1>6 DEF Registered
<1>12. \A l \in Listeners : Registered(l) \/ lastSeen'[l].kind = "none"
  BY <1>3, <1>6
<1>13. pc'[t] \notin {"export", "deliver"}
  BY <1>2
<1>14. t # NoThread
  OBVIOUS
<1>15. QED
  BY <1>1, <1>3, <1>9, <1>10, <1>11, <1>12, <1>13, <1>14, HolderKeeps

(* A frame was traced: the success event of the tick follows.              *)
LEMMA EndFrameStreams ==
  ASSUME NEW t \in Threads, IInv, IInv', ListenInv, EndFrameTrace(t)
  PROVE  Streams' /\ FrameTracesOnlyWhileRunning'
<1> USE ControllerAssumption
<1>0. /\ pc[t] = "deliver" /\ pc[t] \in Critical /\ signal[t].kind = "frame"
  BY DEF EndFrameTrace, Critical
<1>1. /\ UNCHANGED <<state, config, stateMutex, sinks, logger, lastSeen>>
      /\ UNCHANGED <<request, before, copy>>
  BY DEF EndFrameTrace, shared, clients
<1>2. /\ pc'[t] = "export"
      /\ signal'[t] = LifecycleEvent("tick", "Success", before[t], state, "Ok")
  BY DEF EndFrameTrace, Goto, IInv, TypeOK
<1>3. /\ stateMutex = t /\ \A l \in Listeners : Heard(t, l)
      /\ logger /\ PastAttempt(t) => lastSeen[Logger].kind # "none"
      /\ \A l \in Listeners : Registered(l) \/ lastSeen[l].kind = "none"
  BY <1>0, HolderKnows
<1>4. request[t].op = "tick"
  BY <1>0 DEF ListenInv, FrameTracesOnlyWhileRunning
<1>5. Truthful(t)' /\ PastAttempt(t) /\ ~Attempting(t)'
  BY <1>0, <1>1, <1>2, <1>4 DEF Truthful, PastAttempt, Attempting, LifecycleEvent
<1>6. ASSUME NEW l \in Listeners
      PROVE  Heard(t, l)'
  <2>1. Told(t, l)
    BY <1>0, <1>3 DEF Heard
  <2>2. Told(t, l)'
    BY <1>1, <2>1 DEF Told
  <2>3. QED
    BY <1>2, <1>5, <2>2 DEF Heard
<1>7. signal'[t].kind # "frame"
  BY <1>2 DEF LifecycleEvent
<1>8. QED
  BY <1>1, <1>3, <1>5, <1>6, <1>7, HolderKeeps

(* A listener throws: every stream starts anew.                            *)
LEMMA ThrowStreams ==
  ASSUME NEW t \in Threads, IInv, IInv', ListenInv, ThrowFrom(t)
  PROVE  Streams' /\ FrameTracesOnlyWhileRunning' /\ IsInjective(copy'[t])
<1> USE ControllerAssumption
<1>1. Unwind(t)
  BY DEF ThrowFrom
<1>2. /\ stateMutex' = NoThread /\ UNCHANGED <<sinks, logger>> /\ pc'[t] = "return"
      /\ copy'[t] = <<>>
  BY <1>1 DEF Unwind, Goto, IInv, TypeOK
<1>3. \A l \in Listeners : lastSeen'[l].kind = "none"
  BY <1>1 DEF Unwind, Forget, NoSignal, FrameTrace
<1>4. \A l \in Listeners : Settled(l)'
  BY <1>3 DEF Settled
<1>5. Streams' /\ FrameTracesOnlyWhileRunning'
  BY <1>2, <1>3, <1>4, HolderKeeps
<1>6. QED
  BY <1>2, <1>5 DEF IsInjective

(* The mutex is released once every listener knows the outcome.            *)
LEMMA UnlockStreams ==
  ASSUME NEW t \in Threads, IInv, IInv', ListenInv, Unlock(t)
  PROVE  Streams' /\ FrameTracesOnlyWhileRunning'
<1> USE ControllerAssumption
<1>1. /\ pc[t] = "unlock" /\ pc[t] \in Critical /\ stateMutex' = NoThread
      /\ UNCHANGED <<state, sinks, logger, lastSeen>> /\ pc'[t] = "return"
  BY DEF Unlock, Goto, IInv, TypeOK, clients, Critical
<1>2. /\ \A l \in Listeners : Heard(t, l)
      /\ \A l \in Listeners : Registered(l) \/ lastSeen[l].kind = "none"
  BY <1>1, HolderKnows
<1>3. ASSUME NEW l \in Listeners
      PROVE  Settled(l)'
  <2>1. Settled(l)
    BY <1>1, <1>2 DEF Heard
  <2>2. QED
    BY <1>1, <2>1 DEF Settled
<1>4. QED
  BY <1>1, <1>2, <1>3, HolderKeeps

(* Between the attempt and the outcome nobody hears anything: the call     *)
(* goes on, or announces its outcome or the frame it traces.               *)
Announces(t) ==
  \/ pc'[t] \in {"store", "stop"}
  \/ /\ pc'[t] = "export"
     /\ \E phase \in {"Success", "Failure"}, code \in Codes :
          signal'[t] = LifecycleEvent(request[t].op, phase, before[t], state', code)
  \/ /\ pc'[t] = "export" /\ signal'[t] = FrameTrace
     /\ state' = "Running" /\ config' \in TracedConfigs
     /\ request[t].op = "tick" /\ ~request[t].negative

(* What it announces, it announces truthfully.                             *)
LEMMA DecisionStreams ==
  ASSUME NEW t \in Threads, IInv, IInv', ListenInv,
         pc[t] \in {"decide", "store", "stop"},
         UNCHANGED <<stateMutex, clients, request, before, copy>>,
         Announces(t)
  PROVE  Streams' /\ FrameTracesOnlyWhileRunning'
<1> USE ControllerAssumption
<1>0. pc[t] \in Critical
  BY DEF Critical
<1>1. UNCHANGED <<stateMutex, sinks, logger, lastSeen, request, before>>
  BY DEF clients
<1>2. /\ stateMutex = t /\ \A l \in Listeners : Heard(t, l)
      /\ logger /\ PastAttempt(t) => lastSeen[Logger].kind # "none"
      /\ \A l \in Listeners : Registered(l) \/ lastSeen[l].kind = "none"
  BY <1>0, HolderKnows
<1>3. PastAttempt(t)
  BY DEF PastAttempt
<1>4. \/ pc'[t] \in {"store", "stop"}
      \/ /\ pc'[t] = "export"
         /\ signal'[t].kind = "lifecycle" /\ signal'[t].phase # "Attempt"
         /\ signal'[t].op = request[t].op
         /\ signal'[t].before = before[t] /\ signal'[t].after = state'
      \/ /\ pc'[t] = "export" /\ signal'[t].kind = "frame"
         /\ state' = "Running" /\ config' \in TracedConfigs
         /\ request[t].op = "tick" /\ ~request[t].negative
  <2>1. ASSUME NEW phase \in {"Success", "Failure"}, NEW code \in Codes,
               signal'[t] = LifecycleEvent(request[t].op, phase, before[t], state', code)
        PROVE  /\ signal'[t].kind = "lifecycle" /\ signal'[t].phase # "Attempt"
               /\ signal'[t].op = request[t].op
               /\ signal'[t].before = before[t] /\ signal'[t].after = state'
    BY <2>1 DEF LifecycleEvent
  <2>2. FrameTrace.kind = "frame"
    BY DEF FrameTrace
  <2>3. QED
    BY <2>1, <2>2 DEF Announces
<1>5. /\ pc'[t] \in {"store", "stop"} \/ (pc'[t] = "export" /\ ~Attempting(t)')
      /\ Truthful(t)'
  BY <1>1, <1>4 DEF Truthful, Attempting
<1>6. ASSUME NEW l \in Listeners
      PROVE  Heard(t, l)'
  <2>1. Told(t, l)
    BY <1>2 DEF Heard
  <2>2. Told(t, l)'
    BY <1>1, <2>1 DEF Told
  <2>3. QED
    BY <1>5, <2>2 DEF Heard
<1>7. pc'[t] \in {"export", "deliver"} /\ signal'[t].kind = "frame" =>
        /\ state' = "Running" /\ config' \in TracedConfigs
        /\ request'[t].op = "tick" /\ ~request'[t].negative
  BY <1>1, <1>4
<1>8. t # NoThread
  OBVIOUS
<1>9. (logger /\ PastAttempt(t) => lastSeen[Logger].kind # "none")'
  BY <1>1, <1>2, <1>3
<1>10. QED
  BY <1>1, <1>2, <1>5, <1>6, <1>7, <1>8, <1>9, HolderKeeps

(* The decisions of the five mutators and the second halves of two of them *)
(* are of this kind.                                                       *)
LEMMA DecisionsAnnounce ==
  ASSUME NEW t \in Threads, IInv,
         \/ Initialize(t) \/ StoreConfig(t) \/ Tick(t) \/ Pause(t) \/ Resume(t)
         \/ Shutdown(t) \/ FinishStop(t)
  PROVE  /\ pc[t] \in {"decide", "store", "stop"}
         /\ UNCHANGED <<stateMutex, clients, request, before, copy>>
         /\ Announces(t)
<1>0. pc \in [Threads -> Locations] /\ signal \in [Threads -> Signals]
  BY DEF IInv, TypeOK
<1>1. ASSUME NEW op \in Mutators, NEW code \in Codes, request[t].op = op,
             Fail(t, op, code)
      PROVE  Announces(t)
  <2>1. /\ pc'[t] = "export" /\ state' = state
        /\ signal'[t] = LifecycleEvent(op, "Failure", before[t], state, code)
    BY <1>0, <1>1 DEF Fail, Goto
  <2>2. QED
    BY <1>1, <2>1 DEF Announces
<1>2. ASSUME NEW op \in Mutators, request[t].op = op, Succeed(t, op)
      PROVE  Announces(t)
  <2>1. /\ pc'[t] = "export"
        /\ signal'[t] = LifecycleEvent(op, "Success", before[t], state', "Ok")
    BY <1>0, <1>2 DEF Succeed, Goto
  <2>2. "Ok" \in Codes
    BY DEF Codes
  <2>3. QED
    BY <1>2, <2>1, <2>2 DEF Announces
<1>3. ASSUME Goto(t, "store") \/ Goto(t, "stop")
      PROVE  Announces(t)
  BY <1>0, <1>3 DEF Announces, Goto
<1>4. CASE Initialize(t)
  BY <1>1, <1>3, <1>4 DEF Initialize, Deciding, Mutators, Codes
<1>5. CASE StoreConfig(t)
  <2>1. request[t].op = "initialize" /\ Succeed(t, "initialize")
    BY <1>5 DEF StoreConfig, IInv, CallsKnown
  <2>2. QED
    BY <1>2, <1>5, <2>1 DEF StoreConfig, Mutators
<1>6. CASE Tick(t)
  <2>0. Deciding(t, "tick") /\ request[t].op = "tick"
    BY <1>6 DEF Tick, Deciding
  <2>1. CASE \/ Fail(t, "tick", "LifecycleTickInvalidState")
             \/ Fail(t, "tick", "LifecycleInvalidFrameContext")
    BY <1>1, <2>0, <2>1 DEF Mutators, Codes, Deciding
  <2>2. CASE Succeed(t, "tick")
    BY <1>2, <2>0, <2>2 DEF Mutators, Deciding
  <2>3. CASE /\ ~request[t].negative /\ state' = "Running" /\ UNCHANGED config
             /\ config \in TracedConfigs
             /\ signal' = [signal EXCEPT ![t] = FrameTrace]
             /\ Goto(t, "export")
    BY <1>0, <2>0, <2>3 DEF Announces, Goto, Deciding
  <2>4. QED
    BY <1>6, <2>1, <2>2, <2>3 DEF Tick
<1>7. CASE Pause(t)
  BY <1>1, <1>2, <1>7 DEF Pause, Deciding, Mutators, Codes
<1>8. CASE Resume(t)
  BY <1>1, <1>2, <1>8 DEF Resume, Deciding, Mutators, Codes
<1>9. CASE Shutdown(t)
  BY <1>1, <1>2, <1>3, <1>9 DEF Shutdown, Deciding, Mutators, Codes
<1>10. CASE FinishStop(t)
  <2>1. request[t].op = "shutdown" /\ Succeed(t, "shutdown")
    BY <1>10 DEF FinishStop, IInv, CallsKnown
  <2>2. QED
    BY <1>2, <1>10, <2>1 DEF FinishStop, Mutators
<1>11. QED
  BY <1>4, <1>5, <1>6, <1>7, <1>8, <1>9, <1>10

-----------------------------------------------------------------------------
(* The streams are sound before anybody listens ...                        *)
LEMMA ListenInit == Init => ListenInv
<1> SUFFICES ASSUME Init
             PROVE  ListenInv
  OBVIOUS
<1> USE ControllerAssumption
<1>1. SinkListSound
  BY DEF Init, SinkListSound, IsInjective, Range
<1>2. CopiesOnce
  BY DEF Init, CopiesOnce, IsInjective
<1>3. FrameTracesOnlyWhileRunning
  BY DEF Init, FrameTracesOnlyWhileRunning
<1>4. NoSignal.kind = "none"
  BY DEF NoSignal, FrameTrace
<1>5. \A l \in Listeners : lastSeen[l].kind = "none"
  BY <1>4 DEF Init
<1>6. stateMutex = NoThread
  BY DEF Init
<1>7. Streams
  BY <1>5, <1>6 DEF Streams, Settled
<1>8. QED
  BY <1>1, <1>2, <1>3, <1>7 DEF ListenInv

(* ... and every step keeps them so.                                       *)
LEMMA ListenStep == IInv /\ IInv' /\ ListenInv /\ [Next]_vars => ListenInv'
<1> SUFFICES ASSUME IInv, IInv', ListenInv, [Next]_vars
             PROVE  ListenInv'
  OBVIOUS
<1> USE ControllerAssumption
<1>0. TypeOK /\ SinkListSound /\ CopiesOnce /\ Streams /\ FrameTracesOnlyWhileRunning
  BY DEF IInv, ListenInv
<1>1. sinks' = sinks => SinkListSound'
  BY <1>0 DEF SinkListSound
<1>2. copy' = copy => CopiesOnce'
  BY <1>0 DEF CopiesOnce
<1>3. ASSUME NEW t \in Threads, IsInjective(copy'[t]),
             \A u \in Threads \ {t} : copy'[u] = copy[u]
      PROVE  CopiesOnce'
  BY <1>0, <1>3 DEF CopiesOnce
<1>4. CASE \/ \E s \in Sinks : AddSink(s) \/ RemoveSink(s)
           \/ ClearSinks
  <2>1. /\ UNCHANGED <<shared, pc, locals>> /\ logger' = logger
    BY <1>4 DEF AddSink, RemoveSink, ClearSinks
  <2>2. lastSeen'[Logger] = lastSeen[Logger]
    BY <1>4 DEF AddSink, RemoveSink, ClearSinks, Forget, Listeners
  <2>3. Streams' /\ FrameTracesOnlyWhileRunning'
    BY <1>0, <1>4, <2>1, <2>2, SinkListStays, BystanderKeeps DEF locals
  <2>4. SinkListSound'
    BY <1>0, <1>4, SinkListStays
  <2>5. QED
    BY <1>2, <2>1, <2>3, <2>4 DEF locals, ListenInv
<1>5. ASSUME NEW b \in BOOLEAN, SetLogger(b) \/ SetTracer(b)
      PROVE  ListenInv'
  <2>1. /\ UNCHANGED <<shared, pc, locals, sinks>> /\ stateMutex = NoThread
    BY <1>5 DEF SetLogger, SetTracer
  <2>2. NoSignal.kind = "none"
    BY DEF NoSignal, FrameTrace
  <2>3. \A l \in Listeners :
          \/ lastSeen'[l].kind = "none"
          \/ lastSeen'[l] = lastSeen[l] /\ (Registered(l) => Registered(l)')
    BY <1>5, <2>1, <2>2 DEF SetLogger, SetTracer, Forget, Registered
  <2>4. Streams' /\ FrameTracesOnlyWhileRunning'
    BY <1>0, <2>1, <2>3, BystanderKeeps DEF locals
  <2>5. QED
    BY <1>1, <1>2, <2>1, <2>4 DEF locals, ListenInv
<1>6. ASSUME NEW t \in Threads,
             \/ \E r \in Calls : Call(t, r)
             \/ ReadState(t) \/ ReferConfig(t) \/ DerefConfig(t) \/ Return(t)
      PROVE  ListenInv'
  <2>1. UNCHANGED <<shared, clients, before, signal, copy>> \/ Return(t)
    BY <1>6 DEF Call, ReadState, ReferConfig, DerefConfig, locals
  <2>2. UNCHANGED <<shared, clients, copy>>
    BY <2>1 DEF Return
  <2>3. pc[t] \notin Critical
    BY <1>6 DEF Call, ReadState, ReferConfig, DerefConfig, Return, Critical
  <2>4. stateMutex # t
    BY <2>3 DEF IInv, MutexHeldInMutators
  <2>5. \A u \in Threads \ {t} :
          /\ pc'[u] = pc[u] /\ request'[u] = request[u] /\ before'[u] = before[u]
          /\ signal'[u] = signal[u]
    BY <1>0, <1>6 DEF Call, ReadState, ReferConfig, DerefConfig, Return, Goto, locals, TypeOK
  <2>6. \A l \in Listeners : Registered(l) => Registered(l)'
    BY <2>2 DEF Registered, clients
  <2>7. Streams' /\ FrameTracesOnlyWhileRunning'
    BY <1>0, <2>2, <2>4, <2>5, <2>6, BystanderKeeps DEF clients
  <2>8. QED
    BY <1>1, <1>2, <2>2, <2>7 DEF clients, ListenInv
<1>7. ASSUME NEW t \in Threads, LockAndAttempt(t) \/ EndEvent(t) \/ EndFrameTrace(t) \/ Unlock(t)
      PROVE  ListenInv'
  <2>1. sinks' = sinks /\ copy' = copy
    BY <1>7 DEF LockAndAttempt, EndEvent, EndFrameTrace, Unlock, clients, locals
  <2>2. Streams' /\ FrameTracesOnlyWhileRunning'
    BY <1>7, LockStreams, EndEventStreams, EndFrameStreams, UnlockStreams
  <2>3. QED
    BY <1>1, <1>2, <2>1, <2>2 DEF ListenInv
<1>8. ASSUME NEW t \in Threads, CopySinks(t) \/ DeliverToSink(t) \/ ThrowFrom(t)
      PROVE  ListenInv'
  <2>1. sinks' = sinks /\ \A u \in Threads \ {t} : copy'[u] = copy[u]
    BY <1>0, <1>8 DEF CopySinks, DeliverToSink, ThrowFrom, Unwind, clients, TypeOK
  <2>2. Streams' /\ FrameTracesOnlyWhileRunning' /\ IsInjective(copy'[t])
    BY <1>8, CopyStreams, DeliverStreams, ThrowStreams
  <2>3. CopiesOnce'
    BY <1>3, <2>1, <2>2
  <2>4. QED
    BY <1>1, <2>1, <2>2, <2>3 DEF ListenInv
<1>9. ASSUME NEW t \in Threads,
             \/ Initialize(t) \/ StoreConfig(t) \/ Tick(t) \/ Pause(t) \/ Resume(t)
             \/ Shutdown(t) \/ FinishStop(t)
      PROVE  ListenInv'
  <2>1. /\ UNCHANGED <<stateMutex, clients, request, before, copy>>
        /\ pc[t] \in {"decide", "store", "stop"} /\ Announces(t)
    BY <1>9, DecisionsAnnounce
  <2>2. Streams' /\ FrameTracesOnlyWhileRunning'
    BY <2>1, DecisionStreams
  <2>3. QED
    BY <1>1, <1>2, <2>1, <2>2 DEF clients, ListenInv
<1>10. CASE UNCHANGED vars
  <2>1. UNCHANGED <<shared, clients, pc, locals>>
    BY <1>10 DEF vars
  <2>2. \A l \in Listeners : Registered(l) => Registered(l)'
    BY <2>1 DEF Registered, clients
  <2>3. Streams' /\ FrameTracesOnlyWhileRunning'
    BY <1>0, <2>1, <2>2, BystanderKeeps DEF clients, locals
  <2>4. QED
    BY <1>1, <1>2, <2>1, <2>3 DEF clients, locals, ListenInv
<1>11. QED
  BY <1>4, <1>5, <1>6, <1>7, <1>8, <1>9, <1>10 DEF Next, Environment, Step

(* What the listeners have heard always fits where the operations are.     *)
THEOREM Listening == Spec => []ListenInv
<1>1. IInv /\ IInv' /\ ListenInv /\ [Next]_vars => ListenInv'
  BY ListenStep
<1>2. QED
  BY ListenInit, <1>1, Invariance, PTL DEF Spec

(* However threads and sinks interleave add, remove and clear, the list is *)
(* never empty, holds no sink twice and the no-op sink only alone.         *)
THEOREM SinksStaySound == Spec => []SinkListSound
BY Listening, PTL DEF ListenInv

(* A frame reaches the sinks and the tracer only while the engine runs and *)
(* is configured for it, and never for a negative delta_time.              *)
THEOREM FramesTracedRunning == Spec => []FrameTracesOnlyWhileRunning
BY Listening, PTL DEF ListenInv

(* Every listener that stays registered receives attempt and outcome in    *)
(* turn, each attempt from the state the last outcome left, whatever the   *)
(* threads call and however the list changes in the middle of a delivery.  *)
THEOREM StreamsStayWellFormed == Spec => []StreamsWellFormed
<1>1. IInv /\ ListenInv => StreamsWellFormed
  <2> SUFFICES ASSUME IInv, ListenInv, NEW t \in Threads, NEW l \in Listeners,
                      AboutToCall(t, l), Registered(l)
               PROVE  /\ Continues(lastSeen[l], signal[t])
                      /\ l = Logger /\ lastSeen[l].kind = "none" => signal[t].phase = "Attempt"
    BY DEF StreamsWellFormed
  <2>1. pc[t] = "deliver" /\ pc[t] \in Critical /\ signal[t].kind = "lifecycle"
    BY DEF AboutToCall, Critical
  <2>2. /\ stateMutex = t /\ Truthful(t) /\ Heard(t, l)
        /\ logger /\ PastAttempt(t) => lastSeen[Logger].kind # "none"
    BY <2>1, HolderKnows
  <2>3. Awaits(t, l)
    <3>1. copy[t] # <<>> => Range(copy[t]) = {Head(copy[t])} \cup Range(Tail(copy[t]))
      BY Elements DEF IInv, TypeOK
    <3>2. QED
      BY <3>1 DEF AboutToCall, Awaits
  <2>4. IF Attempting(t) THEN Settled(l) ELSE Told(t, l)
    BY <2>1, <2>2, <2>3 DEF Heard
  <2>5. /\ signal[t].op = request[t].op /\ signal[t].before = before[t]
        /\ signal[t].phase = "Attempt" => before[t] = state
    BY <2>1, <2>2 DEF Truthful
  <2>6. Continues(lastSeen[l], signal[t])
    BY <2>1, <2>4, <2>5 DEF Continues, Attempting, Settled, Told
  <2>7. ASSUME l = Logger, lastSeen[l].kind = "none", signal[t].phase # "Attempt"
        PROVE  FALSE
    <3>1. Logger \notin Range(sinks)
      <4>1. sinks \in Seq(Listed) /\ Logger \notin Listed
        BY ControllerAssumption DEF IInv, TypeOK, Listed
      <4>2. QED
        BY <4>1, Elements
    <3>2. logger
      BY <2>7, <3>1 DEF Registered
    <3>3. PastAttempt(t)
      BY <2>1, <2>7 DEF PastAttempt, Attempting
    <3>4. QED
      BY <2>2, <2>7, <3>2, <3>3
  <2>8. QED
    BY <2>6, <2>7
<1>2. QED
  BY <1>1, Invariance, Listening, PTL
=============================================================================
