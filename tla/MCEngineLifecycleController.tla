--------------------- MODULE MCEngineLifecycleController ---------------------
(* Model checking of EngineLifecycleController on small instances; the     *)
(* constants are given in the MCController*.cfg files.                     *)
EXTENDS EngineLifecycleController

(* Nothing distinguishes two threads but their names; for safety only.     *)
Symmetry == Permutations(Threads) \cup Permutations(Sinks)

(* Hosts that register their listeners and keep them: the interleavings of *)
(* the calls themselves.                                                   *)
KeepListeners ==
  \/ \E t \in Threads, r \in Calls : Call(t, r)
  \/ \E s \in Sinks : AddSink(s)
  \/ \E t \in Threads : Step(t)

CallsSpec == Init /\ [][KeepListeners]_vars /\ Fairness
=============================================================================
