---------------------- MODULE LifecycleObserverAdapter ----------------------
(***************************************************************************)
(* engine/core: LifecycleObserverAdapter, the sink that hands lifecycle    *)
(* events on to observers it keeps by weak_ptr.                            *)
(*                                                                         *)
(* The list is read and written under observers_mutex_, one entry at a     *)
(* time; an observer lives as long as some shared_ptr to it does, and the  *)
(* application may drop its own at any moment, inside another thread's     *)
(* critical section too.  Observers are called with the mutex free, so     *)
(* what an observer does from its callback is what another thread may do.  *)
(* An envelope without a lifecycle event returns at once and has no        *)
(* action.                                                                 *)
(***************************************************************************)
EXTENDS Naturals, SequencesExt

CONSTANTS
  Observers,    \* the ILifecycleObserver objects
  Threads,      \* the threads that call the adapter
  Null,         \* a null shared_ptr or no thread
  MaxEntries    \* bound: no add_observer is called on a list of this length

ASSUME AdapterAssumption ==
  /\ Null \notin Observers \cup Threads
  /\ MaxEntries \in Nat

VARIABLES
  observers,    \* observers_: the weak_ptrs, Null for an empty one
  owner,        \* the thread that holds observers_mutex_
  owned,        \* observers the application holds a shared_ptr to
  at,           \* where each thread is
  observer,     \* the shared_ptr it passed
  entry,        \* the entry of the list it looks at
  temporary,    \* the shared_ptr that o.lock() returned to add_observer
  active,       \* active_observers of its export_signal
  notified,     \* how many of them it has called
  registered,   \* history: what add_observer put in and nothing took out
  sometime,     \* history: registered at some moment of the thread's export
  always        \* history: registered and owned at all of them

adapter == <<observers, owner>>
calls == <<at, observer, entry, temporary, active, notified>>
history == <<registered, sometime, always>>
vars == <<adapter, owned, calls, history>>

Operations == {"add", "remove", "clear", "export"}

Locations ==
  {"idle", "locked", "compare", "done", "notify"} \cup Operations

-----------------------------------------------------------------------------
(* The last shared_ptr to an observer is its life.                         *)
Alive(o) ==
  \/ o \in owned
  \/ \E t \in Threads : o \in {observer[t], temporary[t]} \cup ToSet(active[t])

(* A variant of Expired that takes an empty weak_ptr for a living one.     *)
ExpiredUnlessEmpty(pointer) == pointer # Null /\ ~Alive(pointer)

Expired(pointer) == pointer = Null \/ ~Alive(pointer)

Init ==
  /\ observers = <<>>
  /\ owner = Null
  /\ owned = Observers
  /\ at = [t \in Threads |-> "idle"]
  /\ observer = [t \in Threads |-> Null]
  /\ entry = [t \in Threads |-> 1]
  /\ temporary = [t \in Threads |-> Null]
  /\ active = [t \in Threads |-> <<>>]
  /\ notified = [t \in Threads |-> 0]
  /\ registered = {}
  /\ sometime = [t \in Threads |-> {}]
  /\ always = [t \in Threads |-> {}]

(* What the exports that did not read the list yet have to know when the   *)
(* registry changes.                                                       *)
Register(now) ==
  /\ registered' = now
  /\ sometime' = [t \in Threads |->
                     IF at[t] = "export" THEN sometime[t] \cup now ELSE sometime[t]]
  /\ always' = [t \in Threads |->
                   IF at[t] = "export" THEN always[t] \cap now ELSE always[t]]

-----------------------------------------------------------------------------
(* CALLS.  The argument of a call is alive while the call lasts.           *)
Call(t, operation, argument) ==
  /\ at[t] = "idle"
  /\ operation = "add" => Len(observers) < MaxEntries
  /\ at' = [at EXCEPT ![t] = operation]
  /\ observer' = [observer EXCEPT ![t] = argument]
  /\ IF operation = "export"
     THEN /\ sometime' = [sometime EXCEPT ![t] = registered]
          /\ always' = [always EXCEPT ![t] = registered \cap owned]
     ELSE UNCHANGED <<sometime, always>>
  /\ UNCHANGED <<adapter, owned, entry, temporary, active, notified, registered>>

Lock(t) ==
  /\ at[t] \in Operations
  /\ owner = Null
  /\ owner' = t
  /\ UNCHANGED <<observers, owned, calls, history>>

Holding(t, operation) == at[t] = operation /\ owner = t
More(t) == entry[t] <= Len(observers)
Entry(t) == observers[entry[t]]

(* A variant of AddLooks that does not advance past an expired entry.      *)
AddLooksForever(t) ==
  /\ Holding(t, "add")
  /\ More(t)
  /\ ~Expired(Entry(t))
  /\ at' = [at EXCEPT ![t] = "locked"]
  /\ UNCHANGED <<adapter, owned, observer, entry, temporary, active, notified, history>>

(* add_observer: find_if asks expired() and then lock(), and the last      *)
(* shared_ptr may go in between.                                           *)
AddLooks(t) ==
  /\ Holding(t, "add")
  /\ More(t)
  /\ IF Expired(Entry(t))
     THEN /\ entry' = [entry EXCEPT ![t] = @ + 1]
          /\ UNCHANGED at
     ELSE /\ at' = [at EXCEPT ![t] = "locked"]
          /\ UNCHANGED entry
  /\ UNCHANGED <<adapter, owned, observer, temporary, active, notified, history>>

AddLocksEntry(t) ==
  /\ at[t] = "locked"
  /\ temporary' = [temporary EXCEPT ![t] = IF Expired(Entry(t)) THEN Null ELSE Entry(t)]
  /\ at' = [at EXCEPT ![t] = "compare"]
  /\ UNCHANGED <<adapter, owned, observer, entry, active, notified, history>>

(* A variant of AddCompares that finds no entry equal.                     *)
AddComparesNever(t) ==
  /\ at[t] = "compare"
  /\ temporary' = [temporary EXCEPT ![t] = Null]
  /\ at' = [at EXCEPT ![t] = "add"]
  /\ entry' = [entry EXCEPT ![t] = @ + 1]
  /\ UNCHANGED <<adapter, owned, observer, active, notified, history>>

AddCompares(t) ==
  /\ at[t] = "compare"
  /\ temporary' = [temporary EXCEPT ![t] = Null]
  /\ IF temporary[t] = observer[t]
     THEN /\ at' = [at EXCEPT ![t] = "done"]
          /\ UNCHANGED entry
     ELSE /\ at' = [at EXCEPT ![t] = "add"]
          /\ entry' = [entry EXCEPT ![t] = @ + 1]
  /\ UNCHANGED <<adapter, owned, observer, active, notified, history>>

AddAppends(t) ==
  /\ Holding(t, "add")
  /\ ~More(t)
  /\ observers' = Append(observers, observer[t])
  /\ Register(registered \cup ({observer[t]} \ {Null}))
  /\ at' = [at EXCEPT ![t] = "done"]
  /\ UNCHANGED <<owner, owned, observer, entry, temporary, active, notified>>

(* remove_observer: remove_if drops what expired and what was passed.      *)
RemoveLooks(t) ==
  /\ Holding(t, "remove")
  /\ More(t)
  /\ IF Expired(Entry(t)) \/ Entry(t) = observer[t]
     THEN /\ observers' = RemoveAt(observers, entry[t])
          /\ UNCHANGED entry
     ELSE /\ entry' = [entry EXCEPT ![t] = @ + 1]
          /\ UNCHANGED observers
  /\ UNCHANGED <<owner, owned, at, observer, temporary, active, notified, history>>

RemoveEnds(t) ==
  /\ Holding(t, "remove")
  /\ ~More(t)
  /\ Register(registered \ {observer[t]})
  /\ at' = [at EXCEPT ![t] = "done"]
  /\ UNCHANGED <<adapter, owned, observer, entry, temporary, active, notified>>

Clear(t) ==
  /\ Holding(t, "clear")
  /\ observers' = <<>>
  /\ Register({})
  /\ at' = [at EXCEPT ![t] = "done"]
  /\ UNCHANGED <<owner, owned, observer, entry, temporary, active, notified>>

(* The end of the scope of the lock and of the call.                       *)
Return(t) ==
  /\ at[t] = "done"
  /\ owner' = Null
  /\ at' = [at EXCEPT ![t] = "idle"]
  /\ observer' = [observer EXCEPT ![t] = Null]
  /\ entry' = [entry EXCEPT ![t] = 1]
  /\ UNCHANGED <<observers, owned, temporary, active, notified, history>>

(* A variant of ExportLooks that steps over the entry after an erased one. *)
ExportSkips(t) ==
  /\ Holding(t, "export")
  /\ More(t)
  /\ entry' = [entry EXCEPT ![t] = @ + 1]
  /\ IF Expired(Entry(t))
     THEN /\ observers' = RemoveAt(observers, entry[t])
          /\ UNCHANGED active
     ELSE /\ active' = [active EXCEPT ![t] = Append(@, Entry(t))]
          /\ UNCHANGED observers
  /\ UNCHANGED <<owner, owned, at, observer, temporary, notified, history>>

(* export_signal: one wp.lock() per entry, the expired ones are erased.    *)
ExportLooks(t) ==
  /\ Holding(t, "export")
  /\ More(t)
  /\ IF Expired(Entry(t))
     THEN /\ observers' = RemoveAt(observers, entry[t])
          /\ UNCHANGED <<entry, active>>
     ELSE /\ active' = [active EXCEPT ![t] = Append(@, Entry(t))]
          /\ entry' = [entry EXCEPT ![t] = @ + 1]
          /\ UNCHANGED observers
  /\ UNCHANGED <<owner, owned, at, observer, temporary, notified, history>>

ExportUnlocks(t) ==
  /\ Holding(t, "export")
  /\ ~More(t)
  /\ owner' = Null
  /\ at' = [at EXCEPT ![t] = "notify"]
  /\ entry' = [entry EXCEPT ![t] = 1]
  /\ UNCHANGED <<observers, owned, observer, temporary, active, notified, history>>

Notify(t) ==
  /\ at[t] = "notify"
  /\ notified[t] < Len(active[t])
  /\ notified' = [notified EXCEPT ![t] = @ + 1]
  /\ UNCHANGED <<adapter, owned, at, observer, entry, temporary, active, history>>

(* All are called, or the last one called threw: on_lifecycle_event is not *)
(* noexcept.                                                               *)
ExportReturns(t) ==
  /\ at[t] = "notify"
  /\ notified[t] = Len(active[t]) \/ notified[t] > 0
  /\ active' = [active EXCEPT ![t] = <<>>]
  /\ notified' = [notified EXCEPT ![t] = 0]
  /\ at' = [at EXCEPT ![t] = "idle"]
  /\ sometime' = [sometime EXCEPT ![t] = {}]
  /\ always' = [always EXCEPT ![t] = {}]
  /\ UNCHANGED <<adapter, owned, observer, entry, temporary, registered>>

-----------------------------------------------------------------------------
(* The application drops its shared_ptr; whoever else holds one keeps the  *)
(* observer alive.                                                         *)
Release(o) ==
  /\ o \in owned
  /\ owned' = owned \ {o}
  /\ always' = [t \in Threads |->
                   IF at[t] = "export" THEN always[t] \ {o} ELSE always[t]]
  /\ UNCHANGED <<adapter, calls, registered, sometime>>

Step(t) ==
  \/ Lock(t) \/ Return(t)
  \/ AddLooks(t) \/ AddLocksEntry(t) \/ AddCompares(t) \/ AddAppends(t)
  \/ RemoveLooks(t) \/ RemoveEnds(t) \/ Clear(t)
  \/ ExportLooks(t) \/ ExportUnlocks(t) \/ Notify(t) \/ ExportReturns(t)

Calls(t) ==
  \/ \E o \in owned \cup {Null}, operation \in {"add", "remove"} : Call(t, operation, o)
  \/ \E operation \in {"clear", "export"} : Call(t, operation, Null)

Next ==
  \/ \E t \in Threads : Step(t) \/ Calls(t)
  \/ \E o \in Observers : Release(o)

Spec == Init /\ [][Next]_vars

(* A thread inside a call runs on; nothing forces a call or a release.     *)
FairSpec == Spec /\ \A t \in Threads : WF_vars(Step(t))

-----------------------------------------------------------------------------
(* PROPERTIES                                                              *)

(* Every variable stays in its domain.                                     *)
TypeOK ==
  /\ observers \in Seq(Observers \cup {Null})
  /\ owner \in Threads \cup {Null}
  /\ owned \subseteq Observers
  /\ at \in [Threads -> Locations]
  /\ observer \in [Threads -> Observers \cup {Null}]
  /\ entry \in [Threads -> Nat \ {0}]
  /\ temporary \in [Threads -> Observers \cup {Null}]
  /\ active \in [Threads -> Seq(Observers)]
  /\ notified \in [Threads -> Nat]
  /\ registered \subseteq Observers
  /\ sometime \in [Threads -> SUBSET Observers]
  /\ always \in [Threads -> SUBSET Observers]

(* With the mutex free, the list holds exactly the living observers that   *)
(* were added and not removed, once each, whatever expired while the       *)
(* earlier calls were looking at it.                                       *)
Occurrences(o) == {i \in DOMAIN observers : observers[i] = o}

RegistryExact ==
  owner = Null =>
    \A o \in Observers : Alive(o) =>
      IF o \in registered THEN \E i \in DOMAIN observers : Occurrences(o) = {i}
      ELSE Occurrences(o) = {}

(* An export calls every observer that stayed registered and owned while   *)
(* the call lasted, none that was not registered at any moment of it, and  *)
(* none twice: an observer removed before an event does not get it.        *)
ExportLinearizable ==
  \A t \in Threads : at[t] = "notify" =>
    /\ always[t] \subseteq ToSet(active[t])
    /\ ToSet(active[t]) \subseteq sometime[t]
    /\ IsInjective(active[t])

(* The mutex is always released: no call under it waits for another one.   *)
MutexReleased == \A t \in Threads : owner = t ~> owner # t
=============================================================================
