------------------- MODULE LifecycleObserverAdapter_proofs -------------------
(***************************************************************************)
(* Theorems about LifecycleObserverAdapter for any observers and threads,  *)
(* and their proofs.                                                       *)
(***************************************************************************)
EXTENDS LifecycleObserverAdapter, PositionFacts, TLAPS

(* A thread with the mutex is inside a call; what a call has left behind   *)
(* is gone when it is over.                                                *)
Inside == Operations \cup {"locked", "compare", "done"}

Placed(t) ==
  /\ owner = t => at[t] \in Inside
  /\ at[t] \in {"locked", "compare", "done"} => owner = t
  /\ owner # t => entry[t] = 1
  /\ temporary[t] # Null => at[t] = "compare"
  /\ observer[t] # Null => at[t] \in {"add", "remove", "locked", "compare", "done"}
  /\ active[t] # <<>> => at[t] = "notify" \/ (at[t] = "export" /\ owner = t)

(* What the thread with the mutex has seen of the list: no entry behind    *)
(* the one it looks at is the observer to add or to remove; an export has  *)
(* kept every entry behind it.                                             *)
Seen(t) ==
  /\ at[t] # "done" => entry[t] <= Len(observers) + 1
  /\ at[t] \in {"locked", "compare"} => entry[t] <= Len(observers)
  /\ at[t] \in {"add", "locked", "compare", "remove"} /\ observer[t] # Null =>
       \A i \in 1 .. entry[t] - 1 : observers[i] # observer[t]
  /\ at[t] = "compare" =>
       \/ temporary[t] = observers[entry[t]]
       \/ temporary[t] = Null /\ (observer[t] # Null => observers[entry[t]] # observer[t])
  /\ at[t] = "export" =>
       /\ Len(active[t]) = entry[t] - 1
       /\ \A i \in 1 .. entry[t] - 1 : active[t][i] = observers[i]

(* The living observers of the list are there once and registered; the     *)
(* registered ones are there, but for the one that is being removed.       *)
Removing(o) == \E t \in Threads : owner = t /\ at[t] = "remove" /\ observer[t] = o

InList(o) == \E i \in 1 .. Len(observers) : observers[i] = o

Recorded(o) ==
  Alive(o) =>
    /\ \A i, j \in 1 .. Len(observers) : observers[i] = o /\ observers[j] = o => i = j
    /\ InList(o) => o \in registered
    /\ o \in registered => InList(o) \/ Removing(o)

(* What an export has to know is known until it has read the list.         *)
Remembered(t) ==
  at[t] = "export" => always[t] \subseteq registered \cap owned /\ registered \subseteq sometime[t]

(* ExportLinearizable, of one thread.                                      *)
Exported(t) ==
  at[t] = "notify" =>
    /\ always[t] \subseteq ToSet(active[t])
    /\ ToSet(active[t]) \subseteq sometime[t]
    /\ IsInjective(active[t])

Placements == \A t \in Threads : Placed(t)
Scans == \A t \in Threads : owner = t => Seen(t)
Registry == \A o \in Observers : Recorded(o)
Memories == \A t \in Threads : Remembered(t)
Exports == \A t \in Threads : Exported(t)

AdapterInv == TypeOK /\ Placements /\ Scans /\ Registry /\ Memories /\ Exports

(* Nobody comes back to life.                                              *)
Falls == \A o \in Observers : Alive(o)' => Alive(o)

(* What a step of thread t leaves to the other threads.                    *)
Only(t) ==
  \A u \in Threads \ {t} :
    /\ at'[u] = at[u] /\ observer'[u] = observer[u] /\ entry'[u] = entry[u]
    /\ temporary'[u] = temporary[u] /\ active'[u] = active[u]

(* The mutex stays where it is, or goes to t or from it.                   *)
OwnerStep(t) ==
  owner' = owner \/ (owner = Null /\ owner' = t) \/ (owner = t /\ owner' = Null)

-----------------------------------------------------------------------------
(* A step that hands out only observers that are alive revives none.       *)
LEMMA Mortal ==
  ASSUME owned' \subseteq owned,
         \A u \in Threads :
           /\ observer'[u] \in {Null, observer[u]} \/ Alive(observer'[u])
           /\ temporary'[u] \in {Null, temporary[u]} \/ Alive(temporary'[u])
           /\ \A o \in ToSet(active'[u]) : o \in ToSet(active[u]) \/ Alive(o)
  PROVE  Falls
<1> SUFFICES ASSUME NEW o \in Observers, Alive(o)'
             PROVE  Alive(o)
  BY DEF Falls
<1>1. o # Null
  BY AdapterAssumption
<1>2. CASE o \in owned'
  BY <1>2 DEF Alive
<1>3. CASE \E u \in Threads : o \in {observer'[u], temporary'[u]} \cup ToSet(active'[u])
  <2>1. PICK u \in Threads : o \in {observer'[u], temporary'[u]} \cup ToSet(active'[u])
    BY <1>3
  <2>2. CASE o = observer'[u]
    BY <1>1, <2>2 DEF Alive
  <2>3. CASE o = temporary'[u]
    BY <1>1, <2>3 DEF Alive
  <2>4. CASE o \in ToSet(active'[u])
    <3>1. o \in ToSet(active[u]) \/ Alive(o)
      BY <2>4
    <3>2. QED
      BY <3>1 DEF Alive
  <2>5. QED
    BY <2>1, <2>2, <2>3, <2>4
<1>4. o \in owned' \/ \E u \in Threads : o \in {observer'[u], temporary'[u]} \cup ToSet(active'[u])
  BY DEF Alive, ToSet
<1>5. QED
  BY <1>2, <1>3, <1>4

(* What a step of t has to show of t alone.                                *)
LEMMA PlacedStep ==
  ASSUME NEW t \in Threads, Placements, Only(t), OwnerStep(t), Placed(t)'
  PROVE  Placements'
<1> SUFFICES ASSUME NEW u \in Threads, u # t
             PROVE  Placed(u)'
  BY DEF Placements
<1>1. owner' = u <=> owner = u
  BY AdapterAssumption DEF OwnerStep
<1>2. QED
  BY <1>1 DEF Placements, Only, Placed

(* What t has seen; nobody else's view changes while t has the mutex.      *)
LEMMA SeenStep ==
  ASSUME NEW t \in Threads, Scans, Only(t), OwnerStep(t),
         owner = t \/ UNCHANGED observers,
         owner' = t => Seen(t)'
  PROVE  Scans'
<1> SUFFICES ASSUME NEW u \in Threads, u # t, owner' = u
             PROVE  Seen(u)'
  BY DEF Scans
<1>1. owner = u
  BY AdapterAssumption DEF OwnerStep
<1>2. Seen(u) /\ UNCHANGED observers
  BY <1>1 DEF Scans
<1>3. QED
  BY <1>2 DEF Only, Seen

(* A step that changes neither list nor registry.                          *)
LEMMA RegistryStays ==
  ASSUME Registry, Falls, UNCHANGED <<observers, registered>>,
         \A u \in Threads : owner = u /\ at[u] = "remove" =>
           owner' = u /\ at'[u] = "remove" /\ observer'[u] = observer[u]
  PROVE  Registry'
<1> SUFFICES ASSUME NEW o \in Observers, Alive(o)'
             PROVE  /\ \A i, j \in 1 .. Len(observers') :
                         observers'[i] = o /\ observers'[j] = o => i = j
                    /\ InList(o)' => o \in registered'
                    /\ o \in registered' => InList(o)' \/ Removing(o)'
  BY DEF Registry, Recorded
<1>1. Alive(o)
  BY DEF Falls
<1>2. Recorded(o) /\ (InList(o)' <=> InList(o))
  BY DEF Registry, InList
<1>3. Removing(o) => Removing(o)'
  BY DEF Removing
<1>4. QED
  BY <1>1, <1>2, <1>3 DEF Recorded

(* A step that changes neither the registry nor what is remembered of it.  *)
LEMMA MemoriesStay ==
  ASSUME Memories, UNCHANGED <<registered, sometime, always, owned>>,
         \A u \in Threads : at'[u] = "export" => at[u] = "export"
  PROVE  Memories'
BY DEF Memories, Remembered

(* What a change of the registry means for the exports.                    *)
LEMMA MemoriesFollow ==
  ASSUME TypeOK, Memories, NEW now, Register(now), UNCHANGED owned,
         \A u \in Threads : at'[u] = "export" => at[u] = "export"
  PROVE  /\ Memories'
         /\ \A u \in Threads : at[u] # "export" =>
              sometime'[u] = sometime[u] /\ always'[u] = always[u]
BY DEF Memories, Remembered, Register, TypeOK

(* The exports that have read the list stay as they are.                   *)
LEMMA ExportsStay ==
  ASSUME Exports,
         \A u \in Threads : at'[u] = "notify" =>
           /\ at[u] = "notify" /\ active'[u] = active[u]
           /\ sometime'[u] = sometime[u] /\ always'[u] = always[u]
  PROVE  Exports'
BY DEF Exports, Exported

-----------------------------------------------------------------------------
(* A call begins.  What an export has to know is noted.                    *)
LEMMA CallKeeps ==
  ASSUME AdapterInv, NEW t \in Threads, Calls(t)
  PROVE  AdapterInv'
<1> USE AdapterAssumption
<1>0. PICK operation \in Operations, argument \in owned \cup {Null} :
        /\ Call(t, operation, argument)
        /\ argument # Null => operation \in {"add", "remove"}
  BY DEF Calls, Operations
<1>1. /\ at[t] = "idle" /\ at' = [at EXCEPT ![t] = operation]
      /\ observer' = [observer EXCEPT ![t] = argument]
      /\ UNCHANGED <<observers, owner, owned, entry, temporary, active, notified, registered>>
  BY <1>0 DEF Call, adapter
<1>2. /\ operation = "export" =>
           /\ sometime' = [sometime EXCEPT ![t] = registered]
           /\ always' = [always EXCEPT ![t] = registered \cap owned]
      /\ operation # "export" => UNCHANGED <<sometime, always>>
  BY <1>0 DEF Call
<1>3. TypeOK /\ Placed(t) /\ owner # t
  BY <1>1 DEF AdapterInv, Placements, Placed, Inside, Operations
<1>4. TypeOK'
  <2>1. argument \in Observers \cup {Null} /\ operation \in Locations
    BY <1>0, <1>3 DEF TypeOK, Locations
  <2>2. sometime' \in [Threads -> SUBSET Observers] /\ always' \in [Threads -> SUBSET Observers]
    <3>1. /\ registered \subseteq Observers
          /\ sometime \in [Threads -> SUBSET Observers] /\ always \in [Threads -> SUBSET Observers]
      BY <1>3 DEF TypeOK
    <3>2. CASE operation = "export"
      BY <1>2, <3>1, <3>2
    <3>3. CASE operation # "export"
      BY <1>2, <3>1, <3>3
    <3>4. QED
      BY <3>2, <3>3
  <2>3. QED
    BY <1>1, <1>3, <2>1, <2>2 DEF TypeOK
<1>5. /\ Only(t) /\ OwnerStep(t) /\ at'[t] = operation /\ observer'[t] = argument
      /\ \A u \in Threads \ {t} : observer'[u] = observer[u]
  BY <1>1, <1>3 DEF TypeOK, Only, OwnerStep
<1>6. Placements'
  <2>1. Placed(t)'
    BY <1>0, <1>1, <1>3, <1>5 DEF Placed, Inside, Operations
  <2>2. QED
    BY <1>5, <2>1, PlacedStep DEF AdapterInv
<1>7. Scans'
  BY <1>1, <1>3, <1>5, SeenStep DEF AdapterInv
<1>8. Registry'
  <2>1. Falls
    BY <1>0, <1>1, <1>5, Mortal DEF Alive
  <2>2. \A u \in Threads : owner = u /\ at[u] = "remove" =>
          owner' = u /\ at'[u] = "remove" /\ observer'[u] = observer[u]
    BY <1>1, <1>5 DEF Only
  <2>3. QED
    BY <1>1, <2>1, <2>2, RegistryStays DEF AdapterInv
<1>9. Memories' /\ Exports'
  <2>1. \A u \in Threads \ {t} :
          at'[u] = at[u] /\ sometime'[u] = sometime[u] /\ always'[u] = always[u]
    BY <1>2, <1>3, <1>5 DEF TypeOK, Only
  <2>2. UNCHANGED <<registered, owned, active>>
    BY <1>1
  <2>3. at'[t] = "export" => sometime'[t] = registered /\ always'[t] = registered \cap owned
    BY <1>2, <1>3, <1>5 DEF TypeOK
  <2>4. Memories'
    BY <2>1, <2>2, <2>3 DEF AdapterInv, Memories, Remembered
  <2>5. at'[t] # "notify"
    BY <1>5 DEF Operations
  <2>6. Exports'
    BY <2>1, <2>2, <2>5, ExportsStay DEF AdapterInv
  <2>7. QED
    BY <2>4, <2>6
<1>10. QED
  BY <1>4, <1>6, <1>7, <1>8, <1>9 DEF AdapterInv

(* The mutex is taken.                                                     *)
LEMMA LockKeeps ==
  ASSUME AdapterInv, NEW t \in Threads, Lock(t)
  PROVE  AdapterInv'
<1> USE AdapterAssumption
<1>1. /\ at[t] \in Operations /\ owner = Null /\ owner' = t
      /\ UNCHANGED <<observers, owned, at, observer, entry, temporary, active, notified,
                     registered, sometime, always>>
  BY DEF Lock, calls, history
<1>2. TypeOK /\ Placed(t) /\ owner # t
  BY <1>1 DEF AdapterInv, Placements
<1>3. Only(t) /\ OwnerStep(t)
  BY <1>1 DEF Only, OwnerStep
<1>4. TypeOK'
  BY <1>1, <1>2 DEF TypeOK
<1>5. Placements'
  <2>1. Placed(t)'
    BY <1>1, <1>2 DEF Placed, Inside
  <2>2. QED
    BY <1>3, <2>1, PlacedStep DEF AdapterInv
<1>6. Scans'
  <2>1. entry[t] = 1 /\ active[t] = <<>> /\ at[t] \notin {"locked", "compare"}
    BY <1>1, <1>2 DEF Placed, Operations
  <2>2. Len(observers) \in Nat /\ Len(<<>>) = 0
    BY <1>2, LenProperties, EmptySeq DEF TypeOK
  <2>3. UNCHANGED <<observers, at, observer, entry, temporary, active>>
    BY <1>1
  <2>4. Seen(t)'
    BY <2>1, <2>2, <2>3 DEF Seen
  <2>5. QED
    BY <1>1, <1>3, <2>4, SeenStep DEF AdapterInv
<1>7. Registry'
  <2>1. Falls
    BY <1>1, Mortal
  <2>2. QED
    BY <1>1, <2>1, RegistryStays DEF AdapterInv
<1>8. Memories' /\ Exports'
  BY <1>1, MemoriesStay, ExportsStay DEF AdapterInv
<1>9. QED
  BY <1>4, <1>5, <1>6, <1>7, <1>8 DEF AdapterInv

(* A step inside a call that leaves the mutex, the list and the registry.  *)
LEMMA InnerKeeps ==
  ASSUME AdapterInv, NEW t \in Threads, owner = t, Only(t),
         UNCHANGED <<observers, owner, owned, registered, sometime, always>>,
         TypeOK', Falls, Placed(t)', Seen(t)',
         at'[t] # "notify", at'[t] = "export" => at[t] = "export",
         at[t] = "remove" => at'[t] = "remove" /\ observer'[t] = observer[t]
  PROVE  AdapterInv'
<1>1. OwnerStep(t)
  BY DEF OwnerStep
<1>2. Placements' /\ Scans'
  BY <1>1, PlacedStep, SeenStep DEF AdapterInv
<1>3. Registry'
  BY RegistryStays DEF AdapterInv
<1>4. Memories'
  <2>1. \A u \in Threads : at'[u] = "export" => at[u] = "export"
    BY DEF Only
  <2>2. QED
    BY <2>1, MemoriesStay DEF AdapterInv
<1>5. Exports'
  <2>1. \A u \in Threads : at'[u] = "notify" => at[u] = "notify" /\ active'[u] = active[u]
    BY DEF Only
  <2>2. QED
    BY <2>1, ExportsStay DEF AdapterInv
<1>6. QED
  BY <1>2, <1>3, <1>4, <1>5 DEF AdapterInv

(* add_observer looks at an entry: an expired one is not the observer,     *)
(* which is alive.                                                         *)
LEMMA AddLooksKeeps ==
  ASSUME AdapterInv, NEW t \in Threads, AddLooks(t)
  PROVE  AdapterInv'
<1> USE AdapterAssumption
<1>1. /\ at[t] = "add" /\ owner = t /\ entry[t] <= Len(observers)
      /\ UNCHANGED <<observers, owner, owned, observer, temporary, active, notified,
                     registered, sometime, always>>
      /\ \/ /\ Expired(observers[entry[t]])
            /\ entry' = [entry EXCEPT ![t] = @ + 1] /\ UNCHANGED at
         \/ /\ at' = [at EXCEPT ![t] = "locked"] /\ UNCHANGED entry
  BY DEF AddLooks, Holding, More, Entry, adapter, history
<1>2. TypeOK /\ Placed(t) /\ Seen(t)
  BY <1>1 DEF AdapterInv, Placements, Scans
<1>3. TypeOK' /\ Only(t)
  <2>1. /\ at \in [Threads -> Locations] /\ entry \in [Threads -> Nat \ {0}]
        /\ temporary \in [Threads -> Observers \cup {Null}]
    BY <1>2 DEF TypeOK
  <2>2. /\ at' \in [Threads -> Locations] /\ entry' \in [Threads -> Nat \ {0}]
        /\ \A u \in Threads \ {t} : at'[u] = at[u] /\ entry'[u] = entry[u]
    <3>1. CASE entry' = [entry EXCEPT ![t] = @ + 1] /\ UNCHANGED at
      BY <2>1, <3>1 DEF Locations, Operations
    <3>2. CASE at' = [at EXCEPT ![t] = "locked"] /\ UNCHANGED entry
      BY <2>1, <3>2 DEF Locations, Operations
    <3>3. QED
      BY <1>1, <3>1, <3>2
  <2>3. QED
    BY <1>1, <1>2, <2>2 DEF TypeOK, Only
<1>4. Falls
  BY <1>1, Mortal
<1>5. temporary[t] = Null /\ active[t] = <<>>
  BY <1>1, <1>2 DEF Placed
<1>6. CASE Expired(observers[entry[t]]) /\ entry' = [entry EXCEPT ![t] = @ + 1] /\ UNCHANGED at
  <2>1. entry'[t] = entry[t] + 1 /\ entry[t] \in Nat \ {0} /\ Len(observers) \in Nat
    BY <1>2, <1>6, LenProperties DEF TypeOK
  <2>2. Placed(t)'
    BY <1>1, <1>2, <1>6 DEF Placed
  <2>3. observer[t] # Null => observers[entry[t]] # observer[t]
    BY <1>6 DEF Expired, Alive
  <2>4. \A i \in 1 .. entry[t] : i \in 1 .. entry[t] - 1 \/ i = entry[t]
    BY <2>1
  <2>5. observer[t] # Null => \A i \in 1 .. entry'[t] - 1 : observers[i] # observer[t]
    BY <1>1, <1>2, <2>1, <2>3, <2>4 DEF Seen
  <2>6. Seen(t)'
    BY <1>1, <1>6, <2>1, <2>5 DEF Seen
  <2>7. QED
    BY <1>1, <1>3, <1>4, <1>6, <2>2, <2>6, InnerKeeps
<1>7. CASE at' = [at EXCEPT ![t] = "locked"] /\ UNCHANGED entry
  <2>1. at'[t] = "locked"
    BY <1>2, <1>7 DEF TypeOK
  <2>2. Placed(t)' /\ Seen(t)'
    BY <1>1, <1>2, <1>5, <1>7, <2>1 DEF Placed, Seen, Inside
  <2>3. QED
    BY <1>1, <1>3, <1>4, <2>1, <2>2, InnerKeeps
<1>8. QED
  BY <1>1, <1>6, <1>7

(* The entry is locked, unless it expired since.                           *)
LEMMA AddLocksKeeps ==
  ASSUME AdapterInv, NEW t \in Threads, AddLocksEntry(t)
  PROVE  AdapterInv'
<1> USE AdapterAssumption
<1> DEFINE e == observers[entry[t]]
<1>1. /\ at[t] = "locked" /\ at' = [at EXCEPT ![t] = "compare"]
      /\ temporary' = [temporary EXCEPT ![t] = IF Expired(e) THEN Null ELSE e]
      /\ UNCHANGED <<observers, owner, owned, observer, entry, active, notified,
                     registered, sometime, always>>
  BY DEF AddLocksEntry, Entry, adapter, history
<1>2. TypeOK /\ Placed(t) /\ owner = t /\ Seen(t)
  BY <1>1 DEF AdapterInv, Placements, Placed, Scans
<1>3. e \in Observers \cup {Null}
  <2>1. entry[t] \in 1 .. Len(observers) /\ observers \in Seq(Observers \cup {Null})
    BY <1>1, <1>2, LenProperties DEF Seen, TypeOK
  <2>2. QED
    BY <2>1, ElementOfSeq
<1>4. TypeOK' /\ Only(t)
  BY <1>1, <1>2, <1>3 DEF TypeOK, Only, Locations
<1>5. at'[t] = "compare" /\ temporary'[t] = IF Expired(e) THEN Null ELSE e
  BY <1>1, <1>2 DEF TypeOK
<1>6. Falls
  <2>1. \A u \in Threads : temporary'[u] \in {Null, temporary[u]} \/ Alive(temporary'[u])
    BY <1>4, <1>5 DEF Only, Expired
  <2>2. QED
    BY <1>1, <2>1, Mortal
<1>7. Placed(t)'
  BY <1>1, <1>2, <1>5 DEF Placed, Inside
<1>8. Expired(e) /\ observer[t] # Null => e # observer[t]
  BY DEF Expired, Alive
<1>9. Seen(t)'
  BY <1>1, <1>2, <1>5, <1>8 DEF Seen
<1>10. QED
  BY <1>1, <1>2, <1>4, <1>5, <1>6, <1>7, <1>9, InnerKeeps

(* It is compared: another one is passed.                                  *)
LEMMA AddComparesKeeps ==
  ASSUME AdapterInv, NEW t \in Threads, AddCompares(t)
  PROVE  AdapterInv'
<1> USE AdapterAssumption
<1>1. /\ at[t] = "compare" /\ temporary' = [temporary EXCEPT ![t] = Null]
      /\ UNCHANGED <<observers, owner, owned, observer, active, notified,
                     registered, sometime, always>>
      /\ \/ /\ at' = [at EXCEPT ![t] = "done"] /\ UNCHANGED entry
         \/ /\ temporary[t] # observer[t]
            /\ at' = [at EXCEPT ![t] = "add"] /\ entry' = [entry EXCEPT ![t] = @ + 1]
  BY DEF AddCompares, adapter, history
<1>2. TypeOK /\ Placed(t) /\ owner = t /\ Seen(t)
  BY <1>1 DEF AdapterInv, Placements, Placed, Scans
<1>3. TypeOK' /\ Only(t) /\ temporary'[t] = Null
  <2>1. /\ at \in [Threads -> Locations] /\ entry \in [Threads -> Nat \ {0}]
        /\ temporary \in [Threads -> Observers \cup {Null}]
    BY <1>2 DEF TypeOK
  <2>2. /\ at' \in [Threads -> Locations] /\ entry' \in [Threads -> Nat \ {0}]
        /\ \A u \in Threads \ {t} : at'[u] = at[u] /\ entry'[u] = entry[u]
    <3>1. CASE at' = [at EXCEPT ![t] = "done"] /\ UNCHANGED entry
      BY <2>1, <3>1 DEF Locations, Operations
    <3>2. CASE at' = [at EXCEPT ![t] = "add"] /\ entry' = [entry EXCEPT ![t] = @ + 1]
      BY <2>1, <3>2 DEF Locations, Operations
    <3>3. QED
      BY <1>1, <3>1, <3>2
  <2>3. /\ temporary' \in [Threads -> Observers \cup {Null}] /\ temporary'[t] = Null
        /\ \A u \in Threads \ {t} : temporary'[u] = temporary[u]
    BY <1>1, <2>1
  <2>4. QED
    BY <1>1, <1>2, <2>2, <2>3 DEF TypeOK, Only
<1>4. Falls
  <2>1. \A u \in Threads : temporary'[u] \in {Null, temporary[u]}
    BY <1>3 DEF Only
  <2>2. QED
    BY <1>1, <2>1, Mortal
<1>5. entry[t] \in Nat \ {0} /\ entry[t] <= Len(observers) /\ Len(observers) \in Nat
  BY <1>1, <1>2, LenProperties DEF TypeOK, Seen
<1>6. CASE at' = [at EXCEPT ![t] = "done"] /\ UNCHANGED entry
  <2>1. at'[t] = "done"
    BY <1>2, <1>6 DEF TypeOK
  <2>2. Placed(t)' /\ Seen(t)'
    BY <1>1, <1>2, <1>3, <1>6, <2>1 DEF Placed, Seen, Inside
  <2>3. QED
    BY <1>1, <1>2, <1>3, <1>4, <2>1, <2>2, InnerKeeps
<1>7. CASE /\ temporary[t] # observer[t]
           /\ at' = [at EXCEPT ![t] = "add"] /\ entry' = [entry EXCEPT ![t] = @ + 1]
  <2>1. at'[t] = "add" /\ entry'[t] = entry[t] + 1
    BY <1>2, <1>7 DEF TypeOK
  <2>2. Placed(t)'
    BY <1>1, <1>2, <1>3, <2>1 DEF Placed, Inside, Operations
  <2>3. observer[t] # Null => observers[entry[t]] # observer[t]
    BY <1>1, <1>2, <1>7 DEF Seen
  <2>4. \A i \in 1 .. entry[t] : i \in 1 .. entry[t] - 1 \/ i = entry[t]
    BY <1>5
  <2>5. observer[t] # Null => \A i \in 1 .. entry'[t] - 1 : observers[i] # observer[t]
    BY <1>1, <1>2, <1>5, <2>1, <2>3, <2>4 DEF Seen
  <2>6. Seen(t)'
    BY <1>1, <1>5, <2>1, <2>5 DEF Seen
  <2>7. QED
    BY <1>1, <1>2, <1>3, <1>4, <2>1, <2>2, <2>6, InnerKeeps
<1>8. QED
  BY <1>1, <1>6, <1>7

(* The mutex is released at the end of the call.                           *)
LEMMA ReturnKeeps ==
  ASSUME AdapterInv, NEW t \in Threads, Return(t)
  PROVE  AdapterInv'
<1> USE AdapterAssumption
<1>1. /\ at[t] = "done" /\ owner' = Null /\ at' = [at EXCEPT ![t] = "idle"]
      /\ observer' = [observer EXCEPT ![t] = Null] /\ entry' = [entry EXCEPT ![t] = 1]
      /\ UNCHANGED <<observers, owned, temporary, active, notified, registered, sometime, always>>
  BY DEF Return, history
<1>2. TypeOK /\ Placed(t) /\ owner = t
  BY <1>1 DEF AdapterInv, Placements, Placed
<1>3. TypeOK' /\ Only(t) /\ OwnerStep(t)
  BY <1>1, <1>2 DEF TypeOK, Only, OwnerStep, Locations
<1>4. at'[t] = "idle" /\ observer'[t] = Null /\ entry'[t] = 1
  BY <1>1, <1>2 DEF TypeOK
<1>5. Placements'
  <2>1. Placed(t)'
    BY <1>1, <1>2, <1>4 DEF Placed
  <2>2. QED
    BY <1>3, <2>1, PlacedStep DEF AdapterInv
<1>6. Scans'
  BY <1>1, <1>3, SeenStep DEF AdapterInv
<1>7. Registry'
  <2>1. \A u \in Threads : observer'[u] \in {Null, observer[u]}
    BY <1>3, <1>4 DEF Only
  <2>2. Falls
    BY <1>1, <2>1, Mortal
  <2>3. \A u \in Threads : owner = u => at[u] # "remove"
    BY <1>1, <1>2
  <2>4. QED
    BY <1>1, <2>2, <2>3, RegistryStays DEF AdapterInv
<1>8. Memories' /\ Exports'
  <2>1. \A u \in Threads : at'[u] \in {"export", "notify"} => at'[u] = at[u]
    BY <1>3, <1>4 DEF Only
  <2>2. Memories'
    BY <1>1, <2>1, MemoriesStay DEF AdapterInv
  <2>3. Exports'
    BY <1>1, <2>1, ExportsStay DEF AdapterInv
  <2>4. QED
    BY <2>2, <2>3
<1>9. QED
  BY <1>3, <1>5, <1>6, <1>7, <1>8 DEF AdapterInv

(* An export has read the whole list.                                      *)
LEMMA ExportUnlocksKeeps ==
  ASSUME AdapterInv, NEW t \in Threads, ExportUnlocks(t)
  PROVE  AdapterInv'
<1> USE AdapterAssumption
<1>1. /\ at[t] = "export" /\ owner = t /\ ~(entry[t] <= Len(observers))
      /\ owner' = Null /\ at' = [at EXCEPT ![t] = "notify"] /\ entry' = [entry EXCEPT ![t] = 1]
      /\ UNCHANGED <<observers, owned, observer, temporary, active, notified,
                     registered, sometime, always>>
  BY DEF ExportUnlocks, Holding, More, history
<1>2. TypeOK /\ Placed(t) /\ Seen(t)
  BY <1>1 DEF AdapterInv, Placements, Scans
<1>3. TypeOK' /\ Only(t) /\ OwnerStep(t)
  BY <1>1, <1>2 DEF TypeOK, Only, OwnerStep, Locations
<1>4. at'[t] = "notify" /\ entry'[t] = 1
  BY <1>1, <1>2 DEF TypeOK
<1>5. Placements'
  <2>1. Placed(t)'
    BY <1>1, <1>2, <1>4 DEF Placed
  <2>2. QED
    BY <1>3, <2>1, PlacedStep DEF AdapterInv
<1>6. Scans'
  BY <1>1, <1>3, SeenStep DEF AdapterInv
<1>7. Registry'
  <2>1. Falls
    BY <1>1, Mortal
  <2>2. \A u \in Threads : owner = u => at[u] # "remove"
    BY <1>1
  <2>3. QED
    BY <1>1, <2>1, <2>2, RegistryStays DEF AdapterInv
<1>8. Memories'
  <2>1. \A u \in Threads : at'[u] = "export" => at[u] = "export"
    BY <1>3, <1>4 DEF Only
  <2>2. QED
    BY <1>1, <2>1, MemoriesStay DEF AdapterInv
<1>9. /\ DOMAIN active[t] = 1 .. Len(observers) /\ active[t] \in Seq(Observers)
      /\ \A i \in 1 .. Len(observers) : active[t][i] = observers[i] /\ Alive(observers[i])
  <2>1. entry[t] = Len(observers) + 1
    BY <1>1, <1>2, LenProperties DEF TypeOK, Seen
  <2>2. Len(observers) \in Nat /\ active[t] \in Seq(Observers)
    BY <1>2, LenProperties DEF TypeOK
  <2>3. DOMAIN active[t] = 1 .. Len(observers)
    BY <1>1, <1>2, <2>1, <2>2, LenProperties DEF Seen
  <2>4. \A i \in 1 .. Len(observers) : active[t][i] = observers[i]
    BY <1>1, <1>2, <2>1, <2>2 DEF Seen
  <2>5. \A i \in 1 .. Len(observers) : active[t][i] \in ToSet(active[t])
    BY <2>3 DEF ToSet
  <2>6. \A i \in 1 .. Len(observers) : Alive(active[t][i])
    BY <2>5 DEF Alive
  <2>7. QED
    BY <2>2, <2>3, <2>4, <2>6
<1>10. Exported(t)'
  <2>1. IsInjective(active[t])
    <3>1. \A i \in 1 .. Len(observers) : observers[i] \in Observers /\ Recorded(observers[i])
      BY <1>9, ElementOfSeq DEF AdapterInv, Registry
    <3>2. QED
      BY <1>9, <3>1 DEF IsInjective, Recorded
  <2>2. ToSet(active[t]) \subseteq sometime[t]
    <3>1. \A i \in 1 .. Len(observers) : observers[i] \in Observers /\ Recorded(observers[i])
      BY <1>9, ElementOfSeq DEF AdapterInv, Registry
    <3>2. \A i \in 1 .. Len(observers) : observers[i] \in registered
      BY <1>9, <3>1 DEF Recorded, InList
    <3>3. registered \subseteq sometime[t]
      BY <1>1 DEF AdapterInv, Memories, Remembered
    <3>4. QED
      BY <1>9, <3>2, <3>3 DEF ToSet
  <2>3. always[t] \subseteq ToSet(active[t])
    <3>1. SUFFICES ASSUME NEW o \in always[t]
                   PROVE  o \in ToSet(active[t])
      OBVIOUS
    <3>2. o \in registered /\ o \in owned /\ o \in Observers
      BY <1>1, <1>2 DEF AdapterInv, Memories, Remembered, TypeOK
    <3>3. Alive(o) /\ ~Removing(o)
      BY <1>1, <3>2 DEF Alive, Removing
    <3>4. InList(o)
      BY <3>2, <3>3 DEF AdapterInv, Registry, Recorded
    <3>5. QED
      BY <1>9, <3>4 DEF InList, ToSet
  <2>4. UNCHANGED <<active, sometime, always>>
    BY <1>1
  <2>5. QED
    BY <2>1, <2>2, <2>3, <2>4 DEF Exported
<1>11. Exports'
  <2>1. \A u \in Threads \ {t} : Exported(u)'
    BY <1>1, <1>3 DEF AdapterInv, Exports, Exported, Only
  <2>2. QED
    BY <1>10, <2>1 DEF Exports
<1>12. QED
  BY <1>3, <1>5, <1>6, <1>7, <1>8, <1>11 DEF AdapterInv

(* An export calls an observer, or is over.                                *)
LEMMA NotifyKeeps ==
  ASSUME AdapterInv, NEW t \in Threads, Notify(t) \/ ExportReturns(t)
  PROVE  AdapterInv'
<1> USE AdapterAssumption
<1>1. /\ at[t] = "notify"
      /\ UNCHANGED <<observers, owner, owned, observer, entry, temporary, registered>>
      /\ \/ /\ notified' = [notified EXCEPT ![t] = @ + 1]
            /\ UNCHANGED <<at, active, sometime, always>>
         \/ /\ active' = [active EXCEPT ![t] = <<>>] /\ notified' = [notified EXCEPT ![t] = 0]
            /\ at' = [at EXCEPT ![t] = "idle"] /\ sometime' = [sometime EXCEPT ![t] = {}]
            /\ always' = [always EXCEPT ![t] = {}]
  BY DEF Notify, ExportReturns, adapter, history
<1>2. TypeOK /\ Placed(t) /\ owner # t
  BY <1>1 DEF AdapterInv, Placements, Placed, Inside, Operations
<1>3. /\ TypeOK' /\ Only(t) /\ OwnerStep(t)
      /\ \/ at'[t] = "notify" /\ active' = active
         \/ at'[t] = "idle" /\ active'[t] = <<>>
      /\ \A u \in Threads : u # t \/ at'[t] = "notify" =>
           sometime'[u] = sometime[u] /\ always'[u] = always[u]
  <2>1. CASE /\ notified' = [notified EXCEPT ![t] = @ + 1]
             /\ UNCHANGED <<at, active, sometime, always>>
    BY <1>1, <1>2, <2>1 DEF TypeOK, Only, OwnerStep
  <2>2. CASE /\ active' = [active EXCEPT ![t] = <<>>] /\ notified' = [notified EXCEPT ![t] = 0]
             /\ at' = [at EXCEPT ![t] = "idle"] /\ sometime' = [sometime EXCEPT ![t] = {}]
             /\ always' = [always EXCEPT ![t] = {}]
    <3>1. <<>> \in Seq(Observers)
      OBVIOUS
    <3>2. TypeOK'
      BY <1>1, <1>2, <2>2, <3>1 DEF TypeOK, Locations
    <3>3. Only(t) /\ OwnerStep(t) /\ at'[t] = "idle" /\ active'[t] = <<>>
      BY <1>1, <1>2, <2>2 DEF TypeOK, Only, OwnerStep
    <3>4. \A u \in Threads \ {t} : sometime'[u] = sometime[u] /\ always'[u] = always[u]
      BY <1>2, <2>2 DEF TypeOK
    <3>5. QED
      BY <3>2, <3>3, <3>4
  <2>3. QED
    BY <1>1, <2>1, <2>2
<1>4. Placements'
  <2>1. Placed(t)'
    BY <1>1, <1>2, <1>3 DEF Placed
  <2>2. QED
    BY <1>3, <2>1, PlacedStep DEF AdapterInv
<1>5. Scans'
  BY <1>1, <1>2, <1>3, SeenStep DEF AdapterInv
<1>6. Registry'
  <2>1. \A u \in Threads : ToSet(active'[u]) \subseteq ToSet(active[u])
    <3>1. \A u \in Threads : active'[u] = active[u] \/ active'[u] = <<>>
      BY <1>3 DEF Only
    <3>2. ToSet(<<>>) = {}
      BY DEF ToSet
    <3>3. QED
      BY <3>1, <3>2
  <2>2. Falls
    BY <1>1, <2>1, Mortal
  <2>3. \A u \in Threads : owner = u => owner' = u /\ at'[u] = at[u] /\ observer'[u] = observer[u]
    BY <1>1, <1>2, <1>3 DEF Only
  <2>4. QED
    BY <1>1, <2>2, <2>3, RegistryStays DEF AdapterInv
<1>7. Memories'
  <2>1. \A u \in Threads : at'[u] = "export" =>
          at[u] = "export" /\ sometime'[u] = sometime[u] /\ always'[u] = always[u]
    BY <1>3 DEF Only
  <2>2. UNCHANGED <<registered, owned>>
    BY <1>1
  <2>3. QED
    BY <2>1, <2>2 DEF AdapterInv, Memories, Remembered
<1>8. Exports'
  <2>1. \A u \in Threads : at'[u] = "notify" =>
          /\ at[u] = "notify" /\ active'[u] = active[u]
          /\ sometime'[u] = sometime[u] /\ always'[u] = always[u]
    BY <1>1, <1>3 DEF Only
  <2>2. QED
    BY <2>1, ExportsStay DEF AdapterInv
<1>9. QED
  BY <1>3, <1>4, <1>5, <1>6, <1>7, <1>8 DEF AdapterInv

(* The application drops a pointer.                                        *)
LEMMA ReleaseKeeps ==
  ASSUME AdapterInv, NEW o \in Observers, Release(o)
  PROVE  AdapterInv'
<1>1. /\ owned' = owned \ {o}
      /\ always' = [t \in Threads |->
                      IF at[t] = "export" THEN always[t] \ {o} ELSE always[t]]
      /\ UNCHANGED <<observers, owner, at, observer, entry, temporary, active, notified,
                     registered, sometime>>
  BY DEF Release, adapter, calls
<1>2. TypeOK
  BY DEF AdapterInv
<1>3. TypeOK'
  BY <1>1, <1>2 DEF TypeOK
<1>4. Placements' /\ Scans'
  BY <1>1 DEF AdapterInv, Placements, Placed, Scans, Seen
<1>5. Registry'
  <2>1. Falls
    BY <1>1, Mortal
  <2>2. QED
    BY <1>1, <2>1, RegistryStays DEF AdapterInv
<1>6. \A t \in Threads :
        always'[t] = IF at[t] = "export" THEN always[t] \ {o} ELSE always[t]
  BY <1>1
<1>7. Memories' /\ Exports'
  <2>1. UNCHANGED <<at, active, registered, sometime>> /\ owned' = owned \ {o}
    BY <1>1
  <2>2. Memories'
    BY <1>6, <2>1 DEF AdapterInv, Memories, Remembered
  <2>3. Exports'
    BY <1>6, <2>1, ExportsStay DEF AdapterInv
  <2>4. QED
    BY <2>2, <2>3
<1>8. QED
  BY <1>3, <1>4, <1>5, <1>7 DEF AdapterInv

-----------------------------------------------------------------------------
(* THE STEPS THAT CHANGE THE LIST OR THE REGISTRY.                         *)

(* An observer that was not found is appended.                             *)
LEMMA AddAppendsKeeps ==
  ASSUME AdapterInv, NEW t \in Threads, AddAppends(t)
  PROVE  AdapterInv'
<1> USE AdapterAssumption
<1> DEFINE new == observer[t]
           now == registered \cup ({new} \ {Null})
<1>1. /\ at[t] = "add" /\ owner = t /\ ~(entry[t] <= Len(observers))
      /\ observers' = Append(observers, new) /\ Register(now) /\ registered' = now
      /\ at' = [at EXCEPT ![t] = "done"]
      /\ UNCHANGED <<owner, owned, observer, entry, temporary, active, notified>>
  BY DEF AddAppends, Holding, More, Register
<1>2. TypeOK /\ Placed(t) /\ Seen(t) /\ observers \in Seq(Observers \cup {Null})
  BY <1>1 DEF AdapterInv, Placements, Scans, TypeOK
<1>3. /\ new \in Observers \cup {Null} /\ Len(observers) \in Nat
      /\ observers' \in Seq(Observers \cup {Null}) /\ Len(observers') = Len(observers) + 1
      /\ \A i \in 1 .. Len(observers) : observers'[i] = observers[i]
      /\ observers'[Len(observers) + 1] = new
  <2>1. new \in Observers \cup {Null}
    BY <1>2 DEF TypeOK
  <2>2. QED
    BY <1>1, <1>2, <2>1, AppendProperties, LenProperties
<1>4. at'[t] = "done" /\ Only(t) /\ OwnerStep(t)
  BY <1>1, <1>2 DEF TypeOK, Only, OwnerStep
<1>5. TypeOK'
  <2>1. now \in SUBSET Observers
    BY <1>2, <1>3 DEF TypeOK
  <2>2. sometime' \in [Threads -> SUBSET Observers] /\ always' \in [Threads -> SUBSET Observers]
    BY <1>1, <1>2, <2>1 DEF Register, TypeOK
  <2>3. QED
    BY <1>1, <1>2, <1>3, <2>1, <2>2 DEF TypeOK, Locations
<1>6. Placements'
  <2>1. Placed(t)'
    BY <1>1, <1>2, <1>4 DEF Placed, Inside
  <2>2. QED
    BY <1>4, <2>1, PlacedStep DEF AdapterInv
<1>7. Scans'
  <2>1. Seen(t)'
    BY <1>4 DEF Seen
  <2>2. QED
    BY <1>1, <1>4, <2>1, SeenStep DEF AdapterInv
<1>8. new # Null => \A i \in 1 .. Len(observers) : observers[i] # new
  <2>1. entry[t] = Len(observers) + 1
    BY <1>1, <1>2, <1>3 DEF Seen, TypeOK
  <2>2. QED
    BY <1>1, <1>2, <1>3, <2>1 DEF Seen
<1>9. Registry'
  <2>1. Falls
    BY <1>1, Mortal
  <2>2. SUFFICES ASSUME NEW o \in Observers, Alive(o)
                 PROVE  /\ \A i, j \in 1 .. Len(observers') :
                             observers'[i] = o /\ observers'[j] = o => i = j
                        /\ InList(o)' => o \in registered'
                        /\ o \in registered' => InList(o)'
    BY <2>1 DEF Registry, Recorded, Falls
  <2>3. /\ \A i, j \in 1 .. Len(observers) : observers[i] = o /\ observers[j] = o => i = j
        /\ InList(o) => o \in registered
        /\ o \in registered => InList(o)
    BY <1>1, <2>2 DEF AdapterInv, Registry, Recorded, Removing
  <2>4. \A i \in 1 .. Len(observers') : i \in 1 .. Len(observers) \/ i = Len(observers) + 1
    BY <1>3
  <2>5. InList(o)' <=> InList(o) \/ o = new
    <3>1. InList(o) => InList(o)'
      BY <1>3 DEF InList
    <3>2. o = new => InList(o)'
      BY <1>3 DEF InList
    <3>3. InList(o)' => InList(o) \/ o = new
      BY <1>3, <2>4 DEF InList
    <3>4. QED
      BY <3>1, <3>2, <3>3
  <2>6. \A i, j \in 1 .. Len(observers') : observers'[i] = o /\ observers'[j] = o => i = j
    BY <1>3, <1>8, <2>3, <2>4
  <2>7. QED
    BY <1>1, <2>3, <2>5, <2>6
<1>10. Memories' /\ Exports'
  <2>1. \A u \in Threads : at'[u] \in {"export", "notify"} => at'[u] = at[u]
    BY <1>4 DEF Only
  <2>2. /\ Memories'
        /\ \A u \in Threads : at[u] # "export" =>
             sometime'[u] = sometime[u] /\ always'[u] = always[u]
    BY <1>1, <1>2, <2>1, MemoriesFollow DEF AdapterInv
  <2>3. Exports'
    BY <1>1, <2>1, <2>2, ExportsStay DEF AdapterInv
  <2>4. QED
    BY <2>2, <2>3
<1>11. QED
  BY <1>5, <1>6, <1>7, <1>9, <1>10 DEF AdapterInv

(* The list is emptied.                                                    *)
LEMMA ClearKeeps ==
  ASSUME AdapterInv, NEW t \in Threads, Clear(t)
  PROVE  AdapterInv'
<1> USE AdapterAssumption
<1>1. /\ at[t] = "clear" /\ owner = t
      /\ observers' = <<>> /\ Register({}) /\ registered' = {}
      /\ at' = [at EXCEPT ![t] = "done"]
      /\ UNCHANGED <<owner, owned, observer, entry, temporary, active, notified>>
  BY DEF Clear, Holding, Register
<1>2. TypeOK /\ Placed(t) /\ Seen(t)
  BY <1>1 DEF AdapterInv, Placements, Scans
<1>3. at'[t] = "done" /\ Only(t) /\ OwnerStep(t)
  BY <1>1, <1>2 DEF TypeOK, Only, OwnerStep
<1>4. TypeOK'
  <2>1. sometime' \in [Threads -> SUBSET Observers] /\ always' \in [Threads -> SUBSET Observers]
    BY <1>1, <1>2 DEF Register, TypeOK
  <2>2. <<>> \in Seq(Observers \cup {Null})
    OBVIOUS
  <2>3. QED
    BY <1>1, <1>2, <2>1, <2>2 DEF TypeOK, Locations
<1>5. Placements'
  <2>1. Placed(t)'
    BY <1>1, <1>2, <1>3 DEF Placed, Inside
  <2>2. QED
    BY <1>3, <2>1, PlacedStep DEF AdapterInv
<1>6. Scans'
  <2>1. Seen(t)'
    BY <1>1, <1>2, <1>3 DEF Seen
  <2>2. QED
    BY <1>1, <1>3, <2>1, SeenStep DEF AdapterInv
<1>7. Registry'
  BY <1>1 DEF Registry, Recorded, InList
<1>8. Memories' /\ Exports'
  <2>1. \A u \in Threads : at'[u] \in {"export", "notify"} => at'[u] = at[u]
    BY <1>3 DEF Only
  <2>2. /\ Memories'
        /\ \A u \in Threads : at[u] # "export" =>
             sometime'[u] = sometime[u] /\ always'[u] = always[u]
    BY <1>1, <1>2, <2>1, MemoriesFollow DEF AdapterInv
  <2>3. Exports'
    BY <1>1, <2>1, <2>2, ExportsStay DEF AdapterInv
  <2>4. QED
    BY <2>2, <2>3
<1>9. QED
  BY <1>4, <1>5, <1>6, <1>7, <1>8 DEF AdapterInv

(* Erasing an entry keeps the registry, if it is the entry of no living    *)
(* observer but the one that is being removed.                             *)
LEMMA ErasedRegistry ==
  ASSUME TypeOK, Registry, Falls, NEW k \in 1 .. Len(observers),
         observers' = RemoveAt(observers, k), UNCHANGED registered,
         \A o \in Observers : Alive(o) /\ observers[k] = o => Removing(o),
         UNCHANGED <<owner, at, observer>>
  PROVE  Registry'
<1> DEFINE from(i) == IF i < k THEN i ELSE i + 1
<1>1. /\ Len(observers) \in Nat /\ k \in Nat \ {0} /\ k <= Len(observers)
      /\ Len(observers') = Len(observers) - 1
      /\ \A i \in 1 .. Len(observers') : observers'[i] = observers[from(i)]
  <2>1. observers \in Seq(Observers \cup {Null})
    BY DEF TypeOK
  <2>2. QED
    <3>1. Len(observers) \in Nat /\ k \in Nat \ {0} /\ k <= Len(observers)
      BY <2>1, LenProperties
    <3>2. /\ Len(observers') = Len(observers) - 1
          /\ \A i \in 1 .. Len(observers) - 1 : observers'[i] = observers[from(i)]
      BY <2>1, Erased
    <3>3. QED
      BY <3>1, <3>2
<1>2. /\ \A i \in 1 .. Len(observers') : from(i) \in 1 .. Len(observers)
      /\ \A i, j \in 1 .. Len(observers') : from(i) = from(j) => i = j
      /\ \A i \in 1 .. Len(observers) : i # k => \E j \in 1 .. Len(observers') : i = from(j)
  <2>1. ASSUME NEW i \in 1 .. Len(observers), i # k
        PROVE  \E j \in 1 .. Len(observers') : i = from(j)
    <3>1. CASE i < k
      BY <1>1, <3>1
    <3>2. CASE i > k
      <4>1. i - 1 \in 1 .. Len(observers') /\ i = from(i - 1)
        BY <1>1, <3>2
      <4>2. QED
        BY <4>1
    <3>3. QED
      BY <1>1, <2>1, <3>1, <3>2
  <2>2. \A i \in 1 .. Len(observers') : from(i) \in 1 .. Len(observers)
    BY <1>1
  <2>3. \A i, j \in 1 .. Len(observers') : from(i) = from(j) => i = j
    OBVIOUS
  <2>4. QED
    BY <2>1, <2>2, <2>3
<1> HIDE DEF from
<1>3. SUFFICES ASSUME NEW o \in Observers, Alive(o)
               PROVE  /\ \A i, j \in 1 .. Len(observers') :
                           observers'[i] = o /\ observers'[j] = o => i = j
                      /\ InList(o)' => o \in registered'
                      /\ o \in registered' => InList(o)' \/ Removing(o)'
  BY DEF Registry, Recorded, Falls
<1>4. /\ \A i, j \in 1 .. Len(observers) : observers[i] = o /\ observers[j] = o => i = j
      /\ InList(o) => o \in registered
      /\ o \in registered => InList(o) \/ Removing(o)
  BY <1>3 DEF Registry, Recorded
<1>5. Removing(o)' <=> Removing(o)
  BY DEF Removing
<1>6. InList(o)' => InList(o)
  <2>1. SUFFICES ASSUME NEW i \in 1 .. Len(observers'), observers'[i] = o
                 PROVE  InList(o)
    BY DEF InList
  <2>2. from(i) \in 1 .. Len(observers) /\ observers[from(i)] = o
    BY <1>1, <1>2, <2>1
  <2>3. QED
    BY <2>2 DEF InList
<1>7. InList(o) => InList(o)' \/ Removing(o)
  <2>1. SUFFICES ASSUME NEW i \in 1 .. Len(observers), observers[i] = o, ~Removing(o)
                 PROVE  InList(o)'
    BY DEF InList
  <2>2. i # k
    BY <1>3, <2>1
  <2>3. PICK j \in 1 .. Len(observers') : i = from(j)
    BY <1>2, <2>2
  <2>4. observers'[j] = o
    BY <1>1, <2>1, <2>3
  <2>5. QED
    BY <2>4 DEF InList
<1>8. QED
  BY <1>1, <1>2, <1>4, <1>5, <1>6, <1>7

(* ... and what the thread has seen.                                       *)
LEMMA ErasedSeen ==
  ASSUME TypeOK, NEW t \in Threads, Seen(t), at[t] \in {"remove", "export"},
         entry[t] <= Len(observers), observers' = RemoveAt(observers, entry[t]),
         UNCHANGED <<at, observer, entry, temporary, active>>
  PROVE  Seen(t)' /\ observers' \in Seq(Observers \cup {Null})
<1>1. observers \in Seq(Observers \cup {Null}) /\ entry[t] \in 1 .. Len(observers)
  BY LenProperties DEF TypeOK
<1>2. /\ observers' \in Seq(Observers \cup {Null}) /\ Len(observers) \in Nat
      /\ Len(observers') = Len(observers) - 1
      /\ \A i \in 1 .. Len(observers) - 1 :
           observers'[i] = observers[IF i < entry[t] THEN i ELSE i + 1]
  BY <1>1, Erased, LenProperties
<1>3. \A i \in 1 .. entry[t] - 1 : observers'[i] = observers[i]
  <2>1. \A i \in 1 .. entry[t] - 1 : i \in 1 .. Len(observers) - 1 /\ i < entry[t]
    BY <1>1, <1>2
  <2>2. QED
    BY <1>2, <2>1
<1>4. entry[t] <= Len(observers') + 1
  BY <1>1, <1>2
<1>5. QED
  BY <1>2, <1>3, <1>4 DEF Seen

(* remove_observer looks at an entry.                                      *)
LEMMA RemoveLooksKeeps ==
  ASSUME AdapterInv, NEW t \in Threads, RemoveLooks(t)
  PROVE  AdapterInv'
<1> USE AdapterAssumption
<1> DEFINE e == observers[entry[t]]
<1>1. /\ at[t] = "remove" /\ owner = t /\ entry[t] <= Len(observers)
      /\ UNCHANGED <<owner, owned, at, observer, temporary, active, notified,
                     registered, sometime, always>>
      /\ \/ /\ Expired(e) \/ e = observer[t]
            /\ observers' = RemoveAt(observers, entry[t]) /\ UNCHANGED entry
         \/ /\ ~(Expired(e) \/ e = observer[t])
            /\ entry' = [entry EXCEPT ![t] = @ + 1] /\ UNCHANGED observers
  BY DEF RemoveLooks, Holding, More, Entry, history
<1>2. TypeOK /\ Placed(t) /\ Seen(t)
  BY <1>1 DEF AdapterInv, Placements, Scans
<1>3. Falls
  BY <1>1, Mortal
<1>4. entry[t] \in Nat \ {0} /\ Len(observers) \in Nat /\ entry[t] \in 1 .. Len(observers)
  BY <1>1, <1>2, LenProperties DEF TypeOK
<1>5. CASE /\ Expired(e) \/ e = observer[t]
           /\ observers' = RemoveAt(observers, entry[t]) /\ UNCHANGED entry
  <2>1. \A o \in Observers : Alive(o) /\ e = o => Removing(o)
    BY <1>1, <1>5 DEF Expired, Removing
  <2>2. Registry'
    BY <1>1, <1>2, <1>3, <1>4, <1>5, <2>1, ErasedRegistry DEF AdapterInv
  <2>3. Seen(t)' /\ observers' \in Seq(Observers \cup {Null})
    BY <1>1, <1>2, <1>5, ErasedSeen
  <2>4. TypeOK' /\ Only(t) /\ OwnerStep(t)
    BY <1>1, <1>2, <1>5, <2>3 DEF TypeOK, Only, OwnerStep
  <2>5. Scans'
    BY <1>1, <2>3, <2>4, SeenStep DEF AdapterInv
  <2>6. Placements'
    BY <1>1, <1>5 DEF AdapterInv, Placements, Placed
  <2>7. Memories' /\ Exports'
    BY <1>1, MemoriesStay, ExportsStay DEF AdapterInv
  <2>8. QED
    BY <2>2, <2>4, <2>5, <2>6, <2>7 DEF AdapterInv
<1>6. CASE /\ ~(Expired(e) \/ e = observer[t])
           /\ entry' = [entry EXCEPT ![t] = @ + 1] /\ UNCHANGED observers
  <2>1. TypeOK' /\ Only(t) /\ entry'[t] = entry[t] + 1
    BY <1>1, <1>2, <1>6 DEF TypeOK, Only
  <2>2. Placed(t)'
    BY <1>1, <1>2 DEF Placed
  <2>3. \A i \in 1 .. entry[t] : i \in 1 .. entry[t] - 1 \/ i = entry[t]
    BY <1>4
  <2>4. observer[t] # Null => \A i \in 1 .. entry'[t] - 1 : observers[i] # observer[t]
    BY <1>1, <1>2, <1>4, <1>6, <2>1, <2>3 DEF Seen
  <2>5. Seen(t)'
    BY <1>1, <1>4, <1>6, <2>1, <2>4 DEF Seen
  <2>6. QED
    BY <1>1, <1>3, <1>6, <2>1, <2>2, <2>5, InnerKeeps
<1>7. QED
  BY <1>1, <1>5, <1>6

(* The observer is out of the list, and no longer registered.              *)
LEMMA RemoveEndsKeeps ==
  ASSUME AdapterInv, NEW t \in Threads, RemoveEnds(t)
  PROVE  AdapterInv'
<1> USE AdapterAssumption
<1> DEFINE now == registered \ {observer[t]}
<1>1. /\ at[t] = "remove" /\ owner = t /\ ~(entry[t] <= Len(observers))
      /\ Register(now) /\ registered' = now
      /\ at' = [at EXCEPT ![t] = "done"]
      /\ UNCHANGED <<observers, owner, owned, observer, entry, temporary, active, notified>>
  BY DEF RemoveEnds, Holding, More, Register, adapter
<1>2. TypeOK /\ Placed(t) /\ Seen(t)
  BY <1>1 DEF AdapterInv, Placements, Scans
<1>3. at'[t] = "done" /\ Only(t) /\ OwnerStep(t)
  BY <1>1, <1>2 DEF TypeOK, Only, OwnerStep
<1>4. TypeOK'
  <2>1. now \in SUBSET Observers
    BY <1>2 DEF TypeOK
  <2>2. sometime' \in [Threads -> SUBSET Observers] /\ always' \in [Threads -> SUBSET Observers]
    BY <1>1, <1>2, <2>1 DEF Register, TypeOK
  <2>3. QED
    BY <1>1, <1>2, <2>1, <2>2 DEF TypeOK, Locations
<1>5. Placements'
  <2>1. Placed(t)'
    BY <1>1, <1>2, <1>3 DEF Placed, Inside
  <2>2. QED
    BY <1>3, <2>1, PlacedStep DEF AdapterInv
<1>6. Scans'
  <2>1. Seen(t)'
    BY <1>3 DEF Seen
  <2>2. QED
    BY <1>1, <1>3, <2>1, SeenStep DEF AdapterInv
<1>7. Registry'
  <2>1. Falls
    BY <1>1, Mortal
  <2>2. SUFFICES ASSUME NEW o \in Observers, Alive(o)
                 PROVE  /\ \A i, j \in 1 .. Len(observers') :
                             observers'[i] = o /\ observers'[j] = o => i = j
                        /\ InList(o)' => o \in registered'
                        /\ o \in registered' => InList(o)'
    BY <2>1 DEF Registry, Recorded, Falls
  <2>3. /\ \A i, j \in 1 .. Len(observers) : observers[i] = o /\ observers[j] = o => i = j
        /\ InList(o) => o \in registered
        /\ o \in registered => InList(o) \/ o = observer[t]
    BY <1>1, <2>2 DEF AdapterInv, Registry, Recorded, Removing
  <2>4. o = observer[t] => ~InList(o)
    <3>1. entry[t] = Len(observers) + 1 /\ Len(observers) \in Nat
      BY <1>1, <1>2, LenProperties DEF Seen, TypeOK
    <3>2. QED
      BY <1>1, <1>2, <3>1 DEF Seen, InList
  <2>5. InList(o)' <=> InList(o)
    BY <1>1 DEF InList
  <2>6. QED
    BY <1>1, <2>3, <2>4, <2>5
<1>8. Memories' /\ Exports'
  <2>1. \A u \in Threads : at'[u] \in {"export", "notify"} => at'[u] = at[u]
    BY <1>3 DEF Only
  <2>2. /\ Memories'
        /\ \A u \in Threads : at[u] # "export" =>
             sometime'[u] = sometime[u] /\ always'[u] = always[u]
    BY <1>1, <1>2, <2>1, MemoriesFollow DEF AdapterInv
  <2>3. Exports'
    BY <1>1, <2>1, <2>2, ExportsStay DEF AdapterInv
  <2>4. QED
    BY <2>2, <2>3
<1>9. QED
  BY <1>4, <1>5, <1>6, <1>7, <1>8 DEF AdapterInv

(* export_signal looks at an entry: it is kept, or expired and erased.     *)
LEMMA ExportLooksKeeps ==
  ASSUME AdapterInv, NEW t \in Threads, ExportLooks(t)
  PROVE  AdapterInv'
<1> USE AdapterAssumption
<1> DEFINE e == observers[entry[t]]
<1>1. /\ at[t] = "export" /\ owner = t /\ entry[t] <= Len(observers)
      /\ UNCHANGED <<owner, owned, at, observer, temporary, notified,
                     registered, sometime, always>>
      /\ \/ /\ Expired(e)
            /\ observers' = RemoveAt(observers, entry[t]) /\ UNCHANGED <<entry, active>>
         \/ /\ ~Expired(e)
            /\ active' = [active EXCEPT ![t] = Append(@, e)]
            /\ entry' = [entry EXCEPT ![t] = @ + 1] /\ UNCHANGED observers
  BY DEF ExportLooks, Holding, More, Entry, history
<1>2. TypeOK /\ Placed(t) /\ Seen(t)
  BY <1>1 DEF AdapterInv, Placements, Scans
<1>3. /\ entry[t] \in Nat \ {0} /\ Len(observers) \in Nat /\ entry[t] \in 1 .. Len(observers)
      /\ e \in Observers \cup {Null}
  <2>1. entry[t] \in 1 .. Len(observers) /\ observers \in Seq(Observers \cup {Null})
    BY <1>1, <1>2, LenProperties DEF TypeOK
  <2>2. QED
    BY <1>2, <2>1, ElementOfSeq, LenProperties DEF TypeOK
<1>4. CASE /\ Expired(e)
           /\ observers' = RemoveAt(observers, entry[t]) /\ UNCHANGED <<entry, active>>
  <2>1. Falls
    BY <1>1, <1>4, Mortal
  <2>2. \A o \in Observers : Alive(o) /\ e = o => Removing(o)
    BY <1>4 DEF Expired
  <2>3. Registry'
    BY <1>1, <1>2, <1>3, <1>4, <2>1, <2>2, ErasedRegistry DEF AdapterInv
  <2>4. Seen(t)' /\ observers' \in Seq(Observers \cup {Null})
    BY <1>1, <1>2, <1>4, ErasedSeen
  <2>5. TypeOK' /\ Only(t) /\ OwnerStep(t)
    BY <1>1, <1>2, <1>4, <2>4 DEF TypeOK, Only, OwnerStep
  <2>6. Scans'
    BY <1>1, <2>4, <2>5, SeenStep DEF AdapterInv
  <2>7. Placements'
    BY <1>1, <1>4 DEF AdapterInv, Placements, Placed
  <2>8. Memories' /\ Exports'
    BY <1>1, <1>4, MemoriesStay, ExportsStay DEF AdapterInv
  <2>9. QED
    BY <2>3, <2>5, <2>6, <2>7, <2>8 DEF AdapterInv
<1>5. CASE /\ ~Expired(e)
           /\ active' = [active EXCEPT ![t] = Append(@, e)]
           /\ entry' = [entry EXCEPT ![t] = @ + 1] /\ UNCHANGED observers
  <2>1. e \in Observers /\ Alive(e) /\ active[t] \in Seq(Observers)
    BY <1>2, <1>3, <1>5 DEF Expired, TypeOK
  <2>2. /\ Append(active[t], e) \in Seq(Observers)
        /\ Len(Append(active[t], e)) = Len(active[t]) + 1
        /\ \A i \in 1 .. Len(active[t]) : Append(active[t], e)[i] = active[t][i]
        /\ Append(active[t], e)[Len(active[t]) + 1] = e
        /\ Len(active[t]) \in Nat
    BY <2>1, AppendProperties, LenProperties
  <2>3. TypeOK'
    BY <1>1, <1>2, <1>5, <2>2 DEF TypeOK
  <2>4. Only(t) /\ entry'[t] = entry[t] + 1 /\ active'[t] = Append(active[t], e)
    BY <1>1, <1>2, <1>5 DEF TypeOK, Only
  <2>5. Falls
    <3>1. DOMAIN active'[t] = 1 .. Len(active[t]) + 1 /\ DOMAIN active[t] = 1 .. Len(active[t])
      BY <2>1, <2>2, <2>4, LenProperties
    <3>2. \A o \in ToSet(active'[t]) : o \in ToSet(active[t]) \/ o = e
      <4>1. SUFFICES ASSUME NEW i \in 1 .. Len(active[t]) + 1
                     PROVE  active'[t][i] \in ToSet(active[t]) \/ active'[t][i] = e
        BY <3>1 DEF ToSet
      <4>2. i \in 1 .. Len(active[t]) \/ i = Len(active[t]) + 1
        BY <2>2
      <4>3. QED
        BY <2>2, <2>4, <3>1, <4>2 DEF ToSet
    <3>3. \A u \in Threads : \A o \in ToSet(active'[u]) : o \in ToSet(active[u]) \/ Alive(o)
      BY <2>1, <2>4, <3>2 DEF Only
    <3>4. QED
      BY <1>1, <3>3, Mortal
  <2>6. Placed(t)'
    BY <1>1, <1>2 DEF Placed
  <2>7. Seen(t)'
    <3>1. /\ Len(active[t]) = entry[t] - 1
          /\ \A i \in 1 .. entry[t] - 1 : active[t][i] = observers[i]
      BY <1>1, <1>2 DEF Seen
    <3>2. Len(active'[t]) = entry'[t] - 1
      BY <1>3, <2>2, <2>4, <3>1
    <3>3. \A i \in 1 .. entry'[t] - 1 : active'[t][i] = observers[i]
      <4>1. SUFFICES ASSUME NEW i \in 1 .. entry'[t] - 1
                     PROVE  active'[t][i] = observers[i]
        OBVIOUS
      <4>2. i \in 1 .. Len(active[t]) \/ i = entry[t]
        BY <1>3, <2>4, <3>1
      <4>3. QED
        BY <1>3, <2>2, <2>4, <3>1, <4>2
    <3>4. at'[t] = "export" /\ observers' = observers
      BY <1>1, <1>5
    <3>5. entry'[t] <= Len(observers) + 1
      BY <1>3, <2>4
    <3>6. QED
      BY <3>2, <3>3, <3>4, <3>5 DEF Seen
  <2>8. QED
    BY <1>1, <1>5, <2>3, <2>4, <2>5, <2>6, <2>7, InnerKeeps
<1>6. QED
  BY <1>1, <1>4, <1>5

-----------------------------------------------------------------------------
(* In the beginning the list is empty, nobody is registered and no call    *)
(* runs.                                                                   *)
LEMMA AdapterBegins == Init => AdapterInv
<1> SUFFICES ASSUME Init
             PROVE  AdapterInv
  OBVIOUS
<1> USE AdapterAssumption
<1>1. <<>> \in Seq(Observers) /\ <<>> \in Seq(Observers \cup {Null})
  OBVIOUS
<1>2. TypeOK
  BY <1>1 DEF Init, TypeOK, Locations
<1>3. Placements
  BY DEF Init, Placements, Placed
<1>4. Scans /\ Memories /\ Exports
  BY DEF Init, Scans, Memories, Remembered, Exports, Exported
<1>5. Registry
  <2>1. Len(observers) = 0 /\ registered = {}
    BY EmptySeq DEF Init
  <2>2. QED
    BY <2>1 DEF Registry, Recorded, InList
<1>6. QED
  BY <1>2, <1>3, <1>4, <1>5 DEF AdapterInv

(* Every step keeps the invariant.                                         *)
LEMMA AdapterGoesOn == AdapterInv /\ [Next]_vars => AdapterInv'
<1> SUFFICES ASSUME AdapterInv, [Next]_vars
             PROVE  AdapterInv'
  OBVIOUS
<1>1. ASSUME NEW t \in Threads, Step(t)
      PROVE  AdapterInv'
  BY <1>1, LockKeeps, ReturnKeeps, AddLooksKeeps, AddLocksKeeps, AddComparesKeeps,
     AddAppendsKeeps, RemoveLooksKeeps, RemoveEndsKeeps, ClearKeeps, ExportLooksKeeps,
     ExportUnlocksKeeps, NotifyKeeps
     DEF Step
<1>2. CASE UNCHANGED vars
  <2>1. UNCHANGED <<observers, owner, owned, at, observer, entry, temporary, active, notified,
                    registered, sometime, always>>
    BY <1>2 DEF vars, adapter, calls, history
  <2>2. TypeOK' /\ Placements' /\ Scans'
    BY <2>1 DEF AdapterInv, TypeOK, Placements, Placed, Scans, Seen
  <2>3. Falls
    BY <2>1, Mortal
  <2>4. Registry' /\ Memories' /\ Exports'
    BY <2>1, <2>3, RegistryStays, MemoriesStay, ExportsStay DEF AdapterInv
  <2>5. QED
    BY <2>2, <2>4 DEF AdapterInv
<1>3. QED
  BY <1>1, <1>2, CallKeeps, ReleaseKeeps DEF Next

(* The inductive invariant of the adapter.                                 *)
LEMMA AdapterInvariant == Spec => []AdapterInv
BY AdapterBegins, AdapterGoesOn, PTL DEF Spec

(* The type invariant.                                                     *)
THEOREM AdapterTypes == Spec => []TypeOK
<1>1. AdapterInv => TypeOK
  BY DEF AdapterInv
<1>2. QED
  BY <1>1, AdapterInvariant, PTL

(* Between two calls the list is the registry, for whoever is alive.       *)
THEOREM RegistryStands == Spec => []RegistryExact
<1>1. AdapterInv => RegistryExact
  <2>1. SUFFICES ASSUME AdapterInv, owner = Null, NEW o \in Observers, Alive(o)
                 PROVE  IF o \in registered
                        THEN \E i \in DOMAIN observers : Occurrences(o) = {i}
                        ELSE Occurrences(o) = {}
    BY DEF RegistryExact
  <2>2. ~Removing(o)
    BY <2>1, AdapterAssumption DEF Removing
  <2>3. /\ \A i, j \in 1 .. Len(observers) : observers[i] = o /\ observers[j] = o => i = j
        /\ InList(o) <=> o \in registered
    BY <2>1, <2>2 DEF AdapterInv, Registry, Recorded
  <2>4. DOMAIN observers = 1 .. Len(observers)
    BY <2>1, LenProperties DEF AdapterInv, TypeOK
  <2>5. QED
    BY <2>3, <2>4 DEF InList, Occurrences
<1>2. QED
  BY <1>1, AdapterInvariant, PTL

(* Every export calls who was there all the time, nobody who never was,    *)
(* and nobody twice.                                                       *)
THEOREM ExportsLinearize == Spec => []ExportLinearizable
<1>1. AdapterInv => ExportLinearizable
  BY DEF AdapterInv, Exports, Exported, ExportLinearizable
<1>2. QED
  BY <1>1, AdapterInvariant, PTL
=============================================================================
