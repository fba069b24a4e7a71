-------------------------- MODULE VulkanQueue_proofs --------------------------
(***************************************************************************)
(* Theorems about VulkanQueue for any threads, queues, families, encoders  *)
(* and submissions, and their proofs.                                      *)
(***************************************************************************)
EXTENDS VulkanQueue, PositionFacts, SequenceTheorems, TLAPS

Submission == [info : Infos, buffer : Encoders \cup {Null}, queue : Queues,
               vk_queue : Families, thread : Threads]

Submitting == {"build", "submit", "vkQueueSubmit", "record"}

(* The parts of VulkanTypeOK, and what else is needed of the types.        *)
Data ==
  /\ family \in [Queues -> Families \cup {NoFamily}]
  /\ mutex \in [Queues -> Threads \cup {NoThread}]
  /\ meta \in Seq(Submission)
  /\ outcome \in [Ids -> Outcomes]
  /\ pending \in [Queues -> Seq(Ids)]
  /\ processed \in [Queues -> Seq(Ids)]
  /\ handed \in [Families -> Seq(Ids)]
  /\ finished \in [Families -> Nat]
  /\ lost \in BOOLEAN
  /\ encoder \in [Encoders -> {"none", "recording", "finished", "dropped", "destroyed"}]
  /\ pc \in [Threads -> Places]
  /\ call \in [Threads -> [queue : Queues \cup {Null}, todo : Seq(Ids)]]

(* What exists of objects was made for a submission, which has a command   *)
(* buffer if it says so.                                                   *)
Made ==
  /\ \A o \in alive : o[1] \in Ids /\ o \in Objects(o[1])
  /\ \A i \in Ids : meta[i].info.command_buffer = "of Vulkan" => meta[i].buffer \in Encoders

(* Only the wait of a submission fails.                                    *)
FailedKnown == failed \subseteq Ids

(* A thread in a call is in a queue that exists, with something to do.     *)
Busy ==
  \A t \in Threads :
    /\ pc[t] # "idle" => call[t].queue \in Queues /\ family[call[t].queue] \in Families
    /\ pc[t] \in Submitting => call[t].todo # <<>>
    /\ pc[t] = "wait" => pending[call[t].queue] # <<>>

Held ==
  \A t \in Threads, g \in Queues :
    mutex[g] = t <=> pc[t] \in Holding /\ call[t].queue = g

Types == Data /\ Made /\ Busy /\ Held

-----------------------------------------------------------------------------
(* What a list of ids is after an append and without its head.             *)
LEMMA Lists ==
  \A n \in Nat : \A s \in Seq(1 .. n) :
    /\ \A x \in 1 .. n : Append(s, x) \in Seq(1 .. n) /\ Append(s, x) # <<>>
    /\ s # <<>> => Head(s) \in 1 .. n /\ Tail(s) \in Seq(1 .. n)
BY HeadTailProperties, EmptySeq, AppendProperties

(* A list of ids is one of the ids that are given out later.               *)
LEMMA Older == \A m, n \in Nat : m <= n => Seq(1 .. m) \subseteq Seq(1 .. n)
<1> SUFFICES ASSUME NEW m \in Nat, NEW n \in Nat, m <= n, NEW s \in Seq(1 .. m)
             PROVE  s \in Seq(1 .. n)
  OBVIOUS
<1>1. 1 .. m \subseteq 1 .. n
  OBVIOUS
<1>2. QED
  BY <1>1, SeqMonotonic

(* A function on the first n numbers is a sequence.                        *)
LEMMA Listing == \A n \in Nat : \A S : \A f \in [1 .. n -> S] : f \in Seq(S) /\ Len(f) = n
OBVIOUS

(* The length and the elements of a concatenation.                         *)
LEMMA Joined ==
  \A S : \A s, u \in Seq(S) :
    /\ s \o u \in Seq(S) /\ Len(s \o u) = Len(s) + Len(u)
    /\ \A i \in 1 .. Len(s) + Len(u) :
         (s \o u)[i] = IF i <= Len(s) THEN s[i] ELSE u[i - Len(s)]
BY ConcatProperties

(* The ids are the positions of meta.                                      *)
LEMMA IdsAre == Data => Len(meta) \in Nat /\ Ids = 1 .. Len(meta)
BY LenProperties DEF Data, Ids

(* The types hold initially.                                               *)
LEMMA TypesInit == VulkanInit => Types
<1> SUFFICES ASSUME VulkanInit PROVE Types
  OBVIOUS
<1>1. meta = <<>> /\ outcome = <<>> /\ Ids = {} /\ <<>> \in Seq(Ids)
  BY EmptySeq DEF VulkanInit, Ids
<1>2. meta \in Seq(Submission)
  BY <1>1, EmptySeq
<1>3. outcome \in [Ids -> Outcomes]
  BY <1>1
<1>4. Data
  BY <1>1, <1>2, <1>3 DEF VulkanInit, Data, NoCall, Places
<1>5. Made /\ Busy /\ Held
  BY <1>1, VulkanAssumption DEF VulkanInit, Made, Busy, Held, Submitting, Holding
<1>6. QED
  BY <1>4, <1>5 DEF Types

(* Thread t enters queue g with n submissions, whose ids are the next n.   *)
Grown(t, g, n) ==
  /\ meta' \in Seq(Submission) /\ Len(meta') = Len(meta) + n
  /\ \A i \in Ids : i \in Ids' /\ meta'[i] = meta[i]
  /\ \A i \in Ids' \ Ids :
       /\ meta'[i].queue = g /\ meta'[i].thread = t /\ meta'[i].vk_queue = family[g]
       /\ meta'[i].buffer \in BufferOf(meta'[i].info)
  /\ outcome' \in [Ids' -> Outcomes]
  /\ call' = [call EXCEPT ![t] =
                [queue |-> g, todo |-> [k \in 1 .. n |-> Len(meta) + k]]]
  /\ [k \in 1 .. n |-> Len(meta) + k] \in Seq(Ids')
  /\ pc[t] = "idle" /\ pc' = [pc EXCEPT ![t] = "build"]
  /\ UNCHANGED <<lists, alive, gpu, encoder>>

(* A batch adds its submissions to meta and outcome and changes nothing    *)
(* else there.                                                             *)
LEMMA BatchGrows ==
  ASSUME Data, NEW t \in Threads, NEW g \in Queues, SubmitBatch(t, g), family[g] \in Families
  PROVE  \E n \in 1 .. MaxItems : Grown(t, g, n)
<1>1. PICK n \in 1 .. MaxItems :
        /\ Call(t, g, "build", [k \in 1 .. n |-> Len(meta) + k])
        /\ \E info \in [1 .. n -> Infos], buffer \in [1 .. n -> Encoders \cup {Null}] :
             /\ \A k \in 1 .. n : buffer[k] \in BufferOf(info[k])
             /\ meta' = meta \o [k \in 1 .. n |->
                           [info |-> info[k], buffer |-> buffer[k], queue |-> g,
                            vk_queue |-> family[g], thread |-> t]]
        /\ outcome' = outcome \o [k \in 1 .. n |-> "not run"]
  BY DEF SubmitBatch
<1>2. PICK info \in [1 .. n -> Infos], buffer \in [1 .. n -> Encoders \cup {Null}] :
        /\ \A k \in 1 .. n : buffer[k] \in BufferOf(info[k])
        /\ meta' = meta \o [k \in 1 .. n |->
                      [info |-> info[k], buffer |-> buffer[k], queue |-> g,
                       vk_queue |-> family[g], thread |-> t]]
  BY <1>1
<1>3. n \in Nat /\ Len(meta) \in Nat /\ meta \in Seq(Submission) /\ Ids = 1 .. Len(meta)
  <2>1. n \in Nat
    <3>1. MaxItems \in Nat
      BY VulkanAssumption
    <3>2. QED
      BY <3>1
  <2>2. meta \in Seq(Submission)
    BY DEF Data
  <2>3. QED
    BY <2>1, <2>2, IdsAre
<1> DEFINE new == [k \in 1 .. n |-> [info |-> info[k], buffer |-> buffer[k], queue |-> g,
                                     vk_queue |-> family[g], thread |-> t]]
<1>4. new \in Seq(Submission) /\ Len(new) = n
  <2>1. ASSUME NEW k \in 1 .. n
        PROVE  [info |-> info[k], buffer |-> buffer[k], queue |-> g,
                vk_queue |-> family[g], thread |-> t] \in Submission
    <3>1. info[k] \in Infos /\ buffer[k] \in Encoders \cup {Null}
      OBVIOUS
    <3>2. QED
      BY <3>1 DEF Submission
  <2>2. new \in [1 .. n -> Submission]
    BY <2>1
  <2>3. QED
    <3> HIDE DEF new
    <3> QED BY <2>2, <1>3, Listing
<1>5. /\ meta' \in Seq(Submission) /\ Len(meta') = Len(meta) + n
      /\ \A i \in 1 .. Len(meta) + n :
           meta'[i] = IF i <= Len(meta) THEN meta[i] ELSE new[i - Len(meta)]
  <2> HIDE DEF new
  <2>1. meta' = meta \o new
    BY <1>2 DEF new
  <2>2. QED
    BY <2>1, <1>3, <1>4, Joined
<1>6. Ids' = 1 .. Len(meta) + n
  <2>1. DOMAIN meta' = 1 .. Len(meta')
    BY <1>5, LenProperties
  <2>2. QED
    BY <2>1, <1>5 DEF Ids
<1>7. \A i \in Ids : i \in Ids' /\ meta'[i] = meta[i]
  <2> HIDE DEF new
  <2> SUFFICES ASSUME NEW i \in 1 .. Len(meta)
               PROVE  i \in 1 .. Len(meta) + n /\ meta'[i] = meta[i]
    BY <1>3, <1>6
  <2>1. i \in 1 .. Len(meta) + n /\ i <= Len(meta)
    BY <1>3
  <2>2. QED
    BY <1>5, <2>1
<1>8. \A i \in Ids' \ Ids : meta'[i] = new[i - Len(meta)] /\ i - Len(meta) \in 1 .. n
  <2> HIDE DEF new
  <2> QED BY <1>3, <1>5, <1>6
<1>9. \A i \in Ids' \ Ids :
        /\ meta'[i].queue = g /\ meta'[i].thread = t /\ meta'[i].vk_queue = family[g]
        /\ meta'[i].buffer \in BufferOf(meta'[i].info)
  <2> SUFFICES ASSUME NEW i \in Ids' \ Ids
               PROVE  /\ meta'[i].queue = g /\ meta'[i].thread = t
                      /\ meta'[i].vk_queue = family[g]
                      /\ meta'[i].buffer \in BufferOf(meta'[i].info)
    OBVIOUS
  <2>1. PICK k \in 1 .. n : meta'[i] = new[k]
    <3> HIDE DEF new
    <3> QED BY <1>8
  <2>2. meta'[i] = [info |-> info[k], buffer |-> buffer[k], queue |-> g,
                    vk_queue |-> family[g], thread |-> t]
    BY <2>1
  <2>3. QED
    BY <2>2, <1>2
<1>10. outcome' \in [Ids' -> Outcomes]
  <2> DEFINE fresh == [k \in 1 .. n |-> "not run"]
  <2>1. fresh \in Seq(Outcomes) /\ Len(fresh) = n
    <3>1. fresh \in [1 .. n -> Outcomes]
      BY DEF Outcomes
    <3>2. QED
      <4> HIDE DEF fresh
      <4> QED BY <3>1, <1>3, Listing
  <2>2. outcome \in Seq(Outcomes) /\ Len(outcome) = Len(meta)
    BY <1>3, Listing DEF Data
  <2>3. outcome' = outcome \o fresh
    BY <1>1
  <2>4. outcome' \in Seq(Outcomes) /\ Len(outcome') = Len(meta) + n
    <3> HIDE DEF fresh, new
    <3>1. /\ outcome \o fresh \in Seq(Outcomes)
          /\ Len(outcome \o fresh) = Len(outcome) + Len(fresh)
      BY <2>1, <2>2, Joined
    <3>2. QED
      BY <3>1, <2>1, <2>2, <2>3
  <2>5. outcome' \in [1 .. Len(meta) + n -> Outcomes]
    BY <2>4, LenProperties
  <2>6. QED
    BY <2>5, <1>6
<1>11. [k \in 1 .. n |-> Len(meta) + k] \in Seq(Ids')
  <2>1. [k \in 1 .. n |-> Len(meta) + k] \in [1 .. n -> 1 .. Len(meta) + n]
    BY <1>3
  <2>2. QED
    BY <2>1, <1>3, <1>6, Listing
<1>12. /\ call' = [call EXCEPT ![t] =
                     [queue |-> g, todo |-> [k \in 1 .. n |-> Len(meta) + k]]]
       /\ pc[t] = "idle" /\ pc' = [pc EXCEPT ![t] = "build"]
       /\ UNCHANGED <<lists, alive, gpu, encoder>>
  BY <1>1 DEF Call, Goto
<1>13. QED
  BY <1>5, <1>7, <1>9, <1>10, <1>11, <1>12 DEF Grown

(* A step that gives out no ids and makes no objects keeps Made.           *)
LEMMA MadeKept == Made /\ meta' = meta /\ alive' \subseteq alive => Made'
BY DEF Made, Ids, Objects, FirstObjects, CountOf

(* Going to another place of a call, and returning from it, concern the    *)
(* thread alone.                                                           *)
LEMMA Going ==
  ASSUME Data, Ids' = Ids, NEW t \in Threads, NEW place \in Places, Goto(t, place)
  PROVE  /\ pc' \in [Threads -> Places] /\ pc'[t] = place
         /\ \A u \in Threads \ {t} : pc'[u] = pc[u]
BY DEF Goto, Data

(* The same of a call that returns, after which the thread has none.       *)
LEMMA Returning ==
  ASSUME Data, Ids' = Ids, NEW t \in Threads, Return(t)
  PROVE  /\ pc' \in [Threads -> Places] /\ pc'[t] = "idle" /\ call'[t] = NoCall
         /\ call' \in [Threads -> [queue : Queues \cup {Null}, todo : Seq(Ids')]]
         /\ \A u \in Threads \ {t} : pc'[u] = pc[u] /\ call'[u] = call[u]
<1>1. NoCall \in [queue : Queues \cup {Null}, todo : Seq(Ids)]
  BY EmptySeq DEF NoCall
<1>2. call' = [call EXCEPT ![t] = NoCall] /\ Goto(t, "idle")
  BY DEF Return
<1>3. QED
  BY <1>1, <1>2, Going DEF Data, Places

(* A call that returns outside Vulkan leaves the mutexes as they are held. *)
LEMMA Quiet ==
  ASSUME Data, Busy, Held, Ids' = Ids, NEW t \in Threads, Return(t), pc[t] \notin Holding,
         UNCHANGED <<family, mutex>>,
         \A g \in Queues : pending[g] # <<>> => pending'[g] # <<>>
  PROVE  Busy' /\ Held'
<1>1. /\ pc'[t] = "idle"
      /\ \A u \in Threads \ {t} : pc'[u] = pc[u] /\ call'[u] = call[u]
  BY Returning
<1>2. Busy'
  <2> SUFFICES ASSUME NEW u \in Threads \ {t}
               PROVE  /\ pc'[u] # "idle" =>
                           call'[u].queue \in Queues /\ family'[call'[u].queue] \in Families
                      /\ pc'[u] \in Submitting => call'[u].todo # <<>>
                      /\ pc'[u] = "wait" => pending'[call'[u].queue] # <<>>
    BY <1>1 DEF Busy, Submitting
  <2>1. pc'[u] = pc[u] /\ call'[u] = call[u]
    BY <1>1
  <2>2. QED
    BY <2>1 DEF Busy
<1>3. Held'
  <2> SUFFICES ASSUME NEW u \in Threads, NEW g \in Queues
               PROVE  mutex'[g] = u <=> pc'[u] \in Holding /\ call'[u].queue = g
    BY DEF Held
  <2>1. CASE u = t
    BY <1>1, <2>1 DEF Held, Holding
  <2>2. CASE u # t
    BY <1>1, <2>2 DEF Held
  <2>3. QED
    BY <2>1, <2>2
<1>4. QED
  BY <1>2, <1>3

(* Every step keeps the types.                                             *)
LEMMA TypesStep == Types /\ [VulkanNext]_vulkanVars => Types'
<1> SUFFICES ASSUME Data, Made, Busy, Held, [VulkanNext]_vulkanVars
             PROVE  Data' /\ Made' /\ Busy' /\ Held'
  BY DEF Types
<1>n. Len(meta) \in Nat /\ Ids = 1 .. Len(meta)
  BY IdsAre
<1>s. meta' = meta => Ids' = Ids /\ \A i \in Ids : Objects(i)' = Objects(i)
  BY DEF Ids, Objects, FirstObjects, CountOf
<1>0. NoThread \notin Threads /\ NoFamily \notin Families
  BY VulkanAssumption
<1>i. \A t \in Threads : pc[t] \in Submitting =>
        /\ Item(t) \in Ids
        /\ Tail(call[t].todo) \in Seq(Ids)
  <2> SUFFICES ASSUME NEW t \in Threads, pc[t] \in Submitting
               PROVE  Item(t) \in Ids /\ Tail(call[t].todo) \in Seq(Ids)
    OBVIOUS
  <2>1. call[t].todo \in Seq(Ids) /\ call[t].todo # <<>>
    BY DEF Data, Busy
  <2>2. QED
    BY <2>1, <1>n, Lists DEF Item
<1>1. ASSUME NEW g \in Queues, NEW type \in DOMAIN FamilyOf, CreateQueue(g, type)
      PROVE  Data' /\ Made' /\ Busy' /\ Held'
  <2>1. meta' = meta /\ Ids' = Ids /\ UNCHANGED <<alive, mutex, pc, call, pending>>
    BY <1>1, <1>s DEF CreateQueue, lists, submissions, threads
  <2>2. family' \in [Queues -> Families \cup {NoFamily}] /\ family'[g] \in Families
    <3>1. FamilyOf[type] \in Families
      BY <1>1, VulkanAssumption DEF CreateQueue
    <3>2. QED
      BY <1>1, <3>1 DEF CreateQueue, Data
  <2>3. Data'
    BY <1>1, <2>1, <2>2 DEF CreateQueue, Data, submissions, gpu, threads
  <2>4. Made'
    BY <2>1, MadeKept
  <2>5. Busy'
    <3>1. \A h \in Queues : family[h] \in Families => family'[h] \in Families
      BY <1>1, <2>2 DEF CreateQueue, Data
    <3>2. QED
      BY <2>1, <3>1 DEF Busy
  <2>6. Held'
    BY <2>1 DEF Held
  <2>7. QED
    BY <2>3, <2>4, <2>5, <2>6
<1>2. ASSUME NEW g \in Queues, DestroyQueue(g)
      PROVE  Data' /\ Made' /\ Busy' /\ Held'
  <2>1. /\ meta' = meta /\ Ids' = Ids /\ UNCHANGED <<mutex, pc, call>>
        /\ alive' \subseteq alive
        /\ family' = [family EXCEPT ![g] = NoFamily]
        /\ pending' = [pending EXCEPT ![g] = <<>>]
        /\ \A t \in Threads : pc[t] # "idle" => call[t].queue # g
    BY <1>2, <1>s DEF DestroyQueue, threads
  <2>2. <<>> \in Seq(Ids)
    BY EmptySeq
  <2>3. Data'
    BY <1>2, <2>1, <2>2 DEF DestroyQueue, Data, gpu, threads
  <2>4. Made'
    BY <2>1, MadeKept
  <2>5. Busy'
    <3> SUFFICES ASSUME NEW t \in Threads, pc[t] # "idle"
                 PROVE  /\ call[t].queue \in Queues /\ family'[call[t].queue] \in Families
                        /\ pending'[call[t].queue] = pending[call[t].queue]
      BY <2>1 DEF Busy, Submitting
    <3>1. call[t].queue \in Queues /\ family[call[t].queue] \in Families
      BY DEF Busy
    <3>2. QED
      BY <2>1, <3>1 DEF Data
  <2>6. Held'
    BY <2>1 DEF Held
  <2>7. QED
    BY <2>3, <2>4, <2>5, <2>6
<1>3. ASSUME NEW e \in Encoders, CreateEncoder(e) \/ FinishEncoder(e) \/ DestroyEncoder(e)
      PROVE  Data' /\ Made' /\ Busy' /\ Held'
  <2>1. /\ meta' = meta /\ Ids' = Ids
        /\ UNCHANGED <<family, mutex, pending, processed, outcome, alive, handed, finished,
                       lost, pc, call>>
        /\ encoder' \in [Encoders -> {"none", "recording", "finished", "dropped", "destroyed"}]
    BY <1>3, <1>s DEF CreateEncoder, FinishEncoder, DestroyEncoder, lists, submissions, gpu,
                      threads, Data
  <2>2. Data'
    BY <2>1 DEF Data
  <2>3. Made'
    BY <2>1, MadeKept
  <2>4. Busy' /\ Held'
    BY <2>1 DEF Busy, Held
  <2>5. QED
    BY <2>2, <2>3, <2>4
<1>4. ASSUME NEW t \in Threads, NEW g \in Queues, SubmitBatch(t, g)
      PROVE  Data' /\ Made' /\ Busy' /\ Held'
  <2>1. family[g] \in Families
    BY <1>4 DEF SubmitBatch, Call, Data
  <2>2. PICK n \in 1 .. MaxItems : Grown(t, g, n)
    BY <1>4, <2>1, BatchGrows
  <2> USE DEF Grown
  <2> DEFINE ids == [k \in 1 .. n |-> Len(meta) + k]
  <2>3. Seq(Ids) \subseteq Seq(Ids')
    <3>1. Len(meta') \in Nat /\ Ids' = 1 .. Len(meta')
      BY <2>2, LenProperties DEF Ids
    <3>2. n \in Nat
      <4>1. MaxItems \in Nat
        BY VulkanAssumption
      <4>2. QED
        BY <4>1
    <3>3. QED
      BY <1>n, <2>2, <3>1, <3>2, Older
  <2>4. call' \in [Threads -> [queue : Queues \cup {Null}, todo : Seq(Ids')]]
    <3> HIDE DEF ids
    <3>1. [queue |-> g, todo |-> ids] \in [queue : Queues \cup {Null}, todo : Seq(Ids')]
      BY <2>2 DEF ids
    <3>2. call \in [Threads -> [queue : Queues \cup {Null}, todo : Seq(Ids')]]
      BY <2>3 DEF Data
    <3>3. call' = [call EXCEPT ![t] = [queue |-> g, todo |-> ids]]
      BY <2>2 DEF ids
    <3>4. QED
      BY <3>1, <3>2, <3>3
  <2>5. pc' \in [Threads -> Places]
    BY <2>2 DEF Data, Places
  <2>6. UNCHANGED <<family, mutex, pending, processed, alive, handed, finished, lost, encoder>>
    BY <2>2 DEF lists, gpu
  <2>7. Data'
    <3> HIDE DEF ids
    <3>1. /\ pending \in [Queues -> Seq(Ids')] /\ processed \in [Queues -> Seq(Ids')]
          /\ handed \in [Families -> Seq(Ids')]
      BY <2>3 DEF Data
    <3>2. QED
      BY <2>2, <2>4, <2>5, <2>6, <3>1 DEF Data
  <2>8. Made'
    <3>1. \A i \in Ids : Objects(i)' = Objects(i)
      BY <2>2 DEF Objects, FirstObjects, CountOf
    <3>2. \A o \in alive' : o[1] \in Ids' /\ o \in Objects(o[1])'
      BY <2>2, <2>6, <3>1 DEF Made
    <3>3. \A i \in Ids' : meta'[i].info.command_buffer = "of Vulkan" => meta'[i].buffer \in Encoders
      <4> SUFFICES ASSUME NEW i \in Ids', meta'[i].info.command_buffer = "of Vulkan"
                   PROVE  meta'[i].buffer \in Encoders
        OBVIOUS
      <4>1. CASE i \in Ids
        BY <4>1, <2>2 DEF Made
      <4>2. CASE i \notin Ids
        <5>1. meta'[i].buffer \in BufferOf(meta'[i].info)
          BY <4>2, <2>2
        <5>2. QED
          BY <5>1 DEF BufferOf
      <4>3. QED
        BY <4>1, <4>2
    <3>4. QED
      BY <3>2, <3>3 DEF Made
  <2>9. call'[t].queue = g /\ call'[t].todo # <<>> /\ pc'[t] = "build"
    <3>1. call'[t] = [queue |-> g, todo |-> ids]
      <4> HIDE DEF ids
      <4> QED BY <2>2 DEF Data, ids
    <3>2. ids # <<>>
      <4>1. 1 \in DOMAIN ids
        OBVIOUS
      <4> HIDE DEF ids
      <4> QED BY <4>1
    <3>3. QED
      <4> HIDE DEF ids
      <4> QED BY <2>2, <3>1, <3>2 DEF Data
  <2>10. \A u \in Threads \ {t} : call'[u] = call[u] /\ pc'[u] = pc[u]
    <3> HIDE DEF ids
    <3>1. call' = [call EXCEPT ![t] = [queue |-> g, todo |-> ids]]
      BY <2>2 DEF ids
    <3>2. QED
      BY <3>1, <2>2 DEF Data
  <2>11. Busy'
    BY <2>1, <2>6, <2>9, <2>10 DEF Busy
  <2>12. Held'
    <3>1. "idle" \notin Holding /\ "build" \notin Holding /\ pc[t] = "idle"
      BY <2>2 DEF Holding
    <3>2. QED
      BY <2>6, <2>9, <2>10, <3>1 DEF Held
  <2>13. QED
    BY <2>7, <2>8, <2>11, <2>12
<1>5. ASSUME NEW t \in Threads, NEW g \in Queues,
             ProcessNextSubmission(t, g) \/ SubmissionCount(t, g)
      PROVE  Data' /\ Made' /\ Busy' /\ Held'
  <2>1. PICK place \in {"process", "count"} :
          Call(t, g, place, <<>>) /\ UNCHANGED <<meta, outcome>>
    BY <1>5 DEF ProcessNextSubmission, SubmissionCount
  <2>2. /\ UNCHANGED <<meta, outcome, family, mutex, pending, processed, alive, handed, finished,
                       lost, encoder>>
        /\ Ids' = Ids /\ pc[t] = "idle" /\ family[g] \in Families
        /\ Goto(t, place) /\ call' = [call EXCEPT ![t] = [queue |-> g, todo |-> <<>>]]
    BY <2>1, <1>s DEF Call, lists, gpu, Data
  <2>3. /\ pc' \in [Threads -> Places] /\ pc'[t] = place
        /\ \A u \in Threads \ {t} : pc'[u] = pc[u]
    BY <2>2, Going DEF Places
  <2>4. /\ call' \in [Threads -> [queue : Queues \cup {Null}, todo : Seq(Ids')]]
        /\ call'[t].queue = g
        /\ \A u \in Threads \ {t} : call'[u] = call[u]
    BY <2>2, EmptySeq DEF Data
  <2>5. Data' /\ Made'
    BY <2>2, <2>3, <2>4, MadeKept DEF Data
  <2>6. Busy'
    BY <2>2, <2>3, <2>4 DEF Busy, Submitting
  <2>7. Held'
    BY <2>2, <2>3, <2>4 DEF Held, Holding
  <2>8. QED
    BY <2>5, <2>6, <2>7
<1>6. ASSUME NEW t \in Threads, BuildSyncObjects(t)
      PROVE  Data' /\ Made' /\ Busy' /\ Held'
  <2> DEFINE i == Item(t)
  <2>1. /\ UNCHANGED <<family, mutex, pending, processed, meta, handed, finished, lost, encoder>>
        /\ pc[t] = "build" /\ Ids' = Ids
    BY <1>6, <1>s DEF BuildSyncObjects, lists, gpu
  <2>2. i \in Ids /\ CountOf(meta[i].info) \in Nat
    <3>1. i \in Ids
      BY <1>i, <2>1 DEF Submitting
    <3>2. meta[i].info.signals \in Nat
      <4>1. meta[i] \in Submission
        BY <3>1 DEF Data, Ids
      <4>2. meta[i].info \in Infos
        BY <4>1 DEF Submission
      <4>3. QED
        BY <4>2, VulkanAssumption
    <3>3. QED
      BY <3>1, <3>2 DEF CountOf
  <2>3. \E k \in 0 .. CountOf(meta[i].info), code \in Outcomes :
          /\ alive' = alive \cup FirstObjects(i, k)
          /\ outcome' = [outcome EXCEPT ![i] = code]
          /\ Return(t) \/ (Goto(t, "submit") /\ call' = call)
    <3> HIDE DEF i
    <3>1. CountOf(meta[i].info) \in Nat
      BY <2>2
    <3> DEFINE count == CountOf(meta[i].info)
               Make(k, code) == /\ alive' = alive \cup FirstObjects(i, k)
                                /\ outcome' = [outcome EXCEPT ![i] = code]
    <3>2. 0 \in 0 .. count /\ count \in 0 .. count /\ 0 .. count - 1 \subseteq 0 .. count
      <4> HIDE DEF count
      <4> QED BY <3>1 DEF count
    <3>3. \/ Make(0, "SyncUnresolved") /\ Return(t)
          \/ (\E k \in 0 .. count - 1 : Make(k, Incomplete(meta[i].info, k))) /\ Return(t)
          \/ Make(count, "SyncUnresolved") /\ Return(t)
          \/ Make(count, "InvalidArgument") /\ Return(t)
          \/ Make(count, "underway") /\ Goto(t, "submit") /\ call' = call
      BY <1>6 DEF BuildSyncObjects, i
    <3>4. \A k : Incomplete(meta[i].info, k) \in Outcomes
      BY DEF Incomplete, Outcomes
    <3>5. {"SyncUnresolved", "InvalidArgument", "underway"} \subseteq Outcomes
      BY DEF Outcomes
    <3>6. QED
      <4> HIDE DEF count
      <4>1. \E k \in 0 .. count, code \in Outcomes :
              Make(k, code) /\ (Return(t) \/ (Goto(t, "submit") /\ call' = call))
        <5> HIDE DEF Make
        <5> QED BY <3>2, <3>3, <3>4, <3>5
      <4>2. QED
        BY <4>1 DEF count
  <2>4. PICK k \in 0 .. CountOf(meta[i].info), code \in Outcomes :
          /\ alive' = alive \cup FirstObjects(i, k)
          /\ outcome' = [outcome EXCEPT ![i] = code]
          /\ Return(t) \/ (Goto(t, "submit") /\ call' = call)
    BY <2>3
  <2>5. outcome' \in [Ids' -> Outcomes]
    BY <2>1, <2>4 DEF Data
  <2>6. \A o \in FirstObjects(i, k) : o[1] = i /\ o \in Objects(o[1])
    <3> HIDE DEF i
    <3> QED BY <2>2 DEF FirstObjects, Objects
  <2>7. Made'
    BY <2>1, <2>2, <2>4, <2>6, <1>s DEF Made
  <2>8. CASE Return(t)
    <3>1. Data'
      BY <2>1, <2>5, <2>8, Returning DEF Data
    <3>2. Busy' /\ Held'
      BY <2>1, <2>8, Quiet DEF Holding
    <3>3. QED
      BY <3>1, <3>2, <2>7
  <2>9. CASE Goto(t, "submit") /\ call' = call
    <3>1. Data'
      BY <2>1, <2>5, <2>9, Going DEF Data, Places
    <3>2. Busy' /\ Held'
      BY <2>1, <2>9, Going DEF Busy, Held, Submitting, Holding, Places
    <3>3. QED
      BY <3>1, <3>2, <2>7
  <2>10. QED
    BY <2>4, <2>8, <2>9
<1>7. ASSUME NEW t \in Threads, EnterVkQueueSubmit(t)
      PROVE  Data' /\ Made' /\ Busy' /\ Held'
  <2>1. /\ UNCHANGED <<family, pending, processed, meta, outcome, alive, handed, finished, lost,
                       encoder, call>>
        /\ pc[t] = "submit" /\ Ids' = Ids /\ Goto(t, "vkQueueSubmit")
        /\ Lock(t, call[t].queue) /\ call[t].queue \in Queues
    BY <1>7, <1>s DEF EnterVkQueueSubmit, submissions, gpu, Busy
  <2>2. Data'
    BY <2>1, Going DEF Data, Places, Lock
  <2>3. Made' /\ Busy'
    BY <2>1, Going, MadeKept DEF Busy, Submitting, Places
  <2>4. Held'
    BY <2>1, <1>0, Going DEF Held, Holding, Places, Lock, Data
  <2>5. QED
    BY <2>2, <2>3, <2>4
<1>8. ASSUME NEW t \in Threads, VkQueueSubmitSucceeds(t)
      PROVE  Data' /\ Made' /\ Busy' /\ Held'
  <2>1. /\ UNCHANGED <<family, pending, processed, meta, outcome, alive, finished, lost,
                       encoder, call>>
        /\ pc[t] = "vkQueueSubmit" /\ Ids' = Ids /\ Goto(t, "record")
        /\ mutex' = [mutex EXCEPT ![call[t].queue] = NoThread]
        /\ handed' = [handed EXCEPT ![family[call[t].queue]] = Append(@, Item(t))]
        /\ call[t].queue \in Queues /\ family[call[t].queue] \in Families
    BY <1>8, <1>s DEF VkQueueSubmitSucceeds, submissions, gpu, Busy, Unlock
  <2>2. handed' \in [Families -> Seq(Ids')]
    <3>1. Item(t) \in Ids
      BY <1>i, <2>1 DEF Submitting
    <3>2. \A s \in Seq(Ids) : Append(s, Item(t)) \in Seq(Ids)
      BY <3>1, <1>n, Lists
    <3>3. QED
      BY <2>1, <3>2 DEF Data
  <2>3. Data'
    BY <2>1, <2>2, Going DEF Data, Places
  <2>4. Made' /\ Busy'
    BY <2>1, Going, MadeKept DEF Busy, Submitting, Places
  <2>5. Held'
    BY <2>1, <1>0, Going DEF Held, Holding, Places, Data
  <2>6. QED
    BY <2>3, <2>4, <2>5
<1>9. ASSUME NEW t \in Threads, VkQueueSubmitFails(t)
      PROVE  Data' /\ Made' /\ Busy' /\ Held'
  <2>1. /\ UNCHANGED <<family, pending, processed, meta, alive, handed, finished, lost, encoder>>
        /\ pc[t] = "vkQueueSubmit" /\ Ids' = Ids /\ Return(t)
        /\ mutex' = [mutex EXCEPT ![call[t].queue] = NoThread]
        /\ outcome' = [outcome EXCEPT ![Item(t)] = "InternalFailure"]
        /\ call[t].queue \in Queues
    BY <1>9, <1>s DEF VkQueueSubmitFails, gpu, Busy, Unlock
  <2>2. Data' /\ Made' /\ Busy'
    BY <2>1, MadeKept, Returning DEF Data, Busy, Submitting, Outcomes
  <2>3. Held'
    <3>1. /\ pc'[t] \notin Holding /\ pc[t] \in Holding
          /\ \A u \in Threads \ {t} : pc'[u] = pc[u] /\ call'[u] = call[u]
      BY <2>1, Returning DEF Holding
    <3>2. \A h \in Queues : mutex'[h] = t <=> pc'[t] \in Holding /\ call'[t].queue = h
      <4>1. \A h \in Queues : mutex[h] = t => call[t].queue = h
        BY DEF Held
      <4>2. QED
        BY <2>1, <1>0, <3>1, <4>1 DEF Data
    <3>3. ASSUME NEW u \in Threads \ {t}, NEW h \in Queues
          PROVE  mutex'[h] = u <=> pc'[u] \in Holding /\ call'[u].queue = h
      <4>1. mutex[call[t].queue] = t
        BY <2>1, <3>1 DEF Held
      <4>2. mutex'[h] = u <=> mutex[h] = u
        BY <2>1, <1>0, <4>1 DEF Data
      <4>3. QED
        BY <3>1, <4>2 DEF Held
    <3>4. QED
      BY <3>2, <3>3 DEF Held
  <2>4. QED
    BY <2>2, <2>3
<1>10. ASSUME NEW t \in Threads, RecordPending(t)
       PROVE  Data' /\ Made' /\ Busy' /\ Held'
  <2> DEFINE g == call[t].queue
             rest == Tail(call[t].todo)
  <2>1. /\ UNCHANGED <<family, mutex, processed, meta, alive, handed, finished, lost, encoder>>
        /\ pc[t] = "record" /\ Ids' = Ids
        /\ pending' = [pending EXCEPT ![g] = Append(@, Item(t))]
        /\ outcome' = [outcome EXCEPT ![Item(t)] = "Ok"]
        /\ \/ rest = <<>> /\ Return(t)
           \/ rest # <<>> /\ Goto(t, "build") /\ call' = [call EXCEPT ![t].todo = rest]
        /\ g \in Queues
    BY <1>10, <1>s DEF RecordPending, gpu, Busy
  <2>2. Item(t) \in Ids /\ rest \in Seq(Ids)
    BY <1>i, <2>1 DEF Submitting
  <2>3. \A s \in Seq(Ids) : Append(s, Item(t)) \in Seq(Ids) /\ Append(s, Item(t)) # <<>>
    BY <2>2, <1>n, Lists
  <2>4. /\ pending' \in [Queues -> Seq(Ids')]
        /\ \A h \in Queues : pending[h] # <<>> => pending'[h] # <<>>
    <3> HIDE DEF rest
    <3> QED BY <2>1, <2>3 DEF Data
  <2>5. outcome' \in [Ids' -> Outcomes]
    BY <2>1 DEF Data, Outcomes
  <2>6. CASE Return(t)
    <3>1. Data'
      BY <2>1, <2>4, <2>5, <2>6, Returning DEF Data
    <3>2. Made' /\ Busy' /\ Held'
      BY <2>1, <2>4, <2>6, MadeKept, Quiet DEF Holding
    <3>3. QED
      BY <3>1, <3>2
  <2>7. CASE rest # <<>> /\ Goto(t, "build") /\ call' = [call EXCEPT ![t].todo = rest]
    <3>1. /\ call' \in [Threads -> [queue : Queues \cup {Null}, todo : Seq(Ids')]]
          /\ call'[t].queue = g /\ call'[t].todo = rest
          /\ \A u \in Threads \ {t} : call'[u] = call[u]
      <4> HIDE DEF rest
      <4> QED BY <2>1, <2>2, <2>7 DEF Data
    <3>2. QED
      <4> HIDE DEF rest
      <4>0. pc' \in [Threads -> Places]
        BY <2>1, <2>7, Going DEF Places
      <4>1. Data' /\ Made'
        <5>1. /\ Ids' = Ids
              /\ UNCHANGED <<family, mutex, processed, meta, handed, finished, lost, encoder>>
          BY <2>1
        <5>2. Data'
          BY <2>4, <2>5, <3>1, <4>0, <5>1 DEF Data
        <5>3. QED
          BY <2>1, <5>2, MadeKept
      <4>2. Busy'
        BY SMTT(30), <2>1, <2>4, <2>7, <3>1, Going DEF Busy, Submitting, Places
      <4>3. Held'
        BY <2>1, <2>7, <3>1, Going DEF Held, Holding, Places
      <4>4. QED
        BY <4>1, <4>2, <4>3
  <2>8. QED
    BY <2>1, <2>6, <2>7
<1>11. ASSUME NEW t \in Threads, LockToProcess(t)
       PROVE  Data' /\ Made' /\ Busy' /\ Held'
  <2>1. /\ UNCHANGED <<family, pending, processed, meta, outcome, alive, handed, finished, lost,
                       encoder>>
        /\ pc[t] = "process" /\ Ids' = Ids /\ call[t].queue \in Queues
    BY <1>11, <1>s DEF LockToProcess, submissions, gpu, Busy
  <2>2. CASE Return(t) /\ UNCHANGED mutex
    <3>1. Data'
      BY <2>1, <2>2, Returning DEF Data
    <3>2. Made' /\ Busy' /\ Held'
      BY <2>1, <2>2, MadeKept, Quiet DEF Holding
    <3>3. QED
      BY <3>1, <3>2
  <2>3. CASE /\ pending[call[t].queue] # <<>>
             /\ Lock(t, call[t].queue)
             /\ Goto(t, "wait")
             /\ UNCHANGED call
    <3>1. Data'
      BY <2>1, <2>3, Going DEF Data, Places, Lock
    <3>2. Made' /\ Busy'
      BY <2>1, <2>3, Going, MadeKept DEF Busy, Submitting, Places
    <3>3. Held'
      BY <2>1, <2>3, <1>0, Going DEF Held, Holding, Places, Lock, Data
    <3>4. QED
      BY <3>1, <3>2, <3>3
  <2>4. QED
    BY <1>11, <2>2, <2>3 DEF LockToProcess
<1>12. ASSUME NEW t \in Threads, CompleteHead(t)
       PROVE  Data' /\ Made' /\ Busy' /\ Held'
  <2> DEFINE g == call[t].queue
             i == Head(pending[g])
  <2>1. /\ UNCHANGED <<family, meta, outcome, handed, finished, lost, encoder>>
        /\ pc[t] = "wait" /\ Ids' = Ids /\ g \in Queues /\ pending[g] # <<>> /\ Return(t)
        /\ alive' \subseteq alive
        /\ pending' = [pending EXCEPT ![g] = Tail(@)]
        /\ processed' = [processed EXCEPT ![g] = Append(@, i)]
        /\ mutex' = [mutex EXCEPT ![g] = NoThread]
    BY <1>12, <1>s DEF CompleteHead, Busy, Unlock
  <2>2. /\ i \in Ids /\ Tail(pending[g]) \in Seq(Ids)
        /\ Append(processed[g], i) \in Seq(Ids)
    <3>1. pending[g] \in Seq(Ids) /\ processed[g] \in Seq(Ids)
      BY <2>1 DEF Data
    <3>2. QED
      BY <2>1, <3>1, <1>n, Lists
  <2>3. Data' /\ Made'
    <3> HIDE DEF i
    <3> QED BY <2>1, <2>2, MadeKept, Returning DEF Data
  <2>4. Held'
    <3> HIDE DEF i
    <3> QED BY <2>1, <1>0, Returning DEF Held, Holding, Data
  <2>5. Busy'
    <3> HIDE DEF i
    <3> SUFFICES ASSUME NEW u \in Threads \ {t}, pc[u] = "wait"
                 PROVE  pending'[call[u].queue] # <<>>
      BY <2>1, Returning DEF Busy, Submitting
    <3>1. call[u].queue # g /\ call[u].queue \in Queues
      <4>1. mutex[g] = t
        BY <2>1 DEF Held, Holding
      <4>2. QED
        BY <4>1 DEF Held, Holding, Busy
    <3>2. QED
      BY <2>1, <3>1 DEF Busy, Data
  <2>6. QED
    BY <2>3, <2>4, <2>5
<1>13. ASSUME NEW t \in Threads, ReadCount(t)
       PROVE  Data' /\ Made' /\ Busy' /\ Held'
  <2>1. /\ UNCHANGED <<family, mutex, pending, processed, meta, outcome, alive, handed, finished,
                       lost, encoder>>
        /\ pc[t] = "count" /\ Ids' = Ids /\ Return(t)
    BY <1>13, <1>s DEF ReadCount, lists, submissions, gpu
  <2>2. Data'
    BY <2>1, Returning DEF Data
  <2>3. Made' /\ Busy' /\ Held'
    BY <2>1, MadeKept, Quiet DEF Holding
  <2>4. QED
    BY <2>2, <2>3
<1>14. CASE LoseDevice \/ (\E f \in Families : Execute(f)) \/ UNCHANGED vulkanVars
  <2>1. /\ UNCHANGED <<family, mutex, pending, processed, meta, outcome, alive, handed, encoder,
                       pc, call>>
        /\ Ids' = Ids
    BY <1>14, <1>s DEF LoseDevice, Execute, vulkanVars, lists, submissions, gpu, threads
  <2>2. finished' \in [Families -> Nat] /\ lost' \in BOOLEAN
    <3>1. CASE LoseDevice \/ UNCHANGED vulkanVars
      BY <3>1 DEF LoseDevice, vulkanVars, gpu, Data
    <3>2. CASE \E f \in Families : Execute(f)
      BY <3>2 DEF Execute, Data
    <3>3. QED
      BY <1>14, <3>1, <3>2
  <2>3. Data'
    BY <2>1, <2>2 DEF Data
  <2>4. Made' /\ Busy' /\ Held'
    BY <2>1, MadeKept DEF Busy, Held
  <2>5. QED
    BY <2>3, <2>4
<1>15. QED
  <2>1. CASE Application
    BY <2>1, <1>1, <1>2, <1>3, <1>4, <1>5 DEF Application
  <2>2. CASE \E t \in Threads : QueueStep(t)
    BY <2>2, <1>6, <1>7, <1>8, <1>9, <1>10, <1>11, <1>12, <1>13 DEF QueueStep, FinishProcessing
  <2>3. CASE \E t \in Threads : WaitFails(t)
    BY <2>3, <1>12 DEF WaitFails
  <2>4. QED
    BY <2>1, <2>2, <2>3, <1>14 DEF VulkanNext

-----------------------------------------------------------------------------
(* What is known of a submission stays, as does that the GPU has executed  *)
(* it, that the wait for it failed and that the device is lost.            *)
LEMMA ExecutedStays ==
  ASSUME Types, [VulkanNext]_vulkanVars, NEW i \in Ids
  PROVE  /\ i \in Ids' /\ meta'[i] = meta[i]
         /\ Executed(i) => Executed(i)'
         /\ failed \subseteq failed' /\ (lost => lost')
<1> SUFFICES ASSUME Data, Busy
             PROVE  /\ i \in Ids' /\ meta'[i] = meta[i]
                    /\ Executed(i) => Executed(i)'
                    /\ failed \subseteq failed' /\ (lost => lost')
  BY DEF Types
<1>1. meta[i].vk_queue \in Families
  <2>1. meta[i] \in Submission
    BY IdsAre DEF Data
  <2>2. QED
    BY <2>1 DEF Submission
<1>2. CASE UNCHANGED <<meta, gpu>>
  BY <1>2 DEF gpu, Ids, Executed, VkQueueOf
<1>3. ASSUME NEW t \in Threads, NEW g \in Queues, SubmitBatch(t, g)
      PROVE  i \in Ids' /\ meta'[i] = meta[i] /\ UNCHANGED gpu
  <2>1. family[g] \in Families
    BY <1>3 DEF SubmitBatch, Call, Data
  <2>2. PICK n \in 1 .. MaxItems : Grown(t, g, n)
    BY <1>3, <2>1, BatchGrows
  <2>3. QED
    BY <2>2 DEF Grown
<1>4. ASSUME NEW t \in Threads, VkQueueSubmitSucceeds(t)
      PROVE  /\ UNCHANGED <<meta, finished, lost, failed>>
             /\ Executed(i) => Executed(i)'
  <2>1. /\ UNCHANGED <<meta, finished, lost, failed>> /\ pc[t] = "vkQueueSubmit"
        /\ handed' = [handed EXCEPT ![family[call[t].queue]] = Append(@, Item(t))]
    BY <1>4 DEF VkQueueSubmitSucceeds, submissions
  <2>2. \A f \in Families : \A k \in DOMAIN handed[f] :
          k \in DOMAIN handed'[f] /\ handed'[f][k] = handed[f][k]
    <3> SUFFICES ASSUME NEW f \in Families, NEW k \in DOMAIN handed[f]
                 PROVE  k \in DOMAIN handed'[f] /\ handed'[f][k] = handed[f][k]
      OBVIOUS
    <3>1. handed[f] \in Seq(Ids) /\ Item(t) \in Ids
      <4>1. call[t].todo \in Seq(Ids) /\ call[t].todo # <<>>
        BY <2>1 DEF Data, Busy, Submitting
      <4>2. QED
        BY <4>1, IdsAre, Lists DEF Data, Item
    <3>2. /\ k \in DOMAIN Append(handed[f], Item(t))
          /\ Append(handed[f], Item(t))[k] = handed[f][k]
      BY <3>1, AppendProperties
    <3>3. handed'[f] = handed[f] \/ handed'[f] = Append(handed[f], Item(t))
      BY <2>1 DEF Data
    <3>4. QED
      BY <3>2, <3>3
  <2>3. QED
    BY <1>1, <2>1, <2>2 DEF Executed, VkQueueOf
<1>5. ASSUME NEW f \in Families, Execute(f)
      PROVE  UNCHANGED <<meta, handed, lost, failed>> /\ (Executed(i) => Executed(i)')
  <2>1. /\ UNCHANGED <<meta, handed, lost, failed>>
        /\ \A h \in Families : /\ finished[h] \in Nat
                               /\ finished'[h] = finished[h] \/ finished'[h] = finished[h] + 1
    BY <1>5 DEF Execute, submissions, Data
  <2>2. \A k \in DOMAIN handed[meta[i].vk_queue] :
          k <= finished[meta[i].vk_queue] => k <= finished'[meta[i].vk_queue]
    <3>1. \A k \in DOMAIN handed[meta[i].vk_queue] : k \in Nat
      BY <1>1, LenProperties DEF Data
    <3>2. QED
      BY <1>1, <2>1, <3>1
  <2>3. QED
    BY <1>1, <2>1, <2>2 DEF Executed, VkQueueOf
<1>6. CASE LoseDevice
  BY <1>6 DEF LoseDevice, submissions, Ids, Executed, VkQueueOf
<1>7. ASSUME NEW t \in Threads, QueueStep(t), ~VkQueueSubmitSucceeds(t)
      PROVE  UNCHANGED <<meta, gpu>>
  BY <1>7 DEF QueueStep, BuildSyncObjects, EnterVkQueueSubmit, VkQueueSubmitFails, RecordPending,
              LockToProcess, FinishProcessing, CompleteHead, ReadCount, submissions, gpu
<1>8. ASSUME Application, \A t \in Threads, g \in Queues : ~SubmitBatch(t, g)
      PROVE  UNCHANGED <<meta, gpu>>
  BY <1>8 DEF Application, CreateQueue, DestroyQueue, CreateEncoder, FinishEncoder, DestroyEncoder,
              ProcessNextSubmission, SubmissionCount, Call, submissions, gpu
<1>9. CASE UNCHANGED vulkanVars
  BY <1>2, <1>9 DEF vulkanVars, submissions
<1>10. CASE \E t \in Threads, g \in Queues : SubmitBatch(t, g)
  BY <1>3, <1>10 DEF gpu, Executed, VkQueueOf
<1>11. CASE \E t \in Threads : VkQueueSubmitSucceeds(t)
  BY <1>4, <1>11 DEF Ids
<1>12. CASE \E f \in Families : Execute(f)
  BY <1>5, <1>12 DEF Ids
<1>13. CASE \E t \in Threads : WaitFails(t)
  BY <1>13 DEF WaitFails, CompleteHead, Ids, Executed, VkQueueOf
<1>14. QED
  BY <1>2, <1>6, <1>7, <1>8, <1>9, <1>10, <1>11, <1>12, <1>13 DEF VulkanNext

(* Nothing is processed but what waits, and with a fence only after it was *)
(* signalled or the wait failed.                                           *)
LEMMA ProcessedGrows ==
  ASSUME Types, [VulkanNext]_vulkanVars, NEW g \in Queues, NEW i \in Range(processed'[g])
  PROVE  \/ i \in Range(processed[g])
         \/ i \in Range(pending[g]) /\ i \in Ids /\ (Signalled(i) \/ i \in failed')
<1> SUFFICES ASSUME Data, Busy
             PROVE  \/ i \in Range(processed[g])
                    \/ i \in Range(pending[g]) /\ i \in Ids /\ (Signalled(i) \/ i \in failed')
  BY DEF Types
<1>1. ASSUME NEW t \in Threads, FinishProcessing(t) \/ WaitFails(t)
      PROVE  \/ i \in Range(processed[g])
             \/ i \in Range(pending[g]) /\ i \in Ids /\ (Signalled(i) \/ i \in failed')
  <2> DEFINE h == call[t].queue
             j == Head(pending[h])
  <2>1. /\ pc[t] = "wait" /\ (Signalled(j) \/ j \in failed')
        /\ processed' = [processed EXCEPT ![h] = Append(@, j)]
    BY <1>1 DEF FinishProcessing, WaitFails, CompleteHead
  <2>2. j \in Ids /\ h \in Queues /\ j \in Range(pending[h])
    <3>1. h \in Queues /\ pending[h] # <<>>
      BY <2>1 DEF Busy
    <3>2. pending[h] \in Seq(Ids)
      BY <3>1 DEF Data
    <3>3. QED
      BY <3>1, <3>2, IdsAre, Lists, Elements
  <2>3. \A s \in Seq(Ids) : Range(Append(s, j)) \subseteq Range(s) \cup {j}
    <3> HIDE DEF j
    <3> QED BY <2>2, AppendProperties DEF Range
  <2>4. processed'[g] = processed[g] \/ (g = h /\ processed'[g] = Append(processed[g], j))
    <3> HIDE DEF j, h
    <3> QED BY <2>1 DEF Data
  <2>5. processed[g] \in Seq(Ids)
    BY DEF Data
  <2>6. QED
    <3> HIDE DEF j, h
    <3> QED BY <2>1, <2>2, <2>3, <2>4, <2>5
<1>2. ASSUME NEW t \in Threads, QueueStep(t), ~FinishProcessing(t)
      PROVE  UNCHANGED processed
  BY <1>2 DEF QueueStep, BuildSyncObjects, EnterVkQueueSubmit, VkQueueSubmitSucceeds,
              VkQueueSubmitFails, RecordPending, LockToProcess, ReadCount, lists
<1>3. CASE Application
  BY <1>3 DEF Application, CreateQueue, DestroyQueue, CreateEncoder, FinishEncoder, DestroyEncoder,
              SubmitBatch, ProcessNextSubmission, SubmissionCount, Call, lists
<1>4. CASE LoseDevice \/ (\E f \in Families : Execute(f)) \/ UNCHANGED vulkanVars
  BY <1>4 DEF LoseDevice, Execute, vulkanVars, lists
<1>5. QED
  BY <1>1, <1>2, <1>3, <1>4 DEF VulkanNext

(* What a wait failed for was being processed, so it is an id.             *)
LEMMA FailedStep == Types /\ FailedKnown /\ [VulkanNext]_vulkanVars => FailedKnown'
<1> SUFFICES ASSUME Types, FailedKnown, [VulkanNext]_vulkanVars, NEW i \in failed'
             PROVE  i \in Ids'
  BY DEF FailedKnown
<1>1. i \in failed => i \in Ids'
  BY ExecutedStays DEF FailedKnown
<1>2. ASSUME NEW t \in Threads, WaitFails(t)
      PROVE  i \in Ids'
  <2> DEFINE g == call[t].queue
  <2>1. pc[t] = "wait" /\ meta' = meta /\ failed' = failed \cup {Head(pending[g])}
    BY <1>2 DEF WaitFails, CompleteHead
  <2>2. pending[g] \in Seq(Ids) /\ pending[g] # <<>>
    BY <2>1 DEF Types, Data, Busy
  <2>3. Head(pending[g]) \in Ids
    BY <2>2, IdsAre, Lists DEF Types
  <2>4. QED
    <3> HIDE DEF g
    <3> QED BY <1>1, <2>1, <2>3 DEF Ids
<1>3. ASSUME NEW t \in Threads, QueueStep(t)
      PROVE  UNCHANGED failed
  BY <1>3 DEF QueueStep, BuildSyncObjects, EnterVkQueueSubmit, VkQueueSubmitSucceeds,
              VkQueueSubmitFails, RecordPending, LockToProcess, FinishProcessing, ReadCount, gpu
<1>4. CASE Application
  BY <1>1, <1>4 DEF Application, CreateQueue, DestroyQueue, CreateEncoder, FinishEncoder,
              DestroyEncoder, SubmitBatch, ProcessNextSubmission, SubmissionCount, Call, gpu
<1>5. CASE LoseDevice \/ (\E f \in Families : Execute(f)) \/ UNCHANGED vulkanVars
  BY <1>1, <1>5 DEF LoseDevice, Execute, vulkanVars, gpu
<1>6. QED
  BY <1>1, <1>2, <1>3, <1>4, <1>5 DEF VulkanNext

(* In every state each thread is at a place of a call on a queue that      *)
(* exists, each variable is in its domain, and the mutex of a queue is     *)
(* held by the thread that is inside vkQueueSubmit or vkWaitForFences with *)
(* that queue and by no other.                                             *)
THEOREM TypeCorrectness == VulkanSpec => []VulkanTypeOK
<1>1. VulkanSpec => []Types
  BY TypesInit, TypesStep, PTL DEF VulkanSpec
<1>2. VulkanInit => FailedKnown
  BY DEF VulkanInit, FailedKnown
<1>3. VulkanSpec => []FailedKnown
  BY <1>1, <1>2, FailedStep, PTL DEF VulkanSpec
<1>4. Types /\ FailedKnown => VulkanTypeOK
  BY DEF Types, Data, Made, Held, FailedKnown, VulkanTypeOK
<1>5. QED
  BY <1>1, <1>3, <1>4, PTL

(* What was processed and carries a fence was executed, unless the wait    *)
(* failed or the device is lost.                                           *)
Awaited ==
  \A i \in Ids : WentThrough(i) /\ meta[i].info.fence /\ i \notin failed => Executed(i) \/ lost

(* A successful wait ends after the execution, which stays.                *)
LEMMA AwaitedStep == Types /\ Awaited /\ [VulkanNext]_vulkanVars => Awaited'
<1> SUFFICES ASSUME Types, Awaited, [VulkanNext]_vulkanVars,
                    NEW i \in Ids', NEW g \in Queues, i \in Range(processed'[g]),
                    meta'[i].info.fence, i \notin failed'
             PROVE  Executed(i)' \/ lost'
  BY DEF Awaited, WentThrough
<1>1. i \in Ids
  <2>1. \A j \in Range(processed[g]) : j \in Ids
    BY DEF Types, Data, Range
  <2>2. QED
    BY <2>1, ProcessedGrows
<1>2. /\ meta'[i] = meta[i] /\ (Executed(i) => Executed(i)') /\ (lost => lost')
      /\ i \notin failed
  BY <1>1, ExecutedStays
<1>3. CASE i \in Range(processed[g])
  BY <1>1, <1>2, <1>3 DEF Awaited, WentThrough
<1>4. CASE Signalled(i)
  BY <1>2, <1>4 DEF Signalled
<1>5. QED
  BY <1>3, <1>4, ProcessedGrows

(* As long as no two queues share a VkQueue, the mutex of the queue does   *)
(* guard it: what vulkan_shared_queue shows going wrong is the sharing     *)
(* alone, not the locking of a queue.                                      *)
THEOREM UnsharedIsGuarded ==
  VulkanSpec =>
    []((\A g, h \in Queues : family[g] = family[h] => g = h \/ family[g] = NoFamily)
         => VkQueueGuarded)
<1>1. VulkanSpec => []Types
  BY TypesInit, TypesStep, PTL DEF VulkanSpec
<1>2. ASSUME Types,
             \A g, h \in Queues : family[g] = family[h] => g = h \/ family[g] = NoFamily,
             NEW t \in Threads, NEW u \in Threads,
             pc[t] = "vkQueueSubmit", pc[u] = "vkQueueSubmit",
             family[call[t].queue] = family[call[u].queue]
      PROVE  t = u
  <2>1. call[t].queue \in Queues /\ call[u].queue \in Queues /\ family[call[t].queue] \in Families
    BY <1>2 DEF Types, Busy
  <2>2. call[t].queue = call[u].queue
    BY <1>2, <2>1, VulkanAssumption
  <2>3. QED
    BY <1>2, <2>1, <2>2 DEF Types, Held, Holding
<1>3. Types => ((\A g, h \in Queues : family[g] = family[h] => g = h \/ family[g] = NoFamily)
                  => VkQueueGuarded)
  BY <1>2 DEF VkQueueGuarded
<1>4. QED
  BY <1>1, <1>3, PTL

(* What a queue records goes to the end of what went through it.           *)
LEMMA RecordedLast ==
  ASSUME NEW S, NEW p \in Seq(S), NEW q \in Seq(S), NEW x \in S
  PROVE  p \o Append(q, x) = Append(p \o q, x)
<1>1. <<x>> \in Seq(S) /\ p \o q \in Seq(S)
  BY ConcatProperties
<1>2. Append(q, x) = q \o <<x>> /\ Append(p \o q, x) = (p \o q) \o <<x>>
  BY <1>1, AppendIsConcat
<1>3. QED
  BY <1>1, <1>2, ConcatAssociative

(* What a queue processes has been there, and comes next.                  *)
LEMMA ProcessedNext ==
  ASSUME NEW S, NEW p \in Seq(S), NEW q \in Seq(S), q # <<>>
  PROVE  Append(p, Head(q)) \o Tail(q) = p \o q
<1>1. Head(q) \in S /\ Tail(q) \in Seq(S) /\ <<Head(q)>> \o Tail(q) = q
  BY HeadTailProperties
<1>2. <<Head(q)>> \in Seq(S)
  BY <1>1
<1>3. Append(p, Head(q)) = p \o <<Head(q)>>
  BY <1>1, AppendIsConcat
<1>4. QED
  BY <1>1, <1>2, <1>3, ConcatAssociative

-----------------------------------------------------------------------------
(* Where the submissions of a call are: made by the thread, for its queue, *)
(* in ascending order, and with a Vulkan command buffer once it was looked *)
(* at.                                                                     *)
Underway ==
  \A t \in Threads :
    /\ pc[t] \notin Submitting => call[t].todo = <<>>
    /\ \A i \in Range(call[t].todo) : meta[i].thread = t /\ meta[i].queue = call[t].queue
    /\ \A j, k \in DOMAIN call[t].todo : j < k => call[t].todo[j] < call[t].todo[k]
    /\ pc[t] \in {"submit", "vkQueueSubmit", "record"}
         => meta[Item(t)].info.command_buffer = "of Vulkan"

(* Whatever went through a queue or was handed to a VkQueue was submitted  *)
(* to it, with a Vulkan command buffer.                                    *)
Routed ==
  /\ \A i \in Ids : family[meta[i].queue] \in {NoFamily, meta[i].vk_queue}
  /\ \A g \in Queues : \A i \in Range(Through(g)) :
       meta[i].queue = g /\ meta[i].info.command_buffer = "of Vulkan"
  /\ \A f \in Families : \A i \in Range(handed[f]) :
       meta[i].vk_queue = f /\ meta[i].info.command_buffer = "of Vulkan"

(* What a thread still has to submit comes after all it has submitted; the *)
(* GPU alone may already have what the thread is about to record.          *)
Ahead ==
  \A t \in Threads : \A i \in Range(call[t].todo) :
    /\ \A g \in Queues : \A j \in Range(Through(g)) : meta[j].thread = t => j < i
    /\ \A f \in Families : \A j \in Range(handed[f]) :
         meta[j].thread = t => j < i \/ (pc[t] = "record" /\ j = Item(t))

(* NothingLost without the part that follows from the order.               *)
Recording(g) == {i \in Ids : meta[i].queue = g /\ \E t \in Threads : pc[t] = "record" /\ Item(t) = i}
Handed(g) == {i \in Ids : meta[i].queue = g /\ \E f \in Families : i \in Range(handed[f])}

Accounted ==
  \A g \in Queues :
    family[g] # NoFamily => Range(Through(g)) \cup Recording(g) = Handed(g)

Ordered == Underway /\ Routed /\ Ahead /\ CallerOrderKept

(* The command buffer of what is to be submitted or waits is finished, or  *)
(* the application dropped it from under a queue.                          *)
Kept == {"finished", "dropped"}

BuffersKept ==
  \A i \in Ids :
    /\ Waits(i) \/ (\E t \in Threads : i \in Range(call[t].todo))
    /\ meta[i].info.command_buffer = "of Vulkan"
    => encoder[meta[i].buffer] \in Kept

-----------------------------------------------------------------------------
(* In particular what went through a queue are ids.                        *)
LEMMA ThroughIs ==
  Data => \A g \in Queues : /\ Through(g) \in Seq(Ids)
                            /\ Range(Through(g)) = Range(processed[g]) \cup Range(pending[g])
                            /\ Range(Through(g)) \subseteq Ids
<1> SUFFICES ASSUME Data, NEW g \in Queues
             PROVE  /\ Through(g) \in Seq(Ids)
                    /\ Range(Through(g)) = Range(processed[g]) \cup Range(pending[g])
                    /\ Range(Through(g)) \subseteq Ids
  OBVIOUS
<1>1. processed[g] \in Seq(Ids) /\ pending[g] \in Seq(Ids)
  BY DEF Data
<1>2. /\ Through(g) \in Seq(Ids)
      /\ Range(Through(g)) = Range(processed[g]) \cup Range(pending[g])
  BY <1>1, ConcatProperties, RangeConcatenation DEF Through
<1>3. QED
  BY <1>2, RangeOfSeq

(* What a thread submits next is one of its ids, and the first of them.    *)
LEMMA ItemIs ==
  ASSUME Data, Busy, NEW t \in Threads, pc[t] \in Submitting
  PROVE  /\ Item(t) \in Ids /\ Tail(call[t].todo) \in Seq(Ids)
         /\ Range(call[t].todo) = {Item(t)} \cup Range(Tail(call[t].todo))
         /\ call[t].queue \in Queues /\ family[call[t].queue] \in Families
<1>1. call[t].todo \in Seq(Ids) /\ call[t].todo # <<>>
  BY DEF Data, Busy
<1>2. Item(t) \in Ids /\ Tail(call[t].todo) \in Seq(Ids)
  BY <1>1, IdsAre, Lists DEF Item
<1>3. Range(call[t].todo) = {Item(t)} \cup Range(Tail(call[t].todo))
  BY <1>1, Elements DEF Item
<1>4. call[t].queue \in Queues /\ family[call[t].queue] \in Families
  BY DEF Busy, Submitting
<1>5. QED
  BY <1>2, <1>3, <1>4

(* A list in call order stays so when it gets an id that its thread has    *)
(* given out later than all there.                                         *)
LEMMA OrderAppended ==
  ASSUME Data, NEW list \in Seq(Ids), NEW x \in Ids, InCallOrder(list),
         \A y \in Range(list) : meta[y].thread = meta[x].thread => y < x
  PROVE  InCallOrder(Append(list, x))
<1>1. /\ Len(list) \in Nat /\ DOMAIN list = 1 .. Len(list)
      /\ DOMAIN Append(list, x) = 1 .. Len(list) + 1
      /\ \A k \in 1 .. Len(list) : Append(list, x)[k] = list[k] /\ list[k] \in Range(list)
      /\ Append(list, x)[Len(list) + 1] = x
  BY AppendProperties, LenProperties DEF Range
<1>2. SUFFICES ASSUME NEW j \in 1 .. Len(list) + 1, NEW k \in 1 .. Len(list) + 1, j < k,
                      meta[Append(list, x)[j]].thread = meta[Append(list, x)[k]].thread
               PROVE  Append(list, x)[j] < Append(list, x)[k]
  BY <1>1 DEF InCallOrder
<1>3. CASE k = Len(list) + 1
  <2>1. j \in 1 .. Len(list)
    BY <1>1, <1>2, <1>3
  <2>2. QED
    BY <1>1, <1>2, <1>3, <2>1
<1>4. CASE k # Len(list) + 1
  <2>1. j \in 1 .. Len(list) /\ k \in 1 .. Len(list)
    BY <1>1, <1>2, <1>4
  <2>2. QED
    BY <1>1, <1>2, <2>1 DEF InCallOrder
<1>5. QED
  BY <1>3, <1>4

(* No id is twice in a list in call order.                                 *)
LEMMA OrderedOnce ==
  ASSUME Data, NEW list \in Seq(Ids), InCallOrder(list)
  PROVE  IsInjective(list)
<1> SUFFICES ASSUME NEW j \in DOMAIN list, NEW k \in DOMAIN list, list[j] = list[k], j # k
             PROVE  FALSE
  BY DEF IsInjective
<1>1. j \in Nat /\ k \in Nat /\ list[j] \in Nat
  <2>1. DOMAIN list = 1 .. Len(list) /\ Len(list) \in Nat
    BY LenProperties
  <2>2. list[j] \in Ids
    BY <2>1, ElementOfSeq
  <2>3. QED
    BY <2>1, <2>2, IdsAre
<1>2. CASE j < k
  BY <1>1, <1>2 DEF InCallOrder
<1>3. CASE k < j
  BY <1>1, <1>3 DEF InCallOrder
<1>4. QED
  BY <1>1, <1>2, <1>3

(* A step that submits, hands over and records nothing: each thread goes   *)
(* on with the same submissions or gives up what it had left.              *)
Quietly ==
  /\ UNCHANGED <<family, meta, handed>>
  /\ \A g \in Queues : Through(g)' = Through(g)
  /\ \A t \in Threads :
       \/ pc'[t] \notin Submitting /\ call'[t].todo = <<>> /\ pc[t] # "record"
       \/ /\ pc[t] \in Submitting /\ pc'[t] \in Submitting /\ call'[t] = call[t]
          /\ pc'[t] = "record" <=> pc[t] = "record"
          /\ pc'[t] \in {"submit", "vkQueueSubmit", "record"}
               => meta[Item(t)].info.command_buffer = "of Vulkan"

(* A step of thread t alone is quiet if it is for t.                       *)
LEMMA QuietAlone ==
  ASSUME Data, Underway, NEW t \in Threads,
         UNCHANGED <<family, meta, pending, processed, handed>>,
         \A u \in Threads \ {t} : pc'[u] = pc[u] /\ call'[u] = call[u],
         \/ pc'[t] \notin Submitting /\ call'[t].todo = <<>> /\ pc[t] # "record"
         \/ /\ pc[t] \in Submitting /\ pc'[t] \in Submitting /\ call'[t] = call[t]
            /\ pc'[t] = "record" <=> pc[t] = "record"
            /\ pc'[t] \in {"submit", "vkQueueSubmit", "record"}
                 => meta[Item(t)].info.command_buffer = "of Vulkan"
  PROVE  Quietly
BY DEF Quietly, Underway, Submitting, Through

(* The five other steps are treated one by one.                             *)
LEMMA QuietSteps ==
  ASSUME Types, Underway, [VulkanNext]_vulkanVars
  PROVE  \/ Quietly
         \/ \E g \in Queues, type \in DOMAIN FamilyOf : CreateQueue(g, type)
         \/ \E g \in Queues : DestroyQueue(g)
         \/ \E t \in Threads, g \in Queues : SubmitBatch(t, g)
         \/ \E t \in Threads :
              VkQueueSubmitSucceeds(t) \/ RecordPending(t)
<1> USE DEF Types
<1>1. CASE UNCHANGED <<family, meta, pending, processed, handed, pc, call>>
  BY <1>1 DEF Quietly, Underway, Submitting, Through
<1>2. ASSUME NEW t \in Threads, NEW g \in Queues,
             ProcessNextSubmission(t, g) \/ SubmissionCount(t, g)
      PROVE  Quietly
  <2>1. PICK place \in {"process", "count"} : Call(t, g, place, <<>>) /\ UNCHANGED meta
    BY <1>2 DEF ProcessNextSubmission, SubmissionCount
  <2>2. /\ UNCHANGED <<family, meta, pending, processed, handed>>
        /\ \A u \in Threads \ {t} : pc'[u] = pc[u] /\ call'[u] = call[u]
        /\ pc'[t] = place /\ call'[t].todo = <<>> /\ pc[t] = "idle"
    BY <2>1 DEF Call, Goto, Data, lists, gpu
  <2>3. QED
    BY <2>2, QuietAlone DEF Submitting
<1>3. ASSUME NEW t \in Threads, Return(t), pc[t] # "record", Ids' = Ids,
             UNCHANGED <<family, meta, pending, processed, handed>>
      PROVE  Quietly
  <2>1. /\ pc'[t] = "idle" /\ call'[t] = NoCall
        /\ \A u \in Threads \ {t} : pc'[u] = pc[u] /\ call'[u] = call[u]
    BY <1>3, Returning
  <2>2. pc'[t] \notin Submitting /\ call'[t].todo = <<>>
    BY <2>1 DEF Submitting, NoCall
  <2>3. QED
    BY <1>3, <2>1, <2>2, QuietAlone
<1>4. ASSUME NEW t \in Threads, BuildSyncObjects(t)
      PROVE  Quietly
  <2>1. /\ UNCHANGED <<family, meta, pending, processed, handed>> /\ pc[t] = "build"
        /\ \/ Return(t)
           \/ /\ Goto(t, "submit") /\ UNCHANGED call
              /\ meta[Item(t)].info.command_buffer = "of Vulkan"
    BY <1>4 DEF BuildSyncObjects, lists, gpu
  <2>2. CASE Return(t)
    BY <2>1, <2>2, <1>3 DEF Ids
  <2>3. CASE /\ Goto(t, "submit") /\ UNCHANGED call
             /\ meta[Item(t)].info.command_buffer = "of Vulkan"
    <3>1. pc'[t] = "submit" /\ \A u \in Threads \ {t} : pc'[u] = pc[u]
      BY <2>1, <2>3, Going DEF Places, Ids
    <3>2. /\ pc[t] \in Submitting /\ pc'[t] \in Submitting /\ call'[t] = call[t]
          /\ pc'[t] = "record" <=> pc[t] = "record"
          /\ meta[Item(t)].info.command_buffer = "of Vulkan"
      BY <2>1, <2>3, <3>1 DEF Submitting
    <3>3. QED
      BY <2>1, <2>3, <3>1, <3>2, QuietAlone
  <2>4. QED
    BY <2>1, <2>2, <2>3
<1>5. ASSUME NEW t \in Threads, EnterVkQueueSubmit(t)
      PROVE  Quietly
  <2>1. /\ UNCHANGED <<family, meta, pending, processed, handed, call>> /\ pc[t] = "submit"
        /\ Goto(t, "vkQueueSubmit") /\ Ids' = Ids
    BY <1>5 DEF EnterVkQueueSubmit, submissions, gpu, Ids
  <2>2. pc'[t] = "vkQueueSubmit" /\ \A u \in Threads \ {t} : pc'[u] = pc[u]
    BY <2>1, Going DEF Places
  <2>3. meta[Item(t)].info.command_buffer = "of Vulkan"
    BY <2>1 DEF Underway
  <2>4. QED
    BY <2>1, <2>2, <2>3, QuietAlone DEF Submitting
<1>6. ASSUME NEW t \in Threads, LockToProcess(t)
      PROVE  Quietly
  <2>1. /\ UNCHANGED <<family, meta, pending, processed, handed>> /\ pc[t] = "process"
        /\ Return(t) \/ (Goto(t, "wait") /\ UNCHANGED call)
        /\ Ids' = Ids
    BY <1>6 DEF LockToProcess, submissions, gpu, Ids
  <2>2. CASE Return(t)
    BY <2>1, <2>2, <1>3
  <2>3. CASE Goto(t, "wait") /\ UNCHANGED call
    <3>1. pc'[t] = "wait" /\ \A u \in Threads \ {t} : pc'[u] = pc[u]
      BY <2>1, <2>3, Going DEF Places
    <3>2. call[t].todo = <<>>
      BY <2>1 DEF Underway, Submitting
    <3>3. QED
      BY <2>1, <2>3, <3>1, <3>2, QuietAlone DEF Submitting
  <2>4. QED
    BY <2>1, <2>2, <2>3
<1>7. ASSUME NEW t \in Threads, VkQueueSubmitFails(t) \/ ReadCount(t)
      PROVE  Quietly
  BY <1>3, <1>7 DEF VkQueueSubmitFails, ReadCount, lists, submissions, gpu, Ids
<1>12. ASSUME NEW t \in Threads, CompleteHead(t)
       PROVE  Quietly
  <2> DEFINE g == call[t].queue
  <2>1. /\ UNCHANGED <<family, meta, handed>> /\ Ids' = Ids
        /\ pc[t] = "wait" /\ g \in Queues /\ pending[g] # <<>> /\ Return(t)
        /\ pending' = [pending EXCEPT ![g] = Tail(@)]
        /\ processed' = [processed EXCEPT ![g] = Append(@, Head(pending[g]))]
    BY <1>12 DEF CompleteHead, Busy, Ids
  <2>2. \A h \in Queues : Through(h)' = Through(h)
    <3> SUFFICES ASSUME NEW h \in Queues PROVE Through(h)' = Through(h)
      OBVIOUS
    <3>1. pending \in [Queues -> Seq(Ids)] /\ processed \in [Queues -> Seq(Ids)]
      BY DEF Data
    <3>2. CASE h = g
      <4>1. processed'[h] = Append(processed[g], Head(pending[g])) /\ pending'[h] = Tail(pending[g])
        BY <2>1, <3>1, <3>2
      <4>2. processed[g] \in Seq(Ids) /\ pending[g] \in Seq(Ids)
        BY <2>1, <3>1
      <4>3. Append(processed[g], Head(pending[g])) \o Tail(pending[g]) = processed[g] \o pending[g]
        BY <2>1, <4>2, ProcessedNext
      <4>4. QED
        BY <3>2, <4>1, <4>3 DEF Through
    <3>3. CASE h # g
      BY <2>1, <3>1, <3>3 DEF Through
    <3>4. QED
      BY <3>2, <3>3
  <2>3. /\ pc'[t] \notin Submitting /\ call'[t].todo = <<>>
        /\ \A u \in Threads \ {t} : pc'[u] = pc[u] /\ call'[u] = call[u]
    BY <2>1, Returning DEF NoCall, Submitting
  <2>4. QED
    BY <2>1, <2>2, <2>3 DEF Quietly, Underway, Submitting
<1>8. CASE UNCHANGED vulkanVars \/ LoseDevice \/ (\E f \in Families : Execute(f))
  BY <1>1, <1>8 DEF vulkanVars, LoseDevice, Execute, lists, submissions, gpu, threads
<1>9. CASE Application
  <2>1. CASE \E e \in Encoders : CreateEncoder(e) \/ FinishEncoder(e) \/ DestroyEncoder(e)
    BY <1>1, <2>1 DEF CreateEncoder, FinishEncoder, DestroyEncoder, lists, submissions, gpu, threads
  <2>2. QED
    BY <1>2, <1>9, <2>1 DEF Application
<1>10. CASE \E t \in Threads : QueueStep(t)
  BY <1>4, <1>5, <1>6, <1>7, <1>10, <1>12 DEF QueueStep, FinishProcessing
<1>13. CASE \E t \in Threads : WaitFails(t)
  BY <1>12, <1>13 DEF WaitFails
<1>11. QED
  BY <1>8, <1>9, <1>10, <1>13 DEF VulkanNext

(* A quiet step keeps the order.                                           *)
LEMMA QuietOrdered ==
  ASSUME Types, Ordered, Accounted, Quietly
  PROVE  Ordered' /\ Accounted'
<1>1. /\ UNCHANGED <<family, meta, handed>> /\ Ids' = Ids
      /\ \A g \in Queues : Through(g)' = Through(g)
  BY DEF Quietly, Ids
<1>2. \A t \in Threads :
        \/ pc'[t] \notin Submitting /\ Range(call'[t].todo) = {} /\ call'[t].todo = <<>>
        \/ /\ pc[t] \in Submitting /\ pc'[t] \in Submitting /\ call'[t] = call[t]
           /\ Item(t)' = Item(t)
           /\ pc'[t] = "record" <=> pc[t] = "record"
           /\ pc'[t] \in {"submit", "vkQueueSubmit", "record"}
                => meta[Item(t)].info.command_buffer = "of Vulkan"
  <2>1. Range(<<>>) = {}
    BY DEF Range
  <2> SUFFICES ASSUME NEW t \in Threads
               PROVE  \/ pc'[t] \notin Submitting /\ Range(call'[t].todo) = {} /\ call'[t].todo = <<>>
                      \/ /\ pc[t] \in Submitting /\ pc'[t] \in Submitting /\ call'[t] = call[t]
                         /\ Item(t)' = Item(t)
                         /\ pc'[t] = "record" <=> pc[t] = "record"
                         /\ pc'[t] \in {"submit", "vkQueueSubmit", "record"}
                              => meta[Item(t)].info.command_buffer = "of Vulkan"
    OBVIOUS
  <2>2. CASE pc'[t] \notin Submitting /\ call'[t].todo = <<>>
    BY <2>1, <2>2
  <2>3. CASE call'[t] = call[t]
    BY <2>1, <2>3 DEF Quietly, Item
  <2>4. QED
    BY <2>2, <2>3 DEF Quietly
<1>3. Underway'
  <2> SUFFICES ASSUME NEW t \in Threads
               PROVE  /\ pc'[t] \notin Submitting => call'[t].todo = <<>>
                      /\ \A i \in Range(call'[t].todo) :
                           meta[i].thread = t /\ meta[i].queue = call'[t].queue
                      /\ \A j, k \in DOMAIN call'[t].todo :
                           j < k => call'[t].todo[j] < call'[t].todo[k]
                      /\ pc'[t] \in {"submit", "vkQueueSubmit", "record"}
                           => meta[Item(t)'].info.command_buffer = "of Vulkan"
    BY <1>1 DEF Underway
  <2>1. CASE pc'[t] \notin Submitting /\ call'[t].todo = <<>>
    <3>1. DOMAIN <<>> = {} /\ Range(<<>>) = {}
      BY DEF Range
    <3>2. QED
      BY <2>1, <3>1 DEF Submitting
  <2>2. CASE pc'[t] \in Submitting /\ call'[t] = call[t]
    <3>1. /\ \A i \in Range(call[t].todo) : meta[i].thread = t /\ meta[i].queue = call[t].queue
          /\ \A j, k \in DOMAIN call[t].todo : j < k => call[t].todo[j] < call[t].todo[k]
      BY DEF Ordered, Underway
    <3>2. /\ Item(t)' = Item(t)
          /\ pc'[t] \in {"submit", "vkQueueSubmit", "record"}
               => meta[Item(t)].info.command_buffer = "of Vulkan"
      BY <2>2, <1>2
    <3>3. QED
      BY <2>2, <3>1, <3>2
  <2>3. QED
    BY <1>2, <2>1, <2>2
<1>4. Routed'
  <2>1. ASSUME NEW g \in Queues
        PROVE  \A i \in Range(Through(g)') :
                 meta[i].queue = g /\ meta[i].info.command_buffer = "of Vulkan"
    <3>1. Through(g)' = Through(g)
      BY <1>1
    <3>2. \A i \in Range(Through(g)) :
            meta[i].queue = g /\ meta[i].info.command_buffer = "of Vulkan"
      BY DEF Ordered, Routed
    <3>3. QED
      BY <3>1, <3>2
  <2>2. /\ \A i \in Ids : family[meta[i].queue] \in {NoFamily, meta[i].vk_queue}
        /\ \A f \in Families : \A i \in Range(handed[f]) :
             meta[i].vk_queue = f /\ meta[i].info.command_buffer = "of Vulkan"
    BY DEF Ordered, Routed
  <2>3. QED
    BY <1>1, <2>1, <2>2 DEF Routed
<1>5. Ahead'
  BY <1>1, <1>2 DEF Ordered, Ahead
<1>6. CallerOrderKept'
  BY <1>1 DEF Ordered, CallerOrderKept, InCallOrder
<1>7. Accounted'
  <2>1. \A t \in Threads : pc'[t] = "record" <=> pc[t] = "record"
    BY DEF Quietly, Submitting
  <2>2. \A t \in Threads : pc[t] = "record" => Item(t)' = Item(t)
    BY <2>1, <1>2 DEF Submitting
  <2>3. \A g \in Queues : Recording(g)' = Recording(g) /\ Handed(g)' = Handed(g)
    BY <1>1, <2>1, <2>2 DEF Recording, Handed
  <2>4. QED
    BY <1>1, <2>3 DEF Accounted
<1>8. QED
  BY <1>3, <1>4, <1>5, <1>6, <1>7 DEF Ordered

(* A batch gives out the next ids, which nobody else has.                  *)
LEMMA BatchOrdered ==
  ASSUME Types, Ordered, Accounted, NEW t \in Threads, NEW g \in Queues, SubmitBatch(t, g)
  PROVE  Ordered' /\ Accounted'
<1> USE DEF Types
<1>1. PICK n \in 1 .. MaxItems : Grown(t, g, n)
  <2>1. family[g] \in Families
    BY DEF SubmitBatch, Call, Data
  <2>2. QED
    BY <2>1, BatchGrows
<1>2. /\ Len(meta) \in Nat /\ Ids = 1 .. Len(meta) /\ n \in Nat
      /\ \A i \in Ids : i \in Ids' /\ meta'[i] = meta[i]
      /\ \A i \in Ids' \ Ids :
           meta'[i].queue = g /\ meta'[i].thread = t /\ meta'[i].vk_queue = family[g]
      /\ UNCHANGED <<family, pending, processed, handed>> /\ family[g] \in Families
      /\ \A h \in Queues : Through(h)' = Through(h)
  <2>1. n \in Nat
    <3>1. MaxItems \in Nat
      BY VulkanAssumption
    <3>2. QED
      BY <3>1
  <2>2. family[g] \in Families
    BY DEF SubmitBatch, Call, Data
  <2>3. QED
    BY <1>1, <2>1, <2>2, IdsAre DEF Grown, lists, gpu, Through
<1>3. /\ pc[t] = "idle" /\ pc'[t] = "build" /\ call'[t].queue = g
      /\ call'[t].todo = [k \in 1 .. n |-> Len(meta) + k]
      /\ \A u \in Threads \ {t} : pc'[u] = pc[u] /\ call'[u] = call[u] /\ Item(u)' = Item(u)
  BY <1>1 DEF Grown, Data, Item
<1>4. \A i \in Range(call'[t].todo) : i \in Ids' \ Ids /\ \A j \in Ids : j < i
  <2>1. call'[t].todo \in Seq(Ids')
    BY <1>1, <1>3 DEF Grown
  <2>2. Range(call'[t].todo) \subseteq Ids'
    BY <2>1, RangeOfSeq
  <2>3. \A i \in Range(call'[t].todo) : \E k \in 1 .. n : i = Len(meta) + k
    BY <1>3 DEF Range
  <2>4. QED
    BY <1>2, <2>2, <2>3
<1>5. \A u \in Threads \ {t} :
        /\ Range(call[u].todo) \subseteq Ids
        /\ pc[u] \in Submitting => Item(u) \in Ids
  BY ItemIs, RangeOfSeq DEF Data
<1>6. /\ \A h \in Queues : Range(Through(h)) \subseteq Ids
      /\ \A f \in Families : Range(handed[f]) \subseteq Ids
  BY ThroughIs, RangeOfSeq DEF Data
<1>7. Underway'
  <2>1. /\ pc'[t] \in Submitting /\ pc'[t] \notin {"submit", "vkQueueSubmit", "record"}
        /\ \A i \in Range(call'[t].todo) : meta'[i].thread = t /\ meta'[i].queue = call'[t].queue
    BY <1>2, <1>3, <1>4 DEF Submitting
  <2>2. \A j, k \in DOMAIN call'[t].todo : j < k => call'[t].todo[j] < call'[t].todo[k]
    BY <1>2, <1>3
  <2>3. ASSUME NEW u \in Threads \ {t}
        PROVE  /\ pc'[u] \notin Submitting => call'[u].todo = <<>>
               /\ \A i \in Range(call'[u].todo) :
                    meta'[i].thread = u /\ meta'[i].queue = call'[u].queue
               /\ \A j, k \in DOMAIN call'[u].todo : j < k => call'[u].todo[j] < call'[u].todo[k]
               /\ pc'[u] \in {"submit", "vkQueueSubmit", "record"}
                    => meta'[Item(u)'].info.command_buffer = "of Vulkan"
    <3>1. pc'[u] = pc[u] /\ call'[u] = call[u] /\ Item(u)' = Item(u)
      BY <1>3
    <3>2. \A i \in Range(call[u].todo) : meta'[i] = meta[i]
      BY <1>2, <1>5
    <3>3. pc[u] \in Submitting => meta'[Item(u)] = meta[Item(u)]
      BY <1>2, <1>5
    <3>4. /\ pc[u] \notin Submitting => call[u].todo = <<>>
          /\ \A i \in Range(call[u].todo) : meta[i].thread = u /\ meta[i].queue = call[u].queue
          /\ \A j, k \in DOMAIN call[u].todo : j < k => call[u].todo[j] < call[u].todo[k]
          /\ pc[u] \in {"submit", "vkQueueSubmit", "record"}
               => meta[Item(u)].info.command_buffer = "of Vulkan"
      BY DEF Ordered, Underway
    <3>5. pc[u] \in {"submit", "vkQueueSubmit", "record"} => pc[u] \in Submitting
      BY DEF Submitting
    <3>6. QED
      BY <3>1, <3>2, <3>3, <3>4, <3>5
  <2>4. QED
    BY <2>1, <2>2, <2>3 DEF Underway
<1>8. Routed'
  <2>1. ASSUME NEW i \in Ids' PROVE family'[meta'[i].queue] \in {NoFamily, meta'[i].vk_queue}
    <3>1. CASE i \in Ids
      <4>1. family[meta[i].queue] \in {NoFamily, meta[i].vk_queue}
        BY <3>1 DEF Ordered, Routed
      <4>2. QED
        BY <1>2, <3>1, <4>1
    <3>2. CASE i \notin Ids
      BY <1>2, <3>2
    <3>3. QED
      BY <3>1, <3>2
  <2>2. ASSUME NEW h \in Queues, NEW i \in Range(Through(h)')
        PROVE  meta'[i].queue = h /\ meta'[i].info.command_buffer = "of Vulkan"
    <3>1. i \in Range(Through(h)) /\ i \in Ids
      BY <1>2, <1>6
    <3>2. meta[i].queue = h /\ meta[i].info.command_buffer = "of Vulkan"
      BY <3>1 DEF Ordered, Routed
    <3>3. QED
      BY <1>2, <3>1, <3>2
  <2>3. ASSUME NEW f \in Families, NEW i \in Range(handed'[f])
        PROVE  meta'[i].vk_queue = f /\ meta'[i].info.command_buffer = "of Vulkan"
    <3>1. i \in Range(handed[f]) /\ i \in Ids
      BY <1>2, <1>6
    <3>2. meta[i].vk_queue = f /\ meta[i].info.command_buffer = "of Vulkan"
      BY <3>1 DEF Ordered, Routed
    <3>3. QED
      BY <1>2, <3>1, <3>2
  <2>4. QED
    BY <2>1, <2>2, <2>3 DEF Routed
<1>9. Ahead'
  <2>1. ASSUME NEW i \in Range(call'[t].todo)
        PROVE  /\ \A h \in Queues : \A j \in Range(Through(h)') : j < i
               /\ \A f \in Families : \A j \in Range(handed'[f]) : j < i
    BY <1>2, <1>4, <1>6
  <2>2. ASSUME NEW u \in Threads \ {t}, NEW i \in Range(call'[u].todo)
        PROVE  /\ \A h \in Queues : \A j \in Range(Through(h)') : meta'[j].thread = u => j < i
               /\ \A f \in Families : \A j \in Range(handed'[f]) :
                    meta'[j].thread = u => j < i \/ (pc'[u] = "record" /\ j = Item(u)')
    <3>1. i \in Range(call[u].todo) /\ pc'[u] = pc[u] /\ Item(u)' = Item(u)
      BY <1>3, <2>2
    <3>2. /\ \A h \in Queues : \A j \in Range(Through(h)) : meta[j].thread = u => j < i
          /\ \A f \in Families : \A j \in Range(handed[f]) :
               meta[j].thread = u => j < i \/ (pc[u] = "record" /\ j = Item(u))
      BY <3>1 DEF Ordered, Ahead
    <3>3. \A h \in Queues : \A j \in Range(Through(h)') : meta'[j].thread = u => j < i
      <4> SUFFICES ASSUME NEW h \in Queues, NEW j \in Range(Through(h)'), meta'[j].thread = u
                   PROVE  j < i
        OBVIOUS
      <4>1. j \in Range(Through(h)) /\ j \in Ids
        BY <1>2, <1>6
      <4>2. QED
        BY <1>2, <3>2, <4>1
    <3>4. \A f \in Families : \A j \in Range(handed'[f]) :
            meta'[j].thread = u => j < i \/ (pc'[u] = "record" /\ j = Item(u)')
      <4> SUFFICES ASSUME NEW f \in Families, NEW j \in Range(handed'[f]), meta'[j].thread = u
                   PROVE  j < i \/ (pc'[u] = "record" /\ j = Item(u)')
        OBVIOUS
      <4>1. j \in Range(handed[f]) /\ j \in Ids
        BY <1>2, <1>6
      <4>2. QED
        BY <1>2, <3>1, <3>2, <4>1
    <3>5. QED
      BY <3>3, <3>4
  <2>3. QED
    BY <2>1, <2>2 DEF Ahead
<1>10. CallerOrderKept'
  <2>1. ASSUME NEW list \in Seq(Ids), InCallOrder(list)
        PROVE  \A j, k \in DOMAIN list :
                 j < k /\ meta'[list[j]].thread = meta'[list[k]].thread => list[j] < list[k]
    <3>1. \A j \in DOMAIN list : list[j] \in Ids
      BY <2>1
    <3>2. QED
      BY <1>2, <2>1, <3>1 DEF InCallOrder
  <2>2. \A h \in Queues : Through(h) \in Seq(Ids)
    BY ThroughIs
  <2>3. \A f \in Families : handed[f] \in Seq(Ids)
    BY DEF Data
  <2>4. /\ \A h \in Queues : InCallOrder(Through(h))
        /\ \A f \in Families : InCallOrder(handed[f])
    BY DEF Ordered, CallerOrderKept
  <2>5. \A h \in Queues : InCallOrder(Through(h))'
    <3> SUFFICES ASSUME NEW h \in Queues PROVE InCallOrder(Through(h))'
      OBVIOUS
    <3>1. Through(h)' = Through(h)
      BY <1>2
    <3>2. \A j, k \in DOMAIN Through(h) :
            j < k /\ meta'[Through(h)[j]].thread = meta'[Through(h)[k]].thread
              => Through(h)[j] < Through(h)[k]
      BY <2>1, <2>2, <2>4
    <3>3. QED
      BY <3>1, <3>2 DEF InCallOrder
  <2>6. \A f \in Families : InCallOrder(handed[f])'
    BY <1>2, <2>1, <2>3, <2>4 DEF InCallOrder
  <2>7. QED
    BY <2>5, <2>6 DEF CallerOrderKept
<1>11. Accounted'
  <2>1. ASSUME NEW h \in Queues
        PROVE  Recording(h)' = Recording(h) /\ Handed(h)' = Handed(h)
    <3>1. \A i : (\E u \in Threads : pc'[u] = "record" /\ Item(u)' = i)
                   <=> \E u \in Threads : pc[u] = "record" /\ Item(u) = i
      BY <1>3
    <3>2. \A i : (\E u \in Threads : pc[u] = "record" /\ Item(u) = i) => i \in Ids
      BY <1>3, <1>5 DEF Submitting
    <3>3. Recording(h)' = Recording(h)
      BY <1>2, <3>1, <3>2 DEF Recording
    <3>4. Handed(h)' = Handed(h)
      BY <1>2, <1>6 DEF Handed
    <3>5. QED
      BY <3>3, <3>4
  <2>2. QED
    BY <1>2, <2>1 DEF Accounted
<1>12. QED
  BY <1>7, <1>8, <1>9, <1>10, <1>11 DEF Ordered

(* What is left of a call comes after its next submission.                 *)
LEMMA FirstOfAll ==
  ASSUME Data, Busy, Underway, NEW t \in Threads, pc[t] \in Submitting
  PROVE  /\ \A i \in Range(Tail(call[t].todo)) : Item(t) < i
         /\ \A j, k \in DOMAIN Tail(call[t].todo) :
              j < k => Tail(call[t].todo)[j] < Tail(call[t].todo)[k]
<1> DEFINE todo == call[t].todo
<1>1. /\ todo \in Seq(Ids) /\ todo # <<>>
      /\ \A j, k \in DOMAIN todo : j < k => todo[j] < todo[k]
  BY DEF Data, Busy, Underway
<1> HIDE DEF todo
<1>2. /\ Tail(todo) \in Seq(Ids) /\ Len(Tail(todo)) = Len(todo) - 1
      /\ \A i \in 1 .. Len(Tail(todo)) : Tail(todo)[i] = todo[i + 1]
      /\ Head(todo) = todo[1] /\ DOMAIN todo = 1 .. Len(todo) /\ Len(todo) \in Nat
      /\ DOMAIN Tail(todo) = 1 .. Len(todo) - 1
  BY <1>1, HeadTailProperties, LenProperties
<1>3. \A i \in Range(Tail(todo)) : Head(todo) < i
  <2> SUFFICES ASSUME NEW k \in 1 .. Len(todo) - 1 PROVE Head(todo) < Tail(todo)[k]
    BY <1>2 DEF Range
  <2>1. 1 \in DOMAIN todo /\ k + 1 \in DOMAIN todo /\ 1 < k + 1
    BY <1>2
  <2>2. QED
    BY <1>1, <1>2, <2>1
<1>4. \A j, k \in DOMAIN Tail(todo) : j < k => Tail(todo)[j] < Tail(todo)[k]
  <2> SUFFICES ASSUME NEW j \in 1 .. Len(todo) - 1, NEW k \in 1 .. Len(todo) - 1, j < k
               PROVE  Tail(todo)[j] < Tail(todo)[k]
    BY <1>2
  <2>1. j + 1 \in DOMAIN todo /\ k + 1 \in DOMAIN todo /\ j + 1 < k + 1
    BY <1>2
  <2>2. QED
    BY <1>1, <1>2, <2>1
<1>5. QED
  BY <1>3, <1>4 DEF Item, todo

(* What vkQueueSubmit was given is later than all that its thread has      *)
(* handed over.                                                            *)
LEMMA HandedOrdered ==
  ASSUME Types, Ordered, Accounted, NEW t \in Threads, VkQueueSubmitSucceeds(t)
  PROVE  Ordered' /\ Accounted'
<1> USE DEF Types
<1> DEFINE x == Item(t)
           h == family[call[t].queue]
<1>1. /\ UNCHANGED <<family, meta, pending, processed, call>> /\ Ids' = Ids
      /\ pc[t] = "vkQueueSubmit" /\ pc[t] \in Submitting
      /\ handed' = [handed EXCEPT ![h] = Append(@, x)]
      /\ Goto(t, "record")
  BY DEF VkQueueSubmitSucceeds, submissions, Ids, Submitting
<1>2. /\ pc'[t] = "record" /\ \A u \in Threads \ {t} : pc'[u] = pc[u]
      /\ \A u \in Threads : Item(u)' = Item(u)
      /\ \A g \in Queues : Through(g)' = Through(g)
  BY <1>1, Going DEF Places, Item, Through
<1>3. /\ x \in Ids /\ h \in Families /\ h # NoFamily
      /\ Range(call[t].todo) = {x} \cup Range(Tail(call[t].todo))
  BY <1>1, ItemIs, VulkanAssumption
<1>4. /\ meta[x].thread = t /\ meta[x].queue = call[t].queue /\ meta[x].vk_queue = h
      /\ meta[x].info.command_buffer = "of Vulkan"
  <2>1. /\ meta[x].thread = t /\ meta[x].queue = call[t].queue
        /\ meta[x].info.command_buffer = "of Vulkan"
    BY <1>1, <1>3 DEF Ordered, Underway
  <2>2. family[meta[x].queue] \in {NoFamily, meta[x].vk_queue}
    BY <1>3 DEF Ordered, Routed
  <2>3. QED
    BY <1>3, <2>1, <2>2
<1>5. /\ handed'[h] = Append(handed[h], x) /\ Range(handed'[h]) = Range(handed[h]) \cup {x}
      /\ \A f \in Families \ {h} : handed'[f] = handed[f]
      /\ \A f \in Families : handed[f] \in Seq(Ids)
  <2>1. handed \in [Families -> Seq(Ids)]
    BY DEF Data
  <2>2. handed'[h] = Append(handed[h], x) /\ \A f \in Families \ {h} : handed'[f] = handed[f]
    BY <1>1, <1>3, <2>1
  <2>3. Range(Append(handed[h], x)) = Range(handed[h]) \cup {x}
    BY <1>3, <2>1, Elements
  <2>4. QED
    BY <2>1, <2>2, <2>3
<1> HIDE DEF x, h
<1>6. Underway'
  <2> SUFFICES ASSUME NEW u \in Threads
               PROVE  /\ pc'[u] \notin Submitting => call[u].todo = <<>>
                      /\ \A i \in Range(call[u].todo) :
                           meta[i].thread = u /\ meta[i].queue = call[u].queue
                      /\ \A j, k \in DOMAIN call[u].todo : j < k => call[u].todo[j] < call[u].todo[k]
                      /\ pc'[u] \in {"submit", "vkQueueSubmit", "record"}
                           => meta[Item(u)].info.command_buffer = "of Vulkan"
    BY <1>1, <1>2 DEF Underway
  <2>1. /\ pc[u] \notin Submitting => call[u].todo = <<>>
        /\ \A i \in Range(call[u].todo) : meta[i].thread = u /\ meta[i].queue = call[u].queue
        /\ \A j, k \in DOMAIN call[u].todo : j < k => call[u].todo[j] < call[u].todo[k]
        /\ pc[u] \in {"submit", "vkQueueSubmit", "record"}
             => meta[Item(u)].info.command_buffer = "of Vulkan"
    BY DEF Ordered, Underway
  <2>2. CASE u = t
    BY <1>1, <1>2, <2>1, <2>2 DEF Submitting
  <2>3. CASE u # t
    BY <1>2, <2>1, <2>3
  <2>4. QED
    BY <2>2, <2>3
<1>7. Routed'
  <2>1. ASSUME NEW f \in Families, NEW i \in Range(handed'[f])
        PROVE  meta[i].vk_queue = f /\ meta[i].info.command_buffer = "of Vulkan"
    <3>1. CASE f = h /\ i = x
      BY <1>4, <3>1
    <3>2. CASE i \in Range(handed[f])
      BY <3>2 DEF Ordered, Routed
    <3>3. QED
      BY <1>5, <3>1, <3>2
  <2>2. \A i \in Ids : family[meta[i].queue] \in {NoFamily, meta[i].vk_queue}
    BY DEF Ordered, Routed
  <2>3. ASSUME NEW g \in Queues
        PROVE  \A i \in Range(Through(g)') :
                 meta[i].queue = g /\ meta[i].info.command_buffer = "of Vulkan"
    <3>1. Through(g)' = Through(g)
      BY <1>2
    <3>2. \A i \in Range(Through(g)) :
            meta[i].queue = g /\ meta[i].info.command_buffer = "of Vulkan"
      BY DEF Ordered, Routed
    <3>3. QED
      BY <3>1, <3>2
  <2>4. UNCHANGED <<family, meta>> /\ Ids' = Ids
    BY <1>1
  <2>5. QED
    BY <2>1, <2>2, <2>3, <2>4 DEF Routed
<1>8. Ahead'
  <2> SUFFICES ASSUME NEW u \in Threads, NEW i \in Range(call[u].todo), NEW f \in Families,
                      NEW j \in Range(handed'[f]), meta[j].thread = u
               PROVE  j < i \/ (pc'[u] = "record" /\ j = Item(u))
    BY <1>1, <1>2 DEF Ordered, Ahead
  <2>1. CASE j \in Range(handed[f])
    <3>1. j < i \/ (pc[u] = "record" /\ j = Item(u))
      BY <2>1 DEF Ordered, Ahead
    <3>2. QED
      BY <1>2, <3>1
  <2>2. CASE j = x
    <3>1. u = t
      BY <1>4, <2>2
    <3>2. i = x \/ x < i
      BY <1>1, <1>3, <3>1, FirstOfAll DEF Ordered, x
    <3>3. QED
      BY <1>2, <2>2, <3>1, <3>2 DEF x
  <2>3. QED
    BY <1>5, <2>1, <2>2
<1>9. CallerOrderKept'
  <2>1. \A y \in Range(handed[h]) : meta[y].thread = meta[x].thread => y < x
    BY <1>1, <1>3, <1>4 DEF Ordered, Ahead
  <2>2. InCallOrder(Append(handed[h], x))
    BY <1>3, <1>5, <2>1, OrderAppended DEF Ordered, CallerOrderKept
  <2>3. \A f \in Families : InCallOrder(handed'[f])
    <3> SUFFICES ASSUME NEW f \in Families PROVE InCallOrder(handed'[f])
      OBVIOUS
    <3>1. CASE f = h
      BY <1>5, <2>2, <3>1
    <3>2. CASE f # h
      BY <1>5, <3>2 DEF Ordered, CallerOrderKept
    <3>3. QED
      BY <3>1, <3>2
  <2>4. \A g \in Queues : InCallOrder(Through(g))
    BY DEF Ordered, CallerOrderKept
  <2>5. QED
    BY <1>1, <1>2, <2>3, <2>4 DEF CallerOrderKept, InCallOrder
<1>10. Accounted'
  <2> SUFFICES ASSUME NEW g \in Queues, family[g] # NoFamily
               PROVE  Range(Through(g)) \cup Recording(g)' = Handed(g)'
    BY <1>1, <1>2 DEF Accounted
  <2>1. Range(Through(g)) \cup Recording(g) = Handed(g)
    BY DEF Accounted
  <2>2. CASE meta[x].queue = g
    <3>1. Recording(g)' = Recording(g) \cup {x}
      BY <1>1, <1>2, <1>3, <2>2 DEF Recording, x
    <3>2. Handed(g)' = Handed(g) \cup {x}
      BY <1>1, <1>3, <1>5, <2>2 DEF Handed
    <3>3. QED
      BY <2>1, <3>1, <3>2
  <2>3. CASE meta[x].queue # g
    <3>1. Recording(g)' = Recording(g)
      BY <1>1, <1>2, <1>3, <2>3 DEF Recording, x
    <3>2. Handed(g)' = Handed(g)
      BY <1>1, <1>3, <1>5, <2>3 DEF Handed
    <3>3. QED
      BY <2>1, <3>1, <3>2
  <2>4. QED
    BY <2>2, <2>3
<1>11. QED
  BY <1>6, <1>7, <1>8, <1>9, <1>10 DEF Ordered

(* What a queue records is later than all of its thread that went through  *)
(* the queue.                                                              *)
LEMMA RecordedOrdered ==
  ASSUME Types, Ordered, Accounted, NEW t \in Threads, RecordPending(t)
  PROVE  Ordered' /\ Accounted'
<1> USE DEF Types
<1> DEFINE x == Item(t)
           h == call[t].queue
           rest == Tail(call[t].todo)
<1>1. /\ UNCHANGED <<family, meta, processed, handed>> /\ Ids' = Ids
      /\ pc[t] = "record" /\ pc[t] \in Submitting
      /\ pending' = [pending EXCEPT ![h] = Append(@, x)]
      /\ \/ rest = <<>> /\ Return(t)
         \/ rest # <<>> /\ Goto(t, "build") /\ call' = [call EXCEPT ![t].todo = rest]
  BY DEF RecordPending, gpu, Ids, Submitting
<1>2. /\ x \in Ids /\ h \in Queues /\ rest \in Seq(Ids)
      /\ Range(call[t].todo) = {x} \cup Range(rest)
      /\ \A i \in Range(rest) : x < i
      /\ \A j, k \in DOMAIN rest : j < k => rest[j] < rest[k]
  BY <1>1, ItemIs, FirstOfAll DEF Ordered
<1>3. /\ call'[t].todo = rest /\ pc'[t] # "record"
      /\ pc'[t] \notin {"submit", "vkQueueSubmit", "record"}
      /\ pc'[t] \notin Submitting => rest = <<>>
      /\ rest # <<>> => call'[t].queue = h
      /\ \A u \in Threads \ {t} : pc'[u] = pc[u] /\ call'[u] = call[u] /\ Item(u)' = Item(u)
  <2>1. CASE rest = <<>> /\ Return(t)
    <3>1. pc'[t] = "idle" /\ call'[t].todo = <<>>
      BY <1>1, <2>1, Returning DEF NoCall
    <3>2. \A u \in Threads \ {t} : pc'[u] = pc[u] /\ call'[u] = call[u]
      BY <1>1, <2>1, Returning
    <3>3. QED
      <4> HIDE DEF rest
      <4> QED BY <2>1, <3>1, <3>2 DEF Item
  <2>2. CASE Goto(t, "build") /\ call' = [call EXCEPT ![t].todo = rest]
    <3>1. pc'[t] = "build" /\ \A u \in Threads \ {t} : pc'[u] = pc[u]
      BY <1>1, <2>2, Going DEF Places
    <3>2. /\ call'[t].todo = rest /\ call'[t].queue = h
          /\ \A u \in Threads \ {t} : call'[u] = call[u]
      <4> HIDE DEF rest
      <4> QED BY <2>2 DEF Data
    <3>3. QED
      <4> HIDE DEF rest
      <4> QED BY <3>1, <3>2 DEF Item, Submitting
  <2>3. QED
    BY <1>1, <2>1, <2>2
<1>4. /\ meta[x].thread = t /\ meta[x].queue = h
      /\ meta[x].info.command_buffer = "of Vulkan"
  BY <1>1, <1>2 DEF Ordered, Underway
<1> HIDE DEF x, h, rest
<1> DEFINE after == [g \in Queues |-> Through(g)']
<1>p. \A g \in Queues : Through(g)' = after[g]
  OBVIOUS
<1> HIDE DEF after
<1>5. /\ after[h] = Append(Through(h), x)
      /\ Range(after[h]) = Range(Through(h)) \cup {x}
      /\ \A g \in Queues \ {h} : after[g] = Through(g)
      /\ \A g \in Queues : Through(g) \in Seq(Ids)
  <2>1. pending \in [Queues -> Seq(Ids)] /\ processed \in [Queues -> Seq(Ids)]
    BY DEF Data
  <2>2. pending'[h] = Append(pending[h], x) /\ \A g \in Queues \ {h} : pending'[g] = pending[g]
    BY <1>1, <1>2, <2>1
  <2>3. processed[h] \o Append(pending[h], x) = Append(processed[h] \o pending[h], x)
    BY <1>2, <2>1, RecordedLast
  <2>4. after[h] = Append(Through(h), x) /\ \A g \in Queues \ {h} : after[g] = Through(g)
    <3>1. \A g \in Queues : after[g] = processed[g] \o pending'[g]
      BY <1>1 DEF after, Through
    <3>2. QED
      BY <1>2, <2>2, <2>3, <3>1 DEF Through
  <2>5. \A g \in Queues : Through(g) \in Seq(Ids)
    BY ThroughIs
  <2>6. Range(Append(Through(h), x)) = Range(Through(h)) \cup {x}
    BY <1>2, <2>5, Elements
  <2>7. QED
    BY <2>4, <2>5, <2>6
<1>6. Underway'
  <2>1. \A i \in Range(rest) : meta[i].thread = t /\ meta[i].queue = h
    BY <1>2 DEF Ordered, Underway, h
  <2>2. \A i \in Range(rest) : meta[i].thread = t /\ meta[i].queue = call'[t].queue
    <3>1. rest # <<>> \/ Range(rest) = {}
      BY DEF Range
    <3>2. QED
      BY <1>3, <2>1, <3>1
  <2>3. ASSUME NEW u \in Threads
        PROVE  /\ pc'[u] \notin Submitting => call'[u].todo = <<>>
               /\ \A i \in Range(call'[u].todo) :
                    meta[i].thread = u /\ meta[i].queue = call'[u].queue
               /\ \A j, k \in DOMAIN call'[u].todo : j < k => call'[u].todo[j] < call'[u].todo[k]
               /\ pc'[u] \in {"submit", "vkQueueSubmit", "record"}
                    => meta[Item(u)'].info.command_buffer = "of Vulkan"
    <3>1. CASE u = t
      BY <1>2, <1>3, <2>2, <3>1
    <3>2. CASE u # t
      <4>1. pc'[u] = pc[u] /\ call'[u] = call[u] /\ Item(u)' = Item(u)
        BY <1>3, <3>2
      <4>2. /\ pc[u] \notin Submitting => call[u].todo = <<>>
            /\ \A i \in Range(call[u].todo) : meta[i].thread = u /\ meta[i].queue = call[u].queue
            /\ \A j, k \in DOMAIN call[u].todo : j < k => call[u].todo[j] < call[u].todo[k]
            /\ pc[u] \in {"submit", "vkQueueSubmit", "record"}
                 => meta[Item(u)].info.command_buffer = "of Vulkan"
        BY DEF Ordered, Underway
      <4>3. QED
        BY <4>1, <4>2
    <3>3. QED
      BY <3>1, <3>2
  <2>4. QED
    BY <1>1, <2>3 DEF Underway
<1>7. Routed'
  <2>1. ASSUME NEW g \in Queues, NEW i \in Range(after[g])
        PROVE  meta[i].queue = g /\ meta[i].info.command_buffer = "of Vulkan"
    <3>1. CASE g = h /\ i = x
      BY <1>4, <3>1
    <3>2. CASE i \in Range(Through(g))
      BY <3>2 DEF Ordered, Routed
    <3>3. QED
      BY <1>5, <3>1, <3>2
  <2>2. QED
    <3>1. \A i \in Ids : family[meta[i].queue] \in {NoFamily, meta[i].vk_queue}
      BY DEF Ordered, Routed
    <3>2. \A f \in Families : \A i \in Range(handed[f]) :
            meta[i].vk_queue = f /\ meta[i].info.command_buffer = "of Vulkan"
      BY DEF Ordered, Routed
    <3>3. \A g \in Queues : \A i \in Range(Through(g)') :
            meta[i].queue = g /\ meta[i].info.command_buffer = "of Vulkan"
      <4> SUFFICES ASSUME NEW g \in Queues
                   PROVE  \A i \in Range(Through(g)') :
                            meta[i].queue = g /\ meta[i].info.command_buffer = "of Vulkan"
        OBVIOUS
      <4>1. Through(g)' = after[g]
        BY <1>p
      <4>2. QED
        BY <2>1, <4>1
    <3>4. QED
      BY <1>1, <3>1, <3>2, <3>3 DEF Routed
<1>8. Ahead'
  <2>1. ASSUME NEW u \in Threads, NEW i \in Range(call'[u].todo)
        PROVE  /\ i \in Range(call[u].todo)
               /\ u = t => x < i
    BY <1>2, <1>3
  <2>2. ASSUME NEW u \in Threads, NEW i \in Range(call'[u].todo), NEW g \in Queues,
               NEW j \in Range(after[g]), meta[j].thread = u
        PROVE  j < i
    <3>1. CASE j \in Range(Through(g))
      BY <2>1, <2>2, <3>1 DEF Ordered, Ahead
    <3>2. CASE j = x
      BY <1>4, <2>1, <2>2, <3>2
    <3>3. QED
      BY <1>5, <3>1, <3>2
  <2>3. ASSUME NEW u \in Threads, NEW i \in Range(call'[u].todo), NEW f \in Families,
               NEW j \in Range(handed[f]), meta[j].thread = u
        PROVE  j < i \/ (pc'[u] = "record" /\ j = Item(u)')
    <3>1. j < i \/ (pc[u] = "record" /\ j = Item(u))
      BY <2>1, <2>3 DEF Ordered, Ahead
    <3>2. CASE u = t /\ j = x
      BY <2>1, <3>2
    <3>3. QED
      BY <1>3, <3>1, <3>2 DEF x
  <2>4. QED
    BY <1>1, <1>p, <2>2, <2>3 DEF Ahead
<1>9. CallerOrderKept'
  <2>1. \A y \in Range(Through(h)) : meta[y].thread = meta[x].thread => y < x
    BY <1>2, <1>4 DEF Ordered, Ahead
  <2>2. InCallOrder(Append(Through(h), x))
    BY <1>2, <1>5, <2>1, OrderAppended DEF Ordered, CallerOrderKept
  <2>3. \A g \in Queues : InCallOrder(after[g])
    <3> SUFFICES ASSUME NEW g \in Queues PROVE InCallOrder(after[g])
      OBVIOUS
    <3>1. CASE g = h
      BY <1>5, <2>2, <3>1
    <3>2. CASE g # h
      BY <1>5, <3>2 DEF Ordered, CallerOrderKept
    <3>3. QED
      BY <3>1, <3>2
  <2>4. \A f \in Families : InCallOrder(handed[f])
    BY DEF Ordered, CallerOrderKept
  <2>5. QED
    BY <1>1, <1>p, <2>3, <2>4 DEF CallerOrderKept, InCallOrder
<1>10. Accounted'
  <2> SUFFICES ASSUME NEW g \in Queues, family[g] # NoFamily
               PROVE  Range(after[g]) \cup Recording(g)' = Handed(g)
    BY <1>1, <1>p DEF Accounted, Handed
  <2>1. Range(Through(g)) \cup Recording(g) = Handed(g)
    BY DEF Accounted
  <2>2. Recording(g)' \subseteq Recording(g) /\ Recording(g) \subseteq Recording(g)' \cup {x}
    BY <1>1, <1>3 DEF Recording, x
  <2>3. CASE g = h
    <3>1. x \in Recording(g)
      BY <1>1, <1>2, <1>4, <2>3 DEF Recording, x
    <3>2. QED
      BY <1>5, <2>1, <2>2, <2>3, <3>1
  <2>4. CASE g # h
    <3>1. x \notin Recording(g)
      BY <1>4, <2>4 DEF Recording
    <3>2. QED
      BY <1>5, <2>1, <2>2, <2>4, <3>1
  <2>5. QED
    BY <2>3, <2>4
<1>11. QED
  BY <1>6, <1>7, <1>8, <1>9, <1>10 DEF Ordered

(* The beginning of a list in call order is in call order.                 *)
LEMMA OrderedPrefix ==
  ASSUME Data, NEW p \in Seq(Ids), NEW q \in Seq(Ids), InCallOrder(p \o q)
  PROVE  InCallOrder(p) /\ Range(p) \subseteq Range(p \o q)
<1>1. /\ Len(p) \in Nat /\ Len(q) \in Nat /\ DOMAIN p = 1 .. Len(p)
      /\ DOMAIN (p \o q) = 1 .. Len(p) + Len(q)
      /\ \A k \in 1 .. Len(p) : (p \o q)[k] = p[k]
  BY ConcatProperties, LenProperties
<1>2. \A k \in DOMAIN p : k \in DOMAIN (p \o q) /\ (p \o q)[k] = p[k]
  BY <1>1
<1>3. InCallOrder(p)
  BY <1>2 DEF InCallOrder
<1>4. Range(p) \subseteq Range(p \o q)
  BY <1>2 DEF Range
<1>5. QED
  BY <1>3, <1>4

(* A queue that is destroyed leaves what it has processed.                 *)
LEMMA DestroyOrdered ==
  ASSUME Types, Ordered, Accounted, NEW h \in Queues, DestroyQueue(h)
  PROVE  Ordered' /\ Accounted'
<1> USE DEF Types
<1>1. /\ UNCHANGED <<meta, processed, handed, pc, call>> /\ Ids' = Ids
      /\ family' = [family EXCEPT ![h] = NoFamily]
      /\ pending' = [pending EXCEPT ![h] = <<>>]
  BY DEF DestroyQueue, gpu, threads, Ids
<1> DEFINE after == [g \in Queues |-> Through(g)']
<1>p. \A g \in Queues : Through(g)' = after[g]
  OBVIOUS
<1>2. \A t \in Threads : Item(t)' = Item(t)
  BY <1>1 DEF Item
<1>3. /\ \A g \in Queues : Through(g) \in Seq(Ids)
      /\ \A g \in Queues \ {h} : after[g] = Through(g)
      /\ Range(after[h]) \subseteq Range(Through(h)) /\ InCallOrder(after[h])
  <2>1. pending \in [Queues -> Seq(Ids)] /\ processed \in [Queues -> Seq(Ids)]
    BY DEF Data
  <2>2. after[h] = processed[h] \o <<>>
    BY <1>1, <2>1 DEF Through
  <2>3. after[h] = processed[h]
    BY <2>1, <2>2, ConcatEmptySeq
  <2>4. \A g \in Queues \ {h} : after[g] = Through(g)
    BY <1>1, <2>1 DEF Through
  <2>5. InCallOrder(processed[h] \o pending[h])
    BY DEF Ordered, CallerOrderKept, Through
  <2>6. InCallOrder(processed[h]) /\ Range(processed[h]) \subseteq Range(processed[h] \o pending[h])
    BY <2>1, <2>5, OrderedPrefix
  <2>7. \A g \in Queues : Through(g) \in Seq(Ids)
    BY ThroughIs
  <2>8. QED
    <3> HIDE DEF after
    <3> QED BY <2>3, <2>4, <2>6, <2>7 DEF Through
<1> HIDE DEF after
<1>4. \A g \in Queues : Range(after[g]) \subseteq Range(Through(g))
  BY <1>3
<1>5. Underway'
  BY <1>1, <1>2 DEF Ordered, Underway
<1>6. Routed'
  <2>1. \A i \in Ids : family'[meta[i].queue] \in {NoFamily, meta[i].vk_queue}
    <3> SUFFICES ASSUME NEW i \in Ids
                 PROVE  family'[meta[i].queue] \in {NoFamily, meta[i].vk_queue}
      OBVIOUS
    <3>1. meta[i] \in Submission
      BY IdsAre DEF Data
    <3>2. meta[i].queue \in Queues
      BY <3>1 DEF Submission
    <3>3. family[meta[i].queue] \in {NoFamily, meta[i].vk_queue}
      BY DEF Ordered, Routed
    <3>4. QED
      BY <1>1, <3>2, <3>3 DEF Data
  <2>2. ASSUME NEW g \in Queues
        PROVE  \A i \in Range(Through(g)') :
                 meta[i].queue = g /\ meta[i].info.command_buffer = "of Vulkan"
    <3>1. Range(Through(g)') \subseteq Range(Through(g))
      BY <1>4, <1>p
    <3>2. QED
      BY <3>1 DEF Ordered, Routed
  <2>3. \A f \in Families : \A i \in Range(handed[f]) :
          meta[i].vk_queue = f /\ meta[i].info.command_buffer = "of Vulkan"
    BY DEF Ordered, Routed
  <2>4. QED
    BY <1>1, <2>1, <2>2, <2>3 DEF Routed
<1>7. Ahead'
  <2>1. ASSUME NEW t \in Threads, NEW i \in Range(call[t].todo), NEW g \in Queues
        PROVE  \A j \in Range(Through(g)') : meta[j].thread = t => j < i
    <3>1. Range(Through(g)') \subseteq Range(Through(g))
      BY <1>4, <1>p
    <3>2. QED
      BY <3>1 DEF Ordered, Ahead
  <2>2. \A t \in Threads : \A i \in Range(call[t].todo) : \A f \in Families :
          \A j \in Range(handed[f]) :
            meta[j].thread = t => j < i \/ (pc[t] = "record" /\ j = Item(t))
    BY DEF Ordered, Ahead
  <2>3. QED
    BY <1>1, <1>2, <2>1, <2>2 DEF Ahead
<1>8. CallerOrderKept'
  <2>1. ASSUME NEW g \in Queues PROVE InCallOrder(Through(g))'
    <3>1. InCallOrder(after[g])
      BY <1>3 DEF Ordered, CallerOrderKept
    <3>2. Through(g)' = after[g]
      BY <1>p
    <3>3. QED
      BY <1>1, <3>1, <3>2 DEF InCallOrder
  <2>2. \A f \in Families : InCallOrder(handed[f])'
    BY <1>1 DEF Ordered, CallerOrderKept, InCallOrder
  <2>3. QED
    BY <2>1, <2>2 DEF CallerOrderKept
<1>9. Accounted'
  <2> SUFFICES ASSUME NEW g \in Queues, family'[g] # NoFamily
               PROVE  Range(Through(g)') \cup Recording(g)' = Handed(g)'
    BY DEF Accounted
  <2>1. g # h /\ family[g] # NoFamily
    BY <1>1 DEF Data
  <2>2. Through(g)' = Through(g)
    BY <1>3, <1>p, <2>1
  <2>3. Recording(g)' = Recording(g) /\ Handed(g)' = Handed(g)
    BY <1>1, <1>2 DEF Recording, Handed
  <2>4. QED
    BY <2>1, <2>2, <2>3 DEF Accounted
<1>10. QED
  BY <1>5, <1>6, <1>7, <1>8, <1>9 DEF Ordered

(* A queue that is created has no submissions yet.                         *)
LEMMA CreateOrdered ==
  ASSUME Types, Ordered, Accounted, NEW h \in Queues, NEW type \in DOMAIN FamilyOf,
         CreateQueue(h, type)
  PROVE  Ordered' /\ Accounted'
<1> USE DEF Types
<1>1. /\ UNCHANGED <<meta, pending, processed, handed, pc, call>> /\ Ids' = Ids
      /\ family' = [family EXCEPT ![h] = FamilyOf[type]]
      /\ \A i \in Ids : meta[i].queue # h
  BY DEF CreateQueue, submissions, gpu, threads, Ids
<1>2. /\ \A t \in Threads : Item(t)' = Item(t)
      /\ \A g \in Queues : Through(g)' = Through(g)
  BY <1>1 DEF Item, Through
<1>3. Underway'
  BY <1>1, <1>2 DEF Ordered, Underway
<1>4. Routed'
  <2>1. ASSUME NEW i \in Ids PROVE family'[meta[i].queue] \in {NoFamily, meta[i].vk_queue}
    <3>1. family'[meta[i].queue] = family[meta[i].queue]
      <4>1. meta[i] \in Submission
        BY IdsAre DEF Data
      <4>2. meta[i].queue \in Queues /\ meta[i].queue # h
        BY <1>1, <4>1 DEF Submission
      <4>3. QED
        BY <1>1, <4>2 DEF Data
    <3>2. QED
      BY <3>1 DEF Ordered, Routed
  <2>2. ASSUME NEW g \in Queues
        PROVE  \A i \in Range(Through(g)') :
                 meta[i].queue = g /\ meta[i].info.command_buffer = "of Vulkan"
    <3>1. Through(g)' = Through(g)
      BY <1>2
    <3>2. \A i \in Range(Through(g)) :
            meta[i].queue = g /\ meta[i].info.command_buffer = "of Vulkan"
      BY DEF Ordered, Routed
    <3>3. QED
      BY <3>1, <3>2
  <2>3. \A f \in Families : \A i \in Range(handed[f]) :
          meta[i].vk_queue = f /\ meta[i].info.command_buffer = "of Vulkan"
    BY DEF Ordered, Routed
  <2>4. QED
    BY <1>1, <2>1, <2>2, <2>3 DEF Routed
<1>5. Ahead'
  BY <1>1, <1>2 DEF Ordered, Ahead
<1>6. CallerOrderKept'
  BY <1>1, <1>2 DEF Ordered, CallerOrderKept, InCallOrder
<1>7. Accounted'
  <2> SUFFICES ASSUME NEW g \in Queues, family'[g] # NoFamily
               PROVE  Range(Through(g)) \cup Recording(g)' = Handed(g)'
    BY <1>2 DEF Accounted
  <2>1. Recording(g)' = Recording(g) /\ Handed(g)' = Handed(g)
    BY <1>1, <1>2 DEF Recording, Handed
  <2>2. CASE g = h
    <3>1. Range(Through(h)) = {}
      BY <1>1, ThroughIs DEF Ordered, Routed
    <3>2. Recording(h) = {} /\ Handed(h) = {}
      BY <1>1 DEF Recording, Handed
    <3>3. QED
      BY <2>1, <2>2, <3>1, <3>2
  <2>3. CASE g # h
    BY <1>1, <2>1, <2>3 DEF Accounted, Data
  <2>4. QED
    BY <2>2, <2>3
<1>8. QED
  BY <1>3, <1>4, <1>5, <1>6, <1>7 DEF Ordered

(* The order holds initially and every step keeps it.                      *)
LEMMA OrderedInit == VulkanInit => Ordered /\ Accounted
<1> SUFFICES ASSUME VulkanInit PROVE Ordered /\ Accounted
  OBVIOUS
<1>1. Ids = {} /\ Range(<<>>) = {} /\ DOMAIN <<>> = {}
  BY DEF VulkanInit, Ids, Range
<1>2. \A g \in Queues : Through(g) = <<>>
  BY ConcatEmptySeq DEF VulkanInit, Through
<1>3. \A t \in Threads : call[t].todo = <<>> /\ pc[t] = "idle"
  BY DEF VulkanInit, NoCall
<1>4. \A f \in Families : handed[f] = <<>>
  BY DEF VulkanInit
<1>5. Underway
  BY <1>1, <1>3 DEF Underway
<1>6. Routed /\ Ahead
  BY <1>1, <1>2, <1>3, <1>4 DEF Routed, Ahead
<1>7. CallerOrderKept
  BY <1>1, <1>2, <1>4 DEF CallerOrderKept, InCallOrder
<1>8. Accounted
  BY <1>1, <1>2 DEF Accounted, Recording, Handed
<1>9. QED
  BY <1>5, <1>6, <1>7, <1>8 DEF Ordered

LEMMA OrderedStep ==
  Types /\ Ordered /\ Accounted /\ [VulkanNext]_vulkanVars => Ordered' /\ Accounted'
<1> SUFFICES ASSUME Types, Ordered, Accounted, [VulkanNext]_vulkanVars
             PROVE  Ordered' /\ Accounted'
  OBVIOUS
<1>1. \/ Quietly
      \/ \E g \in Queues, type \in DOMAIN FamilyOf : CreateQueue(g, type)
      \/ \E g \in Queues : DestroyQueue(g)
      \/ \E t \in Threads, g \in Queues : SubmitBatch(t, g)
      \/ \E t \in Threads : VkQueueSubmitSucceeds(t) \/ RecordPending(t)
  BY QuietSteps DEF Ordered
<1>2. QED
  BY <1>1, QuietOrdered, CreateOrdered, DestroyOrdered, BatchOrdered, HandedOrdered, RecordedOrdered

(* In every state what one thread submitted stands in the order of its     *)
(* calls in the list of each queue and in that of each VkQueue, though     *)
(* other threads may come between its two sections of mutex_.              *)
THEOREM CallOrderStands == VulkanSpec => []CallerOrderKept
<1>1. VulkanSpec => [](Types /\ Ordered /\ Accounted)
  BY TypesInit, TypesStep, OrderedInit, OrderedStep, PTL DEF VulkanSpec
<1>2. Ordered => CallerOrderKept
  BY DEF Ordered
<1>3. QED
  BY <1>1, <1>2, PTL

(* In every state the fence of a submission that moved after a wait that   *)
(* did not fail stands for all that its thread had handed to the same      *)
(* VkQueue until then: the wait saw the submission executed, and the       *)
(* VkQueue has what the thread handed over before in front of it.          *)
THEOREM FencesFollowTheGPU == VulkanSpec => []FenceCovers
<1>1. VulkanSpec => [](Types /\ Ordered /\ Accounted)
  BY TypesInit, TypesStep, OrderedInit, OrderedStep, PTL DEF VulkanSpec
<1>2. VulkanInit => Awaited
  BY DEF VulkanInit, Awaited, Ids
<1>3. VulkanSpec => []Awaited
  BY <1>1, <1>2, AwaitedStep, PTL DEF VulkanSpec
<1>4. Types /\ Ordered /\ Awaited => FenceCovers
  <2> SUFFICES ASSUME Types, Ordered, Awaited, NEW i \in Ids, WentThrough(i),
                      meta[i].info.fence, i \notin failed, ~lost
               PROVE  /\ Executed(i)
                      /\ \A h \in 1 .. i - 1 :
                           /\ meta[h].thread = meta[i].thread
                           /\ h \in Range(handed[VkQueueOf(i)])
                           => Executed(h)
    BY DEF FenceCovers
  <2>1. Executed(i)
    BY DEF Awaited
  <2> DEFINE f == VkQueueOf(i)
  <2>2. f \in Families /\ handed[f] \in Seq(Ids) /\ i \in Nat /\ finished[f] \in Nat
    <3>1. meta[i] \in Submission /\ i \in Nat
      BY IdsAre DEF Types, Data
    <3>2. f \in Families
      BY <3>1 DEF Submission, VkQueueOf
    <3>3. QED
      BY <3>1, <3>2 DEF Types, Data
  <2>3. SUFFICES ASSUME NEW h \in 1 .. i - 1, meta[h].thread = meta[i].thread,
                        h \in Range(handed[f])
                 PROVE  Executed(h)
    BY <2>1
  <2>4. PICK k \in DOMAIN handed[f] : k <= finished[f] /\ handed[f][k] = i
    BY <2>1 DEF Executed
  <2>5. PICK j \in DOMAIN handed[f] : handed[f][j] = h
    BY <2>3 DEF Range
  <2>6. VkQueueOf(h) = f
    BY <2>2, <2>3 DEF Ordered, Routed, VkQueueOf
  <2> HIDE DEF f
  <2>7. j \in Nat /\ k \in Nat /\ h < i
    BY <2>2, LenProperties
  <2>8. ~(k < j) /\ k # j
    <3>1. InCallOrder(handed[f])
      BY <2>2 DEF Ordered, CallerOrderKept
    <3>2. k < j => i < h
      BY <2>3, <2>4, <2>5, <3>1 DEF InCallOrder
    <3>3. QED
      BY <2>2, <2>4, <2>5, <2>7, <3>2
  <2>9. j <= finished[f]
    BY <2>2, <2>4, <2>7, <2>8
  <2>10. QED
    BY <2>5, <2>6, <2>9 DEF Executed
<1>5. QED
  BY <1>1, <1>3, <1>4, PTL

(* In every state what the GPU was handed through a queue that exists is   *)
(* just what went through the queue or is about to be recorded, and        *)
(* nothing went through a queue twice.                                     *)
THEOREM AllAccountedFor == VulkanSpec => []NothingLost
<1>1. VulkanSpec => [](Types /\ Ordered /\ Accounted)
  BY TypesInit, TypesStep, OrderedInit, OrderedStep, PTL DEF VulkanSpec
<1>2. Types /\ Ordered /\ Accounted => NothingLost
  <2> SUFFICES ASSUME Types, Ordered, Accounted, NEW g \in Queues
               PROVE  /\ IsInjective(Through(g))
                      /\ family[g] # NoFamily => Range(Through(g)) \cup Recording(g) = Handed(g)
    BY DEF NothingLost, Recording, Handed
  <2>1. Through(g) \in Seq(Ids) /\ InCallOrder(Through(g)) /\ Data
    BY ThroughIs DEF Types, Ordered, CallerOrderKept
  <2>2. QED
    BY <2>1, OrderedOnce DEF Accounted
<1>3. QED
  BY <1>1, <1>2, PTL

-----------------------------------------------------------------------------
(* What a thread is submitting of its call is not in any queue yet, and no *)
(* other thread has it.                                                    *)
LEMMA OneHolder ==
  ASSUME Types, Ordered, NEW t \in Threads, NEW i \in Range(call[t].todo)
  PROVE  /\ i \in Ids
         /\ \A g \in Queues : i \notin Range(Through(g))
         /\ \A u \in Threads : i \in Range(call[u].todo) => u = t
<1>1. i \in Ids /\ i \in Nat
  <2>1. call[t].todo \in Seq(Ids)
    BY DEF Types, Data
  <2>2. QED
    BY <2>1, RangeOfSeq, IdsAre DEF Types
<1>2. \A u \in Threads : i \in Range(call[u].todo) => meta[i].thread = u
  BY DEF Ordered, Underway
<1>3. \A g \in Queues : i \notin Range(Through(g))
  BY <1>1, <1>2 DEF Ordered, Ahead
<1>4. QED
  BY <1>1, <1>2, <1>3

(* A submission that is carried is one of its thread's call.               *)
LEMMA CarriedIs ==
  ASSUME Types, NEW t \in Threads, NEW i, Carries(t, i)
  PROVE  i \in Range(call[t].todo) /\ i \in Ids /\ pc[t] \in Submitting
<1>1. pc[t] \in Submitting /\ i = Item(t)
  BY DEF Carries, Submitting
<1>2. QED
  BY <1>1, ItemIs DEF Types

(* What was processed, and what waits, went through the queue.             *)
LEMMA BothThrough ==
  ASSUME Types, NEW g \in Queues
  PROVE  /\ pending[g] \in Seq(Ids) /\ processed[g] \in Seq(Ids)
         /\ Range(pending[g]) \subseteq Range(Through(g))
         /\ Range(processed[g]) \subseteq Range(Through(g))
BY ThroughIs DEF Types, Data

(* No id waits twice.                                                      *)
LEMMA WaitsOnce ==
  ASSUME Types, Ordered, NEW g \in Queues, pending[g] # <<>>
  PROVE  /\ Head(pending[g]) \in Range(pending[g])
         /\ Head(pending[g]) \notin Range(Tail(pending[g]))
         /\ Range(Tail(pending[g])) \subseteq Range(pending[g])
<1> DEFINE p == processed[g]
           q == pending[g]
<1>1. p \in Seq(Ids) /\ q \in Seq(Ids) /\ q # <<>>
  BY BothThrough
<1>2. IsInjective(p \o q)
  <2>1. Data /\ Through(g) \in Seq(Ids) /\ InCallOrder(Through(g))
    BY ThroughIs DEF Types, Ordered, CallerOrderKept
  <2>2. QED
    BY <2>1, OrderedOnce DEF Through
<1> HIDE DEF p, q
<1>3. /\ Len(p) \in Nat /\ Len(q) \in Nat /\ Len(q) >= 1
      /\ DOMAIN (p \o q) = 1 .. Len(p) + Len(q)
      /\ \A k \in 1 .. Len(q) : (p \o q)[Len(p) + k] = q[k]
      /\ Head(q) = q[1] /\ DOMAIN Tail(q) = 1 .. Len(q) - 1
      /\ \A k \in 1 .. Len(q) - 1 : Tail(q)[k] = q[k + 1]
  <2>1. Len(q) \in Nat /\ Len(q) >= 1 /\ Head(q) = q[1]
    BY <1>1, HeadTailProperties, LenProperties, EmptySeq
  <2>2. /\ Tail(q) \in Seq(Ids) /\ Len(Tail(q)) = Len(q) - 1
        /\ \A k \in 1 .. Len(Tail(q)) : Tail(q)[k] = q[k + 1]
    BY <1>1, HeadTailProperties
  <2>3. /\ Len(p) \in Nat /\ p \o q \in Seq(Ids) /\ Len(p \o q) = Len(p) + Len(q)
        /\ \A k \in 1 .. Len(p) + Len(q) :
             (p \o q)[k] = IF k <= Len(p) THEN p[k] ELSE q[k - Len(p)]
    BY <1>1, Joined, LenProperties
  <2>4. DOMAIN Tail(q) = 1 .. Len(q) - 1 /\ DOMAIN (p \o q) = 1 .. Len(p) + Len(q)
    BY <2>2, <2>3, LenProperties
  <2>5. QED
    BY <2>1, <2>2, <2>3, <2>4
<1>4. Head(q) \notin Range(Tail(q))
  <2> SUFFICES ASSUME NEW k \in 1 .. Len(q) - 1, q[1] = q[k + 1] PROVE FALSE
    BY SMTT(30), <1>3 DEF Range
  <2>1. /\ Len(p) + 1 \in DOMAIN (p \o q) /\ Len(p) + (k + 1) \in DOMAIN (p \o q)
        /\ (p \o q)[Len(p) + 1] = (p \o q)[Len(p) + (k + 1)]
    BY <1>3
  <2>2. Len(p) + 1 = Len(p) + (k + 1)
    BY <1>2, <2>1 DEF IsInjective
  <2>3. QED
    BY <1>3, <2>2
<1>5. Range(q) = {Head(q)} \cup Range(Tail(q))
  BY <1>1, Elements
<1>6. QED
  BY <1>4, <1>5 DEF q

(* Objects of two submissions are different ones.                          *)
LEMMA OwnObjects ==
  ASSUME NEW i, NEW j, i # j, NEW k
  PROVE  /\ Objects(i) \cap Objects(j) = {}
         /\ FirstObjects(i, k) \cap Objects(j) = {}
BY DEF Objects, FirstObjects

(* A step that makes and destroys no objects keeps them with their owners  *)
(* if nothing new is processed, carried or waiting.                        *)
LEMMA OwnedKept ==
  ASSUME Types, ObjectsOwned, alive' = alive,
         \A i \in Ids : meta'[i] = meta[i],
         \A i \in Ids' : WentThrough(i)' => i \in Ids /\ WentThrough(i),
         \A i \in Ids' : Waits(i)' \/ (\E t \in Threads : Carries(t, i)') =>
                           i \in Ids /\ (Waits(i) \/ \E t \in Threads : Carries(t, i))
  PROVE  ObjectsOwned'
<1> SUFFICES ASSUME NEW i \in Ids'
             PROVE  /\ WentThrough(i)' => Objects(i)' \cap alive = {}
                    /\ Waits(i)' \/ (\E t \in Threads : Carries(t, i)') => Objects(i)' \subseteq alive
  BY DEF ObjectsOwned
<1>1. i \in Ids => Objects(i)' = Objects(i)
  BY DEF Objects, FirstObjects, CountOf
<1>2. i \in Ids => /\ WentThrough(i) => Objects(i) \cap alive = {}
                   /\ Waits(i) \/ (\E t \in Threads : Carries(t, i)) => Objects(i) \subseteq alive
  BY DEF ObjectsOwned
<1>3. WentThrough(i)' => i \in Ids /\ WentThrough(i)
  OBVIOUS
<1>4. Waits(i)' \/ (\E t \in Threads : Carries(t, i)') =>
        i \in Ids /\ (Waits(i) \/ \E t \in Threads : Carries(t, i))
  OBVIOUS
<1>5. QED
  BY <1>1, <1>2, <1>3, <1>4

(* The objects that are made for a submission are its own.                 *)
LEMMA BuiltOwned ==
  ASSUME Types, Ordered, ObjectsOwned, NEW t \in Threads, BuildSyncObjects(t)
  PROVE  ObjectsOwned'
<1> DEFINE x == Item(t)
<1>1. /\ UNCHANGED <<meta, pending, processed>> /\ Ids' = Ids
      /\ pc[t] = "build" /\ pc[t] \in Submitting
      /\ \/ Return(t)
         \/ Goto(t, "submit") /\ UNCHANGED call /\ alive' = alive \cup Objects(x)
      /\ \E k : alive' = alive \cup FirstObjects(x, k)
  BY DEF BuildSyncObjects, lists, Ids, Submitting, Objects
<1>2. x \in Ids /\ x \in Range(call[t].todo)
  BY <1>1, ItemIs DEF Types
<1>3. /\ ~WentThrough(x) /\ ~Waits(x)
      /\ \A u \in Threads : Carries(u, x) => u = t
  <2>1. \A g \in Queues : x \notin Range(processed[g]) /\ x \notin Range(pending[g])
    BY <1>2, OneHolder, BothThrough
  <2>2. \A u \in Threads : Carries(u, x) => u = t
    BY <1>2, OneHolder, CarriedIs
  <2>3. QED
    BY <2>1, <2>2 DEF WentThrough, Waits
<1>4. \A i \in Ids : /\ Objects(i)' = Objects(i)
                     /\ WentThrough(i)' <=> WentThrough(i)
                     /\ Waits(i)' <=> Waits(i)
  BY <1>1 DEF Objects, FirstObjects, CountOf, WentThrough, Waits
<1>5. \A i : \A u \in Threads : Carries(u, i)' =>
        \/ Carries(u, i)
        \/ i = x /\ alive' = alive \cup Objects(x)
  <2> SUFFICES ASSUME NEW i, NEW u \in Threads, Carries(u, i)'
               PROVE  Carries(u, i) \/ (i = x /\ alive' = alive \cup Objects(x))
    OBVIOUS
  <2>1. CASE Return(t)
    <3>1. /\ pc'[t] = "idle"
          /\ \A w \in Threads \ {t} : pc'[w] = pc[w] /\ call'[w] = call[w]
      BY <1>1, <2>1, Returning DEF Types
    <3>2. u # t /\ Item(u)' = Item(u)
      BY <3>1 DEF Carries, Item
    <3>3. QED
      BY <3>1, <3>2 DEF Carries
  <2>2. CASE Goto(t, "submit") /\ UNCHANGED call /\ alive' = alive \cup Objects(x)
    <3>1. /\ \A w \in Threads \ {t} : pc'[w] = pc[w]
          /\ Item(u)' = Item(u)
      BY <1>1, <2>2, Going DEF Types, Places, Item
    <3>2. CASE u = t
      BY <2>2, <3>1, <3>2 DEF Carries
    <3>3. CASE u # t
      BY <3>1, <3>3 DEF Carries
    <3>4. QED
      BY <3>2, <3>3
  <2>3. QED
    BY <1>1, <2>1, <2>2
<1> HIDE DEF x
<1>6. PICK k : alive' = alive \cup FirstObjects(x, k)
  BY <1>1
<1>7. SUFFICES ASSUME NEW i \in Ids
               PROVE  /\ WentThrough(i) => Objects(i) \cap alive' = {}
                      /\ Waits(i) \/ (\E u \in Threads : Carries(u, i)')
                           => Objects(i) \subseteq alive'
  BY <1>1, <1>4 DEF ObjectsOwned
<1>8. /\ WentThrough(i) => Objects(i) \cap alive = {}
      /\ Waits(i) \/ (\E u \in Threads : Carries(u, i)) => Objects(i) \subseteq alive
  BY DEF ObjectsOwned
<1>9. WentThrough(i) => Objects(i) \cap alive' = {}
  BY <1>3, <1>6, <1>8, OwnObjects
<1>10. Waits(i) \/ (\E u \in Threads : Carries(u, i)') => Objects(i) \subseteq alive'
  BY <1>5, <1>6, <1>8
<1>11. QED
  BY <1>9, <1>10

(* A queue destroys the objects of what it has processed.                  *)
LEMMA FinishedOwned ==
  ASSUME Types, Ordered, ObjectsOwned, NEW t \in Threads, CompleteHead(t)
  PROVE  ObjectsOwned'
<1> DEFINE g == call[t].queue
           x == Head(pending[g])
<1>1. /\ meta' = meta /\ Ids' = Ids /\ pc[t] = "wait" /\ g \in Queues /\ pending[g] # <<>>
      /\ alive' = alive \ Objects(x)
      /\ pending' = [pending EXCEPT ![g] = Tail(@)]
      /\ processed' = [processed EXCEPT ![g] = Append(@, x)]
      /\ Return(t)
  BY DEF CompleteHead, Types, Busy, Ids
<1>2. /\ x \in Range(pending[g]) /\ x \notin Range(Tail(pending[g]))
      /\ Range(Tail(pending[g])) \subseteq Range(pending[g])
  BY <1>1, WaitsOnce
<1>3. /\ x \in Range(Through(g)) /\ x \in Ids
      /\ \A h \in Queues : x \in Range(Through(h)) => h = g
      /\ \A u \in Threads : x \notin Range(call[u].todo)
  <2>1. x \in Range(Through(g)) /\ x \in Ids
    BY <1>1, <1>2, BothThrough, RangeOfSeq
  <2>2. \A h \in Queues : x \in Range(Through(h)) => meta[x].queue = h
    BY DEF Ordered, Routed
  <2>3. \A u \in Threads : x \notin Range(call[u].todo)
    BY <1>1, <2>1, OneHolder
  <2>4. QED
    BY <1>1, <2>1, <2>2, <2>3
<1>4. \A u \in Threads : ~Carries(u, x)
  BY <1>3, CarriedIs
<1>5. \A u \in Threads : \A i : Carries(u, i)' => Carries(u, i)
  <2>1. /\ pc'[t] = "idle"
        /\ \A u \in Threads \ {t} : pc'[u] = pc[u] /\ call'[u] = call[u]
    BY <1>1, Returning DEF Types
  <2>2. \A u \in Threads \ {t} : Item(u)' = Item(u)
    BY <2>1 DEF Item
  <2>3. QED
    BY <2>1, <2>2 DEF Carries
<1> HIDE DEF x, g
<1>6. /\ pending \in [Queues -> Seq(Ids)] /\ processed \in [Queues -> Seq(Ids)]
  BY DEF Types, Data
<1>7. \A i : Waits(i)' => Waits(i) /\ i # x
  <2> SUFFICES ASSUME NEW i, NEW h \in Queues, i \in Range(pending'[h])
               PROVE  i \in Range(pending[h]) /\ i # x
    BY DEF Waits
  <2>1. CASE h = g
    BY <1>1, <1>2, <1>6, <2>1
  <2>2. CASE h # g
    <3>1. i \in Range(pending[h])
      BY <1>1, <1>6, <2>2
    <3>2. i \in Range(Through(h))
      BY <3>1, BothThrough
    <3>3. QED
      BY <1>3, <2>2, <3>1, <3>2
  <2>3. QED
    BY <2>1, <2>2
<1>8. \A i : WentThrough(i)' => WentThrough(i) \/ i = x
  <2> SUFFICES ASSUME NEW i, NEW h \in Queues, i \in Range(processed'[h])
               PROVE  i \in Range(processed[h]) \/ i = x
    BY DEF WentThrough
  <2>1. Range(Append(processed[h], x)) = Range(processed[h]) \cup {x}
    BY <1>3, <1>6, Elements
  <2>2. processed'[h] = processed[h] \/ processed'[h] = Append(processed[h], x)
    BY <1>1, <1>6
  <2>3. QED
    BY <2>1, <2>2
<1>9. SUFFICES ASSUME NEW i \in Ids
               PROVE  /\ WentThrough(i)' => Objects(i) \cap alive' = {}
                      /\ Waits(i)' \/ (\E u \in Threads : Carries(u, i)')
                           => Objects(i) \subseteq alive'
  <2>1. \A i \in Ids : Objects(i)' = Objects(i)
    BY <1>1 DEF Objects, FirstObjects, CountOf
  <2>2. QED
    BY <1>1, <1>9, <2>1 DEF ObjectsOwned
<1>10. /\ WentThrough(i) => Objects(i) \cap alive = {}
       /\ Waits(i) \/ (\E u \in Threads : Carries(u, i)) => Objects(i) \subseteq alive
  BY DEF ObjectsOwned
<1>11. WentThrough(i)' => Objects(i) \cap alive' = {}
  BY <1>1, <1>8, <1>10
<1>12. Waits(i)' \/ (\E u \in Threads : Carries(u, i)') => i # x /\ Objects(i) \subseteq alive
  BY <1>4, <1>5, <1>7, <1>10
<1>13. QED
  BY <1>1, <1>11, <1>12, OwnObjects

(* The destructor of a queue destroys the objects of what waits there.     *)
LEMMA DestroyedOwned ==
  ASSUME Types, Ordered, ObjectsOwned, NEW g \in Queues, DestroyQueue(g)
  PROVE  ObjectsOwned'
<1>1. /\ UNCHANGED <<meta, processed, pc, call>> /\ Ids' = Ids
      /\ alive' = alive \ UNION {Objects(i) : i \in Range(pending[g])}
      /\ pending' = [pending EXCEPT ![g] = <<>>]
  BY DEF DestroyQueue, threads, Ids
<1>2. \A i \in Range(pending[g]) : \A u \in Threads : ~Carries(u, i)
  BY OneHolder, BothThrough, CarriedIs
<1>3. \A i : Waits(i)' => Waits(i) /\ i \notin Range(pending[g])
  <2> SUFFICES ASSUME NEW i, NEW h \in Queues, i \in Range(pending'[h])
               PROVE  i \in Range(pending[h]) /\ i \notin Range(pending[g])
    BY DEF Waits
  <2>1. pending \in [Queues -> Seq(Ids)] /\ Range(<<>>) = {}
    BY DEF Types, Data, Range
  <2>2. h # g /\ i \in Range(pending[h])
    BY <1>1, <2>1
  <2>3. meta[i].queue = h
    BY <2>2, BothThrough DEF Ordered, Routed
  <2>4. i \in Range(pending[g]) => meta[i].queue = g
    BY BothThrough DEF Ordered, Routed
  <2>5. QED
    BY <2>2, <2>3, <2>4
<1>4. \A i : \A u \in Threads : Carries(u, i)' <=> Carries(u, i)
  BY <1>1 DEF Carries, Item
<1>5. \A i : WentThrough(i)' <=> WentThrough(i)
  BY <1>1 DEF WentThrough
<1>6. SUFFICES ASSUME NEW i \in Ids
               PROVE  /\ WentThrough(i) => Objects(i) \cap alive' = {}
                      /\ Waits(i)' \/ (\E u \in Threads : Carries(u, i))
                           => Objects(i) \subseteq alive'
  <2>1. \A i \in Ids : Objects(i)' = Objects(i)
    BY <1>1 DEF Objects, FirstObjects, CountOf
  <2>2. QED
    BY <1>1, <1>4, <1>5, <1>6, <2>1 DEF ObjectsOwned
<1>7. /\ WentThrough(i) => Objects(i) \cap alive = {}
      /\ Waits(i) \/ (\E u \in Threads : Carries(u, i)) => Objects(i) \subseteq alive
  BY DEF ObjectsOwned
<1>8. WentThrough(i) => Objects(i) \cap alive' = {}
  BY <1>1, <1>7
<1>9. Waits(i)' \/ (\E u \in Threads : Carries(u, i)) => Objects(i) \subseteq alive'
  <2> SUFFICES ASSUME Waits(i)' \/ (\E u \in Threads : Carries(u, i))
               PROVE  Objects(i) \subseteq alive'
    OBVIOUS
  <2>1. i \notin Range(pending[g]) /\ Objects(i) \subseteq alive
    BY <1>2, <1>3, <1>7
  <2>2. \A j \in Range(pending[g]) : Objects(i) \cap Objects(j) = {}
    BY <2>1, OwnObjects
  <2>3. QED
    BY <1>1, <2>1, <2>2
<1>10. QED
  BY <1>8, <1>9

(* The other steps concern no objects.                                     *)
LEMMA OwnedStep ==
  Types /\ Ordered /\ ObjectsOwned /\ [VulkanNext]_vulkanVars => ObjectsOwned'
<1> SUFFICES ASSUME Types, Ordered, ObjectsOwned, [VulkanNext]_vulkanVars
             PROVE  ObjectsOwned'
  OBVIOUS
<1>1. ASSUME UNCHANGED <<alive, meta, pending, processed>>,
             \A u \in Threads : \A i : Carries(u, i)' => Carries(u, i)
      PROVE  ObjectsOwned'
  BY <1>1, OwnedKept DEF WentThrough, Waits, Ids
<1>2. CASE UNCHANGED <<alive, meta, pending, processed, pc, call>>
  BY <1>1, <1>2 DEF Carries, Item
<1>3. ASSUME NEW t \in Threads, UNCHANGED <<alive, meta, pending, processed>>, Return(t)
      PROVE  ObjectsOwned'
  <2>1. /\ pc'[t] = "idle"
        /\ \A u \in Threads \ {t} : pc'[u] = pc[u] /\ call'[u] = call[u]
    BY <1>3, Returning DEF Types, Ids
  <2>2. \A u \in Threads \ {t} : Item(u)' = Item(u)
    BY <2>1 DEF Item
  <2>3. \A u \in Threads : \A i : Carries(u, i)' => Carries(u, i)
    BY <2>1, <2>2 DEF Carries
  <2>4. QED
    BY <1>1, <1>3, <2>3
<1>4. ASSUME NEW t \in Threads, NEW place \in Places, Goto(t, place), UNCHANGED call,
             UNCHANGED <<alive, meta, pending, processed>>,
             place \in {"submit", "vkQueueSubmit", "record"}
               => pc[t] \in {"submit", "vkQueueSubmit", "record"}
      PROVE  ObjectsOwned'
  <2>1. pc'[t] = place /\ \A u \in Threads \ {t} : pc'[u] = pc[u]
    BY <1>4, Going DEF Types, Ids
  <2>2. \A u \in Threads : Item(u)' = Item(u)
    BY <1>4 DEF Item
  <2>3. \A u \in Threads : \A i : Carries(u, i)' => Carries(u, i)
    BY <1>4, <2>1, <2>2 DEF Carries
  <2>4. QED
    BY <1>1, <1>4, <2>3
<1>5. ASSUME NEW t \in Threads, NEW g \in Queues,
             ProcessNextSubmission(t, g) \/ SubmissionCount(t, g)
      PROVE  ObjectsOwned'
  <2>1. PICK place \in {"process", "count"} : Call(t, g, place, <<>>) /\ UNCHANGED meta
    BY <1>5 DEF ProcessNextSubmission, SubmissionCount
  <2>2. /\ UNCHANGED <<alive, meta, pending, processed>>
        /\ \A u \in Threads \ {t} : pc'[u] = pc[u] /\ call'[u] = call[u]
        /\ pc'[t] = place
    BY <2>1 DEF Call, Goto, Types, Data, lists, gpu
  <2>3. \A u \in Threads \ {t} : Item(u)' = Item(u)
    BY <2>2 DEF Item
  <2>4. \A u \in Threads : \A i : Carries(u, i)' => Carries(u, i)
    BY <2>2, <2>3 DEF Carries
  <2>5. QED
    BY <1>1, <2>2, <2>4
<1>6. ASSUME NEW t \in Threads, NEW g \in Queues, SubmitBatch(t, g)
      PROVE  ObjectsOwned'
  <2>1. PICK n \in 1 .. MaxItems : Grown(t, g, n)
    <3>1. family[g] \in Families
      BY <1>6 DEF SubmitBatch, Call, Types, Data
    <3>2. QED
      BY <1>6, <3>1, BatchGrows DEF Types
  <2>2. /\ UNCHANGED <<alive, pending, processed>> /\ \A i \in Ids : meta'[i] = meta[i]
        /\ pc'[t] = "build"
        /\ \A u \in Threads \ {t} : pc'[u] = pc[u] /\ call'[u] = call[u]
    BY <2>1 DEF Grown, lists, Types, Data
  <2>3. \A u \in Threads \ {t} : Item(u)' = Item(u)
    BY <2>2 DEF Item
  <2>4. \A u \in Threads : \A i : Carries(u, i)' => Carries(u, i) /\ i \in Ids
    BY <2>2, <2>3, CarriedIs DEF Carries
  <2>5. \A i : /\ WentThrough(i)' => i \in Ids /\ WentThrough(i)
               /\ Waits(i)' => i \in Ids /\ Waits(i)
    <3>1. \A h \in Queues : Range(pending[h]) \subseteq Ids /\ Range(processed[h]) \subseteq Ids
      BY BothThrough, RangeOfSeq
    <3>2. QED
      BY <2>2, <3>1 DEF WentThrough, Waits
  <2>6. QED
    BY <2>2, <2>4, <2>5, OwnedKept
<1>7. ASSUME NEW t \in Threads, RecordPending(t)
      PROVE  ObjectsOwned'
  <2> DEFINE x == Item(t)
             g == call[t].queue
             rest == Tail(call[t].todo)
  <2>1. /\ UNCHANGED <<alive, meta, processed>> /\ Ids' = Ids
        /\ pc[t] = "record" /\ pc[t] \in Submitting
        /\ pending' = [pending EXCEPT ![g] = Append(@, x)]
        /\ \/ Return(t)
           \/ Goto(t, "build") /\ call' = [call EXCEPT ![t].todo = rest]
    BY <1>7 DEF RecordPending, Ids, Submitting
  <2>2. /\ pc'[t] \in {"idle", "build"}
        /\ \A u \in Threads \ {t} : pc'[u] = pc[u] /\ call'[u] = call[u]
    <3>1. CASE Return(t)
      BY <2>1, <3>1, Returning DEF Types
    <3>2. CASE Goto(t, "build") /\ call' = [call EXCEPT ![t].todo = rest]
      <4>1. pc'[t] = "build" /\ \A u \in Threads \ {t} : pc'[u] = pc[u]
        BY <2>1, <3>2, Going DEF Places, Types
      <4>2. QED
        <5> HIDE DEF rest
        <5> QED BY <3>2, <4>1 DEF Types, Data
    <3>3. QED
      BY <2>1, <3>1, <3>2
  <2>3. \A u \in Threads \ {t} : Item(u)' = Item(u)
    BY <2>2 DEF Item
  <2>4. \A u \in Threads : \A i : Carries(u, i)' => Carries(u, i)
    BY <2>2, <2>3 DEF Carries
  <2>5. Carries(t, x) /\ x \in Ids
    BY <2>1, ItemIs DEF Carries, Types
  <2>6. \A i : Waits(i)' => Waits(i) \/ Carries(t, i)
    <3> HIDE DEF x
    <3> SUFFICES ASSUME NEW i, NEW h \in Queues, i \in Range(pending'[h])
                 PROVE  i \in Range(pending[h]) \/ i = x
      BY <2>5 DEF Waits
    <3>1. pending \in [Queues -> Seq(Ids)]
      BY DEF Types, Data
    <3>2. Range(Append(pending[h], x)) = Range(pending[h]) \cup {x}
      BY <2>5, <3>1, Elements
    <3>3. pending'[h] = pending[h] \/ pending'[h] = Append(pending[h], x)
      BY <2>1, <3>1
    <3>4. QED
      BY <3>2, <3>3
  <2>7. \A i : WentThrough(i)' <=> WentThrough(i)
    BY <2>1 DEF WentThrough
  <2>8. QED
    BY <2>1, <2>4, <2>6, <2>7, OwnedKept
<1>8. ASSUME NEW t \in Threads, LockToProcess(t)
      PROVE  ObjectsOwned'
  <2>1. UNCHANGED <<alive, meta, pending, processed>>
    BY <1>8 DEF LockToProcess, submissions
  <2>2. Return(t) \/ (Goto(t, "wait") /\ UNCHANGED call)
    BY <1>8 DEF LockToProcess
  <2>3. QED
    BY <2>1, <2>2, <1>3, <1>4 DEF Places
<1>9. ASSUME NEW t \in Threads, QueueStep(t)
      PROVE  ObjectsOwned'
  <2>1. CASE BuildSyncObjects(t) \/ FinishProcessing(t)
    BY <2>1, BuiltOwned, FinishedOwned DEF FinishProcessing
  <2>2. CASE EnterVkQueueSubmit(t)
    <3>1. /\ UNCHANGED <<alive, meta, pending, processed, call>>
          /\ Goto(t, "vkQueueSubmit") /\ pc[t] = "submit"
      BY <2>2 DEF EnterVkQueueSubmit, submissions
    <3>2. QED
      BY <3>1, <1>4 DEF Places
  <2>3. CASE VkQueueSubmitSucceeds(t)
    <3>1. /\ UNCHANGED <<alive, meta, pending, processed, call>>
          /\ Goto(t, "record") /\ pc[t] = "vkQueueSubmit"
      BY <2>3 DEF VkQueueSubmitSucceeds, submissions
    <3>2. QED
      BY <3>1, <1>4 DEF Places
  <2>4. CASE VkQueueSubmitFails(t) \/ ReadCount(t)
    BY <1>3, <2>4 DEF VkQueueSubmitFails, ReadCount, lists, submissions
  <2>5. QED
    BY <1>7, <1>8, <1>9, <2>1, <2>2, <2>3, <2>4 DEF QueueStep
<1>10. CASE Application
  <2>1. CASE \E g \in Queues, type \in DOMAIN FamilyOf : CreateQueue(g, type)
    BY <1>2, <2>1 DEF CreateQueue, submissions, threads
  <2>2. CASE \E e \in Encoders : CreateEncoder(e) \/ FinishEncoder(e) \/ DestroyEncoder(e)
    BY <1>2, <2>2 DEF CreateEncoder, FinishEncoder, DestroyEncoder, lists, submissions, threads
  <2>3. QED
    BY <1>5, <1>6, <1>10, <2>1, <2>2, DestroyedOwned DEF Application
<1>11. CASE UNCHANGED vulkanVars \/ LoseDevice \/ (\E f \in Families : Execute(f))
  BY <1>2, <1>11 DEF vulkanVars, LoseDevice, Execute, lists, submissions, threads
<1>12. CASE \E t \in Threads : WaitFails(t)
  BY <1>12, FinishedOwned DEF WaitFails
<1>13. QED
  BY <1>9, <1>10, <1>11, <1>12 DEF VulkanNext

(* In every state the objects of what was processed are destroyed and      *)
(* those of what is on its way are all there: no step of another thread,   *)
(* and not the destructor of another queue, takes them away.               *)
THEOREM ObjectsFollowOwners == VulkanSpec => []ObjectsOwned
<1>1. VulkanInit => ObjectsOwned
  BY DEF VulkanInit, ObjectsOwned, Ids
<1>2. VulkanSpec => [](Types /\ Ordered /\ Accounted)
  BY TypesInit, TypesStep, OrderedInit, OrderedStep, PTL DEF VulkanSpec
<1>3. QED
  BY <1>1, <1>2, OwnedStep, PTL DEF VulkanSpec

-----------------------------------------------------------------------------
(* A step that leaves the encoders keeps the command buffers if nothing    *)
(* else is to be submitted or waits.                                       *)
LEMMA BuffersAlone ==
  ASSUME BuffersKept, encoder' = encoder, meta' = meta,
         \A i \in Ids : Waits(i)' => Waits(i) \/ \E t \in Threads : i \in Range(call[t].todo),
         \A t \in Threads : Range(call'[t].todo) \subseteq Range(call[t].todo)
  PROVE  BuffersKept'
<1> SUFFICES ASSUME NEW i \in Ids, meta[i].info.command_buffer = "of Vulkan",
                    Waits(i)' \/ (\E t \in Threads : i \in Range(call'[t].todo))
             PROVE  encoder[meta[i].buffer] \in Kept
  BY DEF BuffersKept, Ids
<1>1. Waits(i)' => Waits(i) \/ \E t \in Threads : i \in Range(call[t].todo)
  OBVIOUS
<1>2. Waits(i) \/ (\E t \in Threads : i \in Range(call[t].todo))
  BY <1>1
<1>3. QED
  BY <1>2 DEF BuffersKept

(* No command buffer is destroyed that is to be submitted or waits.        *)
LEMMA BuffersStep ==
  Types /\ BuffersKept /\ [VulkanNext]_vulkanVars => BuffersKept'
<1> SUFFICES ASSUME Types, BuffersKept, [VulkanNext]_vulkanVars PROVE BuffersKept'
  OBVIOUS
<1> USE DEF Types
<1>0. Range(<<>>) = {}
  BY DEF Range
<1>1. ASSUME NEW t \in Threads, UNCHANGED <<encoder, meta>>, Return(t),
             \A i \in Ids : Waits(i)' => Waits(i) \/ \E u \in Threads : i \in Range(call[u].todo)
      PROVE  BuffersKept'
  <2>1. call'[t].todo = <<>> /\ \A u \in Threads \ {t} : call'[u] = call[u]
    BY <1>1, Returning DEF NoCall, Ids
  <2>2. QED
    BY <1>0, <1>1, <2>1, BuffersAlone
<1>2. CASE UNCHANGED <<encoder, meta, pending, call>>
  BY <1>2, BuffersAlone DEF Waits
<1>3. ASSUME NEW t \in Threads, NEW g \in Queues,
             ProcessNextSubmission(t, g) \/ SubmissionCount(t, g)
      PROVE  BuffersKept'
  <2>1. PICK place \in {"process", "count"} : Call(t, g, place, <<>>) /\ UNCHANGED meta
    BY <1>3 DEF ProcessNextSubmission, SubmissionCount
  <2>2. /\ UNCHANGED <<encoder, meta, pending>>
        /\ call'[t].todo = <<>> /\ \A u \in Threads \ {t} : call'[u] = call[u]
    BY <2>1 DEF Call, Data, lists
  <2>3. QED
    BY <1>0, <2>2, BuffersAlone DEF Waits
<1>4. ASSUME NEW t \in Threads, NEW g \in Queues, SubmitBatch(t, g)
      PROVE  BuffersKept'
  <2>1. PICK n \in 1 .. MaxItems : Grown(t, g, n)
    <3>1. family[g] \in Families
      BY <1>4 DEF SubmitBatch, Call, Data
    <3>2. QED
      BY <1>4, <3>1, BatchGrows
  <2>2. /\ UNCHANGED <<encoder, pending>>
        /\ \A i \in Ids : meta'[i] = meta[i]
        /\ \A i \in Ids' \ Ids : meta'[i].buffer \in BufferOf(meta'[i].info)
        /\ \A u \in Threads \ {t} : call'[u] = call[u]
        /\ call'[t].todo = [k \in 1 .. n |-> Len(meta) + k] /\ n \in Nat
    <3>1. MaxItems \in Nat
      BY VulkanAssumption
    <3>2. QED
      BY <2>1, <3>1 DEF Grown, lists, Data
  <2>3. SUFFICES ASSUME NEW i \in Ids', meta'[i].info.command_buffer = "of Vulkan",
                        Waits(i)' \/ (\E u \in Threads : i \in Range(call'[u].todo))
                 PROVE  encoder[meta'[i].buffer] \in Kept
    BY <2>2 DEF BuffersKept
  <2>4. CASE i \notin Ids
    <3>1. meta'[i].buffer \in BufferOf(meta'[i].info)
      BY <2>2, <2>4
    <3>2. QED
      BY <2>3, <3>1 DEF BufferOf, Fresh, Kept
  <2>5. CASE i \in Ids
    <3>1. i \notin Range(call'[t].todo)
      BY <2>2, <2>5, IdsAre DEF Range
    <3>2. Waits(i)' => Waits(i)
      BY <2>2 DEF Waits
    <3>3. Waits(i) \/ (\E u \in Threads : i \in Range(call[u].todo))
      BY <2>2, <2>3, <3>1, <3>2
    <3>4. QED
      BY <2>2, <2>3, <2>5, <3>3 DEF BuffersKept
  <2>6. QED
    BY <2>4, <2>5
<1>5. ASSUME NEW e \in Encoders, CreateEncoder(e) \/ FinishEncoder(e) \/ DestroyEncoder(e)
      PROVE  BuffersKept'
  <2>1. /\ UNCHANGED <<meta, pending, call>>
        /\ \A d \in Encoders \ {e} : encoder'[d] = encoder[d]
        /\ \/ encoder[e] \notin Kept
           \/ ~InCall(e) /\ (encoder'[e] = "dropped" \/ ~Pending(e))
    BY <1>5 DEF CreateEncoder, FinishEncoder, DestroyEncoder, lists, submissions, threads, Data,
                Kept
  <2>2. SUFFICES ASSUME NEW i \in Ids, meta[i].info.command_buffer = "of Vulkan",
                        Waits(i) \/ (\E u \in Threads : i \in Range(call[u].todo))
                 PROVE  encoder'[meta[i].buffer] \in Kept
    BY <2>1 DEF BuffersKept, Waits, Ids
  <2>3. encoder[meta[i].buffer] \in Kept /\ meta[i].buffer \in Encoders
    BY <2>2 DEF BuffersKept, Made
  <2>4. Waits(i) => Pending(meta[i].buffer)
    BY DEF Waits, Pending
  <2>5. (\E u \in Threads : i \in Range(call[u].todo)) => InCall(meta[i].buffer)
    BY DEF InCall
  <2>6. CASE meta[i].buffer = e
    BY <2>1, <2>2, <2>3, <2>4, <2>5, <2>6 DEF Kept
  <2>7. CASE meta[i].buffer # e
    BY <2>1, <2>3, <2>7
  <2>8. QED
    BY <2>6, <2>7
<1>6. ASSUME NEW g \in Queues, DestroyQueue(g)
      PROVE  BuffersKept'
  <2>1. /\ UNCHANGED <<encoder, meta, call>> /\ pending' = [pending EXCEPT ![g] = <<>>]
    BY <1>6 DEF DestroyQueue, threads
  <2>2. \A i : Waits(i)' => Waits(i)
    BY <1>0, <2>1 DEF Waits, Data
  <2>3. QED
    BY <2>1, <2>2, BuffersAlone
<1>7. ASSUME NEW t \in Threads, RecordPending(t)
      PROVE  BuffersKept'
  <2> DEFINE x == Item(t)
             g == call[t].queue
             rest == Tail(call[t].todo)
  <2>1. /\ UNCHANGED <<encoder, meta>> /\ pc[t] \in Submitting
        /\ pending' = [pending EXCEPT ![g] = Append(@, x)]
        /\ \/ Return(t)
           \/ call' = [call EXCEPT ![t].todo = rest]
    BY <1>7 DEF RecordPending, Submitting
  <2>2. x \in Ids /\ x \in Range(call[t].todo) /\ Range(rest) \subseteq Range(call[t].todo)
    BY <2>1, ItemIs
  <2>3. \A i : Waits(i)' => Waits(i) \/ \E u \in Threads : i \in Range(call[u].todo)
    <3> HIDE DEF x
    <3> SUFFICES ASSUME NEW i, NEW h \in Queues, i \in Range(pending'[h])
                 PROVE  i \in Range(pending[h]) \/ i = x
      BY <2>2 DEF Waits
    <3>1. pending \in [Queues -> Seq(Ids)]
      BY DEF Data
    <3>2. Range(Append(pending[h], x)) = Range(pending[h]) \cup {x}
      BY <2>2, <3>1, Elements
    <3>3. pending'[h] = pending[h] \/ pending'[h] = Append(pending[h], x)
      BY <2>1, <3>1
    <3>4. QED
      BY <3>2, <3>3
  <2>4. CASE Return(t)
    BY <1>1, <2>1, <2>3, <2>4
  <2>5. CASE call' = [call EXCEPT ![t].todo = rest]
    <3>1. \A u \in Threads : Range(call'[u].todo) \subseteq Range(call[u].todo)
      <4> HIDE DEF rest
      <4> QED BY <2>2, <2>5 DEF Data
    <3>2. QED
      BY <2>1, <2>3, <3>1, BuffersAlone
  <2>6. QED
    BY <2>1, <2>4, <2>5
<1>8. ASSUME NEW t \in Threads, CompleteHead(t)
      PROVE  BuffersKept'
  <2> DEFINE g == call[t].queue
  <2>1. /\ UNCHANGED <<encoder, meta>> /\ Return(t) /\ g \in Queues /\ pending[g] # <<>>
        /\ pending' = [pending EXCEPT ![g] = Tail(@)]
    BY <1>8 DEF CompleteHead, Busy
  <2>2. \A i : Waits(i)' => Waits(i)
    <3> HIDE DEF g
    <3>1. pending \in [Queues -> Seq(Ids)]
      BY DEF Data
    <3>2. Range(Tail(pending[g])) \subseteq Range(pending[g])
      BY <2>1, <3>1, Elements
    <3>3. QED
      BY <2>1, <3>1, <3>2 DEF Waits
  <2>3. QED
    BY <1>1, <2>1, <2>2
<1>9. ASSUME NEW t \in Threads, UNCHANGED <<encoder, meta, pending>>, Return(t)
      PROVE  BuffersKept'
  BY <1>1, <1>9 DEF Waits
<1>10. ASSUME NEW t \in Threads, QueueStep(t)
       PROVE  BuffersKept'
  <2>1. CASE BuildSyncObjects(t)
    BY <1>2, <1>9, <2>1 DEF BuildSyncObjects, lists
  <2>2. CASE EnterVkQueueSubmit(t) \/ VkQueueSubmitSucceeds(t)
    BY <1>2, <2>2 DEF EnterVkQueueSubmit, VkQueueSubmitSucceeds, submissions
  <2>3. CASE VkQueueSubmitFails(t) \/ ReadCount(t)
    BY <1>9, <2>3 DEF VkQueueSubmitFails, ReadCount, lists, submissions
  <2>4. CASE LockToProcess(t)
    BY <1>2, <1>9, <2>4 DEF LockToProcess, submissions
  <2>5. QED
    BY <1>7, <1>8, <1>10, <2>1, <2>2, <2>3, <2>4 DEF QueueStep, FinishProcessing
<1>11. CASE Application
  <2>1. CASE \E g \in Queues, type \in DOMAIN FamilyOf : CreateQueue(g, type)
    BY <1>2, <2>1 DEF CreateQueue, submissions, threads
  <2>2. QED
    BY <1>3, <1>4, <1>5, <1>6, <1>11, <2>1 DEF Application
<1>12. CASE UNCHANGED vulkanVars \/ LoseDevice \/ (\E f \in Families : Execute(f))
  BY <1>2, <1>12 DEF vulkanVars, LoseDevice, Execute, lists, submissions, threads
<1>13. CASE \E t \in Threads : WaitFails(t)
  BY <1>8, <1>13 DEF WaitFails
<1>14. QED
  BY <1>10, <1>11, <1>12, <1>13 DEF VulkanNext

(* In every state the GPU still finds the objects of what it has to        *)
(* execute and a fence stands for, and the commands too unless the         *)
(* application dropped them while a queue held the submission: what it has *)
(* not executed no queue has processed but after a wait that failed, so    *)
(* the queue or the thread that submits it holds it.                       *)
THEOREM ExecutionFindsAll == VulkanSpec => []ExecutesLive
<1>1. Types /\ Ordered /\ Accounted /\ ObjectsOwned /\ BuffersKept /\ Awaited
        => ExecutesLive
  <2> SUFFICES ASSUME Types, Ordered, Accounted, ObjectsOwned, BuffersKept, Awaited,
                      ~lost, NEW f \in Families, NEW k \in finished[f] + 1 .. Len(handed[f]),
                      meta[handed[f][k]].info.fence, handed[f][k] \notin failed,
                      family[meta[handed[f][k]].queue] # NoFamily
               PROVE  /\ Objects(handed[f][k]) \subseteq alive
                      /\ encoder[meta[handed[f][k]].buffer] \in Kept
    BY DEF ExecutesLive, Kept
  <2> DEFINE i == handed[f][k]
             g == meta[i].queue
  <2>1. /\ handed[f] \in Seq(Ids) /\ finished[f] \in Nat /\ Len(handed[f]) \in Nat
        /\ k \in DOMAIN handed[f] /\ k > finished[f] /\ i \in Ids /\ i \in Range(handed[f])
    <3>1. handed[f] \in Seq(Ids) /\ finished[f] \in Nat
      BY DEF Types, Data
    <3>2. Len(handed[f]) \in Nat /\ DOMAIN handed[f] = 1 .. Len(handed[f])
      BY <3>1, LenProperties
    <3>3. k \in DOMAIN handed[f] /\ k > finished[f]
      BY <3>1, <3>2
    <3>4. QED
      BY <3>1, <3>2, <3>3, ElementOfSeq DEF Range
  <2> HIDE DEF i
  <2>2. /\ meta[i].vk_queue = f /\ meta[i].info.command_buffer = "of Vulkan"
        /\ g \in Queues /\ family[g] # NoFamily
    <3>1. meta[i] \in Submission
      BY <2>1, IdsAre DEF Types, Data
    <3>2. QED
      BY <2>1, <3>1 DEF Submission, Ordered, Routed, i
  <2>3. ~Executed(i)
    <3> SUFFICES ASSUME NEW j \in DOMAIN handed[f], j <= finished[f], handed[f][j] = i
                 PROVE  FALSE
      BY <2>2 DEF Executed, VkQueueOf
    <3>1. IsInjective(handed[f])
      BY <2>1, OrderedOnce DEF Types, Ordered, CallerOrderKept
    <3>2. j = k
      BY <2>1, <3>1 DEF IsInjective, i
    <3>3. QED
      BY <2>1, <3>2
  <2>4. i \notin Range(processed[g])
    BY <2>1, <2>2, <2>3 DEF Awaited, WentThrough, i
  <2>5. i \in Range(pending[g]) \/ \E t \in Threads : pc[t] = "record" /\ Item(t) = i
    <3>1. i \in Handed(g)
      BY <2>1 DEF Handed
    <3>2. i \in Range(Through(g)) \cup Recording(g)
      BY <2>2, <3>1 DEF Accounted
    <3>3. QED
      BY <2>2, <2>4, <3>2, ThroughIs DEF Recording, Types
  <2>6. Waits(i) \/ \E t \in Threads : Carries(t, i)
    BY <2>2, <2>5 DEF Waits, Carries
  <2>7. Waits(i) \/ \E t \in Threads : i \in Range(call[t].todo)
    BY <2>6, CarriedIs
  <2>8. Objects(i) \subseteq alive /\ encoder[meta[i].buffer] \in Kept
    BY <2>1, <2>2, <2>6, <2>7 DEF ObjectsOwned, BuffersKept
  <2>9. QED
    BY <2>8 DEF i
<1>2. VulkanInit => BuffersKept
  <2>1. VulkanInit => Ids = {}
    BY DEF VulkanInit, Ids
  <2>2. QED
    BY <2>1 DEF BuffersKept
<1>3. VulkanSpec => [](Types /\ Ordered /\ Accounted)
  BY TypesInit, TypesStep, OrderedInit, OrderedStep, PTL DEF VulkanSpec
<1>4. VulkanSpec => []BuffersKept
  BY <1>2, <1>3, BuffersStep, PTL DEF VulkanSpec
<1>5. VulkanInit => Awaited
  BY DEF VulkanInit, Awaited, Ids
<1>6. VulkanSpec => []Awaited
  BY <1>3, <1>5, AwaitedStep, PTL DEF VulkanSpec
<1>7. QED
  BY <1>1, <1>3, <1>4, <1>6, ObjectsFollowOwners, PTL
=============================================================================
