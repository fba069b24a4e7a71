----------------------------- MODULE VulkanQueue -----------------------------
(***************************************************************************)
(* backends/vulkan: the queues of a VulkanGfxDevice and the encoders whose *)
(* command buffers go through them.                                        *)
(*                                                                         *)
(* Any thread may call a queue: mutex_ guards its pending list and, in a   *)
(* section of its own, vkQueueSubmit.  The GPU executes what a VkQueue was *)
(* handed in order and in its own time; a Vulkan call may fail, and the    *)
(* device may be lost for good.  An id stands for a SubmitInfo that was    *)
(* given to a queue; a command buffer goes by the name of its encoder.     *)
(***************************************************************************)
EXTENDS SequencesExt

CONSTANTS
  Threads, NoThread,
  Queues,      \* the VulkanGfxQueue objects
  Families,    \* queue families; index 0 of each is the only VkQueue in use
  NoFamily,    \* UINT32_MAX, and the family of a queue that does not exist
  FamilyOf,    \* the family that the device found for each QueueType
  Encoders,    \* the VulkanCommandEncoder objects
  Null,        \* no such object
  Infos,       \* the SubmitInfos, with the kind of their command buffer only
  MaxItems,    \* bound: the submissions of a batch
  MaxSubmits   \* bound: the submissions of a behaviour

ASSUME VulkanAssumption ==
  /\ NoThread \notin Threads
  /\ NoFamily \notin Families
  /\ FamilyOf \in [DOMAIN FamilyOf -> Families \cup {NoFamily}]
  /\ Null \notin Encoders /\ Null \notin Queues
  /\ Infos \subseteq [waits : BOOLEAN, signals : Nat, fence : BOOLEAN,
                     command_buffer : {"null", "of Vulkan", "of another backend"}]
  /\ MaxItems \in Nat /\ MaxSubmits \in Nat

VARIABLES
  family,    \* what each queue's vk_queue_ belongs to
  mutex,     \* mutex_ of each queue
  pending,   \* pending_ of each queue: the ids of its entries
  processed, \* the ids each queue has processed; completed_count_ of them
  meta,      \* of each id: its SubmitInfo, who submitted it and where
  outcome,   \* history: what submit returned for each id
  alive,     \* the semaphores and fences that are not destroyed
  handed,    \* what each VkQueue was handed, in order
  finished,  \* how many of these the GPU has executed
  lost,      \* the device is lost
  failed,    \* history: the ids whose wait for the GPU failed
  encoder,   \* the state of each encoder
  pc,        \* where each thread is
  call       \* its arguments and locals

gpu == <<handed, finished, lost, failed>>
submissions == <<meta, outcome, alive>>
lists == <<family, mutex, pending, processed>>
threads == <<pc, call>>
vulkanVars == <<lists, submissions, gpu, encoder, threads>>

Ids == DOMAIN meta
NoCall == [queue |-> Null, todo |-> <<>>]

VulkanInit ==
  /\ family = [g \in Queues |-> NoFamily]
  /\ mutex = [g \in Queues |-> NoThread]
  /\ pending = [g \in Queues |-> <<>>]
  /\ processed = [g \in Queues |-> <<>>]
  /\ meta = <<>>
  /\ outcome = <<>>
  /\ alive = {}
  /\ handed = [f \in Families |-> <<>>]
  /\ finished = [f \in Families |-> 0]
  /\ lost = FALSE
  /\ failed = {}
  /\ encoder = [e \in Encoders |-> "none"]
  /\ pc = [t \in Threads |-> "idle"]
  /\ call = [t \in Threads |-> NoCall]

-----------------------------------------------------------------------------
(* SYNCHRONIZATION OBJECTS.  A submission has a semaphore for each of its  *)
(* signals and then a fence, numbered in the order they are made.          *)
CountOf(info) == info.signals + (IF info.fence THEN 1 ELSE 0)
FirstObjects(i, k) == {i} \X (1 .. k)
Objects(i) == FirstObjects(i, CountOf(meta[i].info))

(* The GPU has executed submission i.                                      *)
VkQueueOf(i) == meta[i].vk_queue
Executed(i) ==
  \E k \in DOMAIN handed[VkQueueOf(i)] :
    k <= finished[VkQueueOf(i)] /\ handed[VkQueueOf(i)][k] = i

-----------------------------------------------------------------------------
(* THE DEVICE.  A type without a family is refused.                        *)
CreateQueue(g, type) ==
  /\ family[g] = NoFamily
  /\ \A i \in Ids : meta[i].queue # g
  /\ FamilyOf[type] # NoFamily
  /\ family' = [family EXCEPT ![g] = FamilyOf[type]]
  /\ UNCHANGED <<mutex, pending, processed, submissions, gpu, encoder, threads>>

(* The destructor of the queue, which no thread may be using.              *)
DestroyQueue(g) ==
  /\ family[g] # NoFamily
  /\ \A t \in Threads : pc[t] # "idle" => call[t].queue # g
  /\ family' = [family EXCEPT ![g] = NoFamily]
  /\ alive' = alive \ UNION {Objects(i) : i \in Range(pending[g])}
  /\ pending' = [pending EXCEPT ![g] = <<>>]
  /\ UNCHANGED <<mutex, processed, meta, outcome, gpu, encoder, threads>>

-----------------------------------------------------------------------------
(* THE ENCODERS, each with a pool that its command buffer lives in.  The   *)
(* commands are only counted, and the counts are left out.                 *)
Pending(e) == \E g \in Queues : \E i \in Range(pending[g]) : meta[i].buffer = e
InCall(e) == \E t \in Threads : \E i \in Range(call[t].todo) : meta[i].buffer = e

(* What a constructor that throws leaves behind has no object.             *)
CreateEncoder(e) ==
  /\ encoder[e] = "none"
  /\ encoder' = [encoder EXCEPT ![e] = "recording"]
  /\ UNCHANGED <<lists, submissions, gpu, threads>>

(* If vkEndCommandBuffer fails, the encoder goes on recording.             *)
FinishEncoder(e) ==
  /\ encoder[e] = "recording"
  /\ encoder' = [encoder EXCEPT ![e] = "finished"]
  /\ UNCHANGED <<lists, submissions, gpu, threads>>

(* The destructor frees the pool whatever the command buffer is in use     *)
(* for; only a submit that is running has its arguments kept.  "dropped"   *)
(* is an encoder that a queue still held.                                  *)
DestroyEncoder(e) ==
  /\ encoder[e] \in {"recording", "finished"} /\ ~InCall(e)
  /\ encoder' = [encoder EXCEPT ![e] = IF Pending(e) THEN "dropped" ELSE "destroyed"]
  /\ UNCHANGED <<lists, submissions, gpu, threads>>

-----------------------------------------------------------------------------
(* CALLS                                                                   *)
Goto(t, place) == pc' = [pc EXCEPT ![t] = place]

Return(t) ==
  /\ Goto(t, "idle")
  /\ call' = [call EXCEPT ![t] = NoCall]

Call(t, g, place, ids) ==
  /\ pc[t] = "idle"
  /\ family[g] # NoFamily
  /\ Goto(t, place)
  /\ call' = [call EXCEPT ![t] = [queue |-> g, todo |-> ids]]
  /\ UNCHANGED <<lists, alive, gpu, encoder>>

(* The command buffers that may be submitted: the backend begins each one  *)
(* for a single submission.                                                *)
Fresh(e) ==
  /\ encoder[e] = "finished" /\ ~Pending(e) /\ ~InCall(e)
  /\ \A f \in Families : \A i \in Range(handed[f]) : meta[i].buffer # e

BufferOf(info) == IF info.command_buffer = "of Vulkan"
                  THEN {e \in Encoders : Fresh(e)} ELSE {Null}

(* submit is a batch of one; an empty batch returns at once.  The          *)
(* submissions of a batch that come after a refused one are not run.       *)
SubmitBatch(t, g) ==
  \E n \in 1 .. MaxItems :
    /\ Len(meta) + n <= MaxSubmits
    /\ Call(t, g, "build", [k \in 1 .. n |-> Len(meta) + k])
    /\ \E info \in [1 .. n -> Infos], buffer \in [1 .. n -> Encoders \cup {Null}] :
         /\ \A k \in 1 .. n : buffer[k] \in BufferOf(info[k])
         /\ \A j, k \in 1 .. n : buffer[j] = buffer[k] => j = k \/ buffer[j] = Null
         /\ meta' = meta \o [k \in 1 .. n |->
                               [info |-> info[k], buffer |-> buffer[k], queue |-> g,
                                vk_queue |-> family[g], thread |-> t]]
    /\ outcome' = outcome \o [k \in 1 .. n |-> "not run"]

ProcessNextSubmission(t, g) ==
  Call(t, g, "process", <<>>) /\ UNCHANGED <<meta, outcome>>

SubmissionCount(t, g) ==
  Call(t, g, "count", <<>>) /\ UNCHANGED <<meta, outcome>>

-----------------------------------------------------------------------------
(* SUBMIT                                                                  *)
Item(t) == Head(call[t].todo)

(* Where build_sync_objects ends when k objects are made and the next one  *)
(* is not: semaphores throw, a fence does not.                             *)
Incomplete(info, k) == IF k < info.signals THEN "threw" ELSE "SyncUnresolved"

(* build_sync_objects and the check of the command buffer, which nothing   *)
(* shared depends on.  What was made is not destroyed on the way out.      *)
BuildSyncObjects(t) ==
  LET i == Item(t)
      info == meta[i].info
      Make(k, code) == /\ alive' = alive \cup FirstObjects(i, k)
                       /\ outcome' = [outcome EXCEPT ![i] = code]
  IN  /\ pc[t] = "build"
      /\ \/ /\ info.waits
            /\ Make(0, "SyncUnresolved")
            /\ Return(t)
         \/ /\ ~info.waits
            /\ \E k \in 0 .. CountOf(info) - 1 : Make(k, Incomplete(info, k))
            /\ Return(t)
         \/ /\ ~info.waits /\ info.command_buffer = "of another backend"
            /\ Make(CountOf(info), "SyncUnresolved")
            /\ Return(t)
         \/ /\ ~info.waits /\ info.command_buffer = "null"
            /\ Make(CountOf(info), "InvalidArgument")
            /\ Return(t)
         \/ /\ ~info.waits /\ info.command_buffer = "of Vulkan"
            /\ Make(CountOf(info), "underway")
            /\ Goto(t, "submit")
            /\ UNCHANGED call
      /\ UNCHANGED <<lists, meta, gpu, encoder>>

Lock(t, g) == mutex[g] = NoThread /\ mutex' = [mutex EXCEPT ![g] = t]
Unlock(g) == mutex' = [mutex EXCEPT ![g] = NoThread]

(* A variant of EnterVkQueueSubmit that records the submission first.      *)
EnterRecorded(t) ==
  /\ pc[t] = "submit"
  /\ Lock(t, call[t].queue)
  /\ pending' = [pending EXCEPT ![call[t].queue] = Append(@, Item(t))]
  /\ Goto(t, "vkQueueSubmit")
  /\ UNCHANGED <<family, processed, submissions, gpu, encoder, call>>

EnterVkQueueSubmit(t) ==
  /\ pc[t] = "submit"
  /\ Lock(t, call[t].queue)
  /\ Goto(t, "vkQueueSubmit")
  /\ UNCHANGED <<family, pending, processed, submissions, gpu, encoder, call>>

VkQueueSubmitSucceeds(t) ==
  /\ pc[t] = "vkQueueSubmit"
  /\ ~lost
  /\ handed' = [handed EXCEPT ![family[call[t].queue]] = Append(@, Item(t))]
  /\ Unlock(call[t].queue)
  /\ Goto(t, "record")
  /\ UNCHANGED <<family, pending, processed, submissions, finished, lost, failed, encoder, call>>

(* A variant of VkQueueSubmitFails that leaves the mutex locked.           *)
FailsLocked(t) ==
  /\ pc[t] = "vkQueueSubmit"
  /\ outcome' = [outcome EXCEPT ![Item(t)] = "InternalFailure"]
  /\ Return(t)
  /\ UNCHANGED <<lists, meta, alive, gpu, encoder>>

(* A variant of VkQueueSubmitFails that does not look at the result.       *)
FailureIgnored(t) ==
  /\ pc[t] = "vkQueueSubmit"
  /\ Unlock(call[t].queue)
  /\ Goto(t, "record")
  /\ UNCHANGED <<family, pending, processed, submissions, gpu, encoder, call>>

VkQueueSubmitFails(t) ==
  /\ pc[t] = "vkQueueSubmit"
  /\ Unlock(call[t].queue)
  /\ outcome' = [outcome EXCEPT ![Item(t)] = "InternalFailure"]
  /\ Return(t)
  /\ UNCHANGED <<family, pending, processed, meta, alive, gpu, encoder>>

(* A variant of RecordPending that records the newest submission first.    *)
RecordFirst(t) ==
  LET g == call[t].queue
      rest == Tail(call[t].todo)
  IN  /\ pc[t] = "record"
      /\ mutex[g] = NoThread
      /\ pending' = [pending EXCEPT ![g] = <<Item(t)>> \o @]
      /\ outcome' = [outcome EXCEPT ![Item(t)] = "Ok"]
      /\ IF rest = <<>>
         THEN Return(t)
         ELSE /\ Goto(t, "build")
              /\ call' = [call EXCEPT ![t].todo = rest]
      /\ UNCHANGED <<family, mutex, processed, meta, alive, gpu, encoder>>

(* The second section, which no call leaves, and the next of the batch.    *)
RecordPending(t) ==
  LET g == call[t].queue
      rest == Tail(call[t].todo)
  IN  /\ pc[t] = "record"
      /\ mutex[g] = NoThread
      /\ pending' = [pending EXCEPT ![g] = Append(@, Item(t))]
      /\ outcome' = [outcome EXCEPT ![Item(t)] = "Ok"]
      /\ IF rest = <<>>
         THEN Return(t)
         ELSE /\ Goto(t, "build")
              /\ call' = [call EXCEPT ![t].todo = rest]
      /\ UNCHANGED <<family, mutex, processed, meta, alive, gpu, encoder>>

-----------------------------------------------------------------------------
(* PROCESS_NEXT_SUBMISSION                                                 *)
(* A variant of LockToProcess that destroys the semaphores at once.        *)
LockAndDestroy(t) ==
  LET g == call[t].queue
      i == Head(pending[g])
  IN  /\ pc[t] = "process"
      /\ \/ /\ pending[g] = <<>> /\ mutex[g] = NoThread
            /\ Return(t)
            /\ UNCHANGED <<mutex, alive>>
         \/ /\ pending[g] # <<>>
            /\ Lock(t, g)
            /\ alive' = alive \ FirstObjects(i, meta[i].info.signals)
            /\ Goto(t, "wait")
            /\ UNCHANGED call
      /\ UNCHANGED <<family, pending, processed, meta, outcome, gpu, encoder>>

LockToProcess(t) ==
  LET g == call[t].queue
  IN  /\ pc[t] = "process"
      /\ \/ /\ pending[g] = <<>> /\ mutex[g] = NoThread
            /\ Return(t)
            /\ UNCHANGED mutex
         \/ /\ pending[g] # <<>>
            /\ Lock(t, g)
            /\ Goto(t, "wait")
            /\ UNCHANGED call
      /\ UNCHANGED <<family, pending, processed, submissions, gpu, encoder>>

(* A variant of Signalled for a wait that times out at once.               *)
SignalledAtOnce(i) == i \in Ids

(* vkWaitForFences waits with the mutex held until the GPU has signalled   *)
(* the fence or the device is lost.  A submission without a fence is not   *)
(* waited for.                                                             *)
Signalled(i) == meta[i].info.fence => Executed(i) \/ lost

(* A variant of CompleteHead that keeps the fence.                         *)
CompleteKeepingFence(t) ==
  LET g == call[t].queue
      i == Head(pending[g])
  IN  /\ pc[t] = "wait"
      /\ alive' = alive \ FirstObjects(i, meta[i].info.signals)
      /\ pending' = [pending EXCEPT ![g] = Tail(@)]
      /\ processed' = [processed EXCEPT ![g] = Append(@, i)]
      /\ Unlock(g)
      /\ Return(t)
      /\ UNCHANGED <<family, meta, outcome, handed, finished, lost, encoder>>

(* What follows the wait, whatever it returned.                            *)
CompleteHead(t) ==
  LET g == call[t].queue
      i == Head(pending[g])
  IN  /\ pc[t] = "wait"
      /\ alive' = alive \ Objects(i)
      /\ pending' = [pending EXCEPT ![g] = Tail(@)]
      /\ processed' = [processed EXCEPT ![g] = Append(@, i)]
      /\ Unlock(g)
      /\ Return(t)
      /\ UNCHANGED <<family, meta, outcome, handed, finished, lost, encoder>>

FinishProcessing(t) ==
  /\ CompleteHead(t)
  /\ Signalled(Head(pending[call[t].queue]))
  /\ UNCHANGED failed

(* The wait returns at once, with VK_ERROR_OUT_OF_HOST_MEMORY or           *)
(* VK_ERROR_OUT_OF_DEVICE_MEMORY, and the code goes on as after any other. *)
WaitFails(t) ==
  LET i == Head(pending[call[t].queue])
  IN  /\ CompleteHead(t)
      /\ meta[i].info.fence
      /\ failed' = failed \cup {i}

(* pending_submission_count and completed_submission_count.                *)
ReadCount(t) ==
  /\ pc[t] = "count"
  /\ mutex[call[t].queue] = NoThread
  /\ Return(t)
  /\ UNCHANGED <<lists, submissions, gpu, encoder>>

-----------------------------------------------------------------------------
(* THE GPU                                                                 *)
Execute(f) ==
  /\ ~lost
  /\ finished[f] < Len(handed[f])
  /\ finished' = [finished EXCEPT ![f] = @ + 1]
  /\ UNCHANGED <<lists, submissions, handed, lost, failed, encoder, threads>>

LoseDevice ==
  /\ ~lost
  /\ lost' = TRUE
  /\ UNCHANGED <<lists, submissions, handed, finished, failed, encoder, threads>>

-----------------------------------------------------------------------------
QueueStep(t) ==
  \/ BuildSyncObjects(t) \/ EnterVkQueueSubmit(t)
  \/ VkQueueSubmitSucceeds(t) \/ VkQueueSubmitFails(t) \/ RecordPending(t)
  \/ LockToProcess(t) \/ FinishProcessing(t) \/ ReadCount(t)

Application ==
  \/ \E g \in Queues, type \in DOMAIN FamilyOf : CreateQueue(g, type)
  \/ \E g \in Queues : DestroyQueue(g)
  \/ \E e \in Encoders, t \in Threads :
       /\ pc[t] = "idle"
       /\ CreateEncoder(e) \/ FinishEncoder(e) \/ DestroyEncoder(e)
  \/ \E t \in Threads, g \in Queues :
       SubmitBatch(t, g) \/ ProcessNextSubmission(t, g) \/ SubmissionCount(t, g)

VulkanNext ==
  \/ Application
  \/ \E t \in Threads : QueueStep(t) \/ WaitFails(t)
  \/ \E f \in Families : Execute(f)
  \/ LoseDevice

VulkanSpec == VulkanInit /\ [][VulkanNext]_vulkanVars

(* A scheduled thread runs on, Vulkan calls return, and the GPU executes   *)
(* what it was handed unless the device is lost.  No wait need fail.       *)
VulkanFairness ==
  /\ \A t \in Threads : WF_vulkanVars(QueueStep(t))
  /\ \A f \in Families : WF_vulkanVars(Execute(f))

FairVulkanSpec == VulkanSpec /\ VulkanFairness

-----------------------------------------------------------------------------
(* PROPERTIES                                                              *)
Places == {"idle", "build", "submit", "vkQueueSubmit", "record", "process", "wait", "count"}
Holding == {"vkQueueSubmit", "wait"}
Outcomes == {"not run", "underway", "Ok", "InvalidArgument", "SyncUnresolved", "InternalFailure", "threw"}

(* Every variable stays in its domain and mutex_ is held exactly by the    *)
(* thread that is inside a Vulkan call of submit or process_next.          *)
VulkanTypeOK ==
  /\ family \in [Queues -> Families \cup {NoFamily}]
  /\ mutex \in [Queues -> Threads \cup {NoThread}]
  /\ pending \in [Queues -> Seq(Ids)] /\ processed \in [Queues -> Seq(Ids)]
  /\ outcome \in [Ids -> Outcomes]
  /\ \A o \in alive : o[1] \in Ids /\ o \in Objects(o[1])
  /\ handed \in [Families -> Seq(Ids)] /\ finished \in [Families -> Nat]
  /\ lost \in BOOLEAN /\ failed \subseteq Ids
  /\ encoder \in [Encoders -> {"none", "recording", "finished", "dropped", "destroyed"}]
  /\ pc \in [Threads -> Places]
  /\ \A t \in Threads, g \in Queues :
       mutex[g] = t <=> pc[t] \in Holding /\ call[t].queue = g

(* Thread t has made the objects of i and not yet recorded it.             *)
Carries(t, i) == pc[t] \in {"submit", "vkQueueSubmit", "record"} /\ Item(t) = i

(* What went through a queue, in the order the queue recorded it.          *)
Through(g) == processed[g] \o pending[g]
WentThrough(i) == \E g \in Queues : i \in Range(processed[g])
Waits(i) == \E g \in Queues : i \in Range(pending[g])

(* "Sinalização de fence após execução da submissão": the fence of the     *)
(* contract moves only after the GPU has executed the submission.          *)
FenceMeansExecuted == \A i \in Ids : WentThrough(i) /\ meta[i].info.fence => Executed(i) \/ lost

(* What a fence is good for: once it has moved, unless the wait failed,    *)
(* the GPU has executed its submission and everything that the same thread *)
(* had handed to the same VkQueue before, with a fence or without, through *)
(* whichever queue objects.                                                *)
FenceCovers ==
  \A i \in Ids : WentThrough(i) /\ meta[i].info.fence /\ i \notin failed =>
    \/ lost
    \/ /\ Executed(i)
       /\ \A h \in 1 .. i - 1 :
            /\ meta[h].thread = meta[i].thread
            /\ h \in Range(handed[VkQueueOf(i)])
            => Executed(h)

(* As long as the GPU may still execute a submission that carries a fence  *)
(* and whose wait did not fail, its semaphores are there, and so is the    *)
(* memory of its commands unless the application itself dropped it from    *)
(* under a queue: neither process_next_submission on another thread nor an *)
(* application that drops what was processed takes them away.              *)
ExecutesLive ==
  \A f \in Families : \A k \in finished[f] + 1 .. Len(handed[f]) :
    LET i == handed[f][k]
    IN  meta[i].info.fence /\ i \notin failed /\ family[meta[i].queue] # NoFamily /\ ~lost =>
          Objects(i) \subseteq alive /\ encoder[meta[i].buffer] \in {"finished", "dropped"}

(* A submission that went through leaves no semaphore or fence behind, and *)
(* one on its way has all of them: what leaks belongs to refused ones.     *)
ObjectsOwned ==
  \A i \in Ids :
    /\ WentThrough(i) => Objects(i) \cap alive = {}
    /\ Waits(i) \/ (\E t \in Threads : Carries(t, i)) => Objects(i) \subseteq alive

(* What the GPU was handed through a queue is what the queue has processed *)
(* and holds, each once, and what a thread is about to record.             *)
NothingLost ==
  \A g \in Queues :
    /\ IsInjective(Through(g))
    /\ family[g] # NoFamily =>
         Range(Through(g)) \cup {i \in Ids : meta[i].queue = g
                                    /\ \E t \in Threads : pc[t] = "record" /\ Item(t) = i}
           = {i \in Ids : meta[i].queue = g /\ \E f \in Families : i \in Range(handed[f])}

(* "Respeitando ordem estável do lote": what one thread submits is executed *)
(* and processed in the order it was submitted, in batches or not, though  *)
(* two threads may be handed in one order and recorded in the other.       *)
InCallOrder(list) ==
  \A j, k \in DOMAIN list :
    j < k /\ meta[list[j]].thread = meta[list[k]].thread => list[j] < list[k]

CallerOrderKept ==
  /\ \A g \in Queues : InCallOrder(Through(g))
  /\ \A f \in Families : InCallOrder(handed[f])

(* Whoever holds mutex_ releases it: a thread that waits for a fence with  *)
(* the mutex held waits for nothing that needs the mutex.                  *)
VulkanMutexReleased == \A g \in Queues : mutex[g] # NoThread ~> mutex[g] = NoThread

(* "Protege o acesso à VkQueue": no two threads are inside vkQueueSubmit   *)
(* with the same VkQueue.                                                  *)
VkQueueGuarded ==
  \A t, u \in Threads :
    pc[t] = "vkQueueSubmit" /\ pc[u] = "vkQueueSubmit" /\ t # u =>
      family[call[t].queue] # family[call[u].queue]
=============================================================================
