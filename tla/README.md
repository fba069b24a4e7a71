# visu-maps-engine: TLA+ models, model checking and proofs

This directory models the part of visu-maps-engine that exists as code and holds
state: the engine's lifecycle, its observability, the graphics stub that
everything else runs on, and the rendering of a frame. Line numbers are of the
files under `src/`; `PROJECT.json` maps each definition to the lines it stands
for.

## 1. The system

| Component | State | Operations | Hard behaviour |
|---|---|---|---|
| `EngineLifecycleController` (engine/core) | `state_`, `config_`, the sink list, logger, tracer, `state_mutex_`, `sinks_mutex_` | initialize, tick, pause, resume, shutdown, state, config; add/remove/clear sinks, set_logger, set_tracer | several threads; events exported with `state_mutex_` held and `sinks_mutex_` free; listeners that throw; a reference read after the unlock |
| `LifecycleObserverAdapter` (engine/core) | a list of `weak_ptr`s, `observers_mutex_` | add, remove, clear, export_signal | several threads; observers that expire inside a critical section; callbacks out of the lock |
| `StubGfxQueue` (engine/gfx) | pending submissions, a counter of completed ones; timelines and fences of the application | submit, submit_batch, process_next_submission | values checked at the submit and used at the processing; batches that must leave nothing when refused |
| `StubGfxDevice` (engine/gfx) | two pipeline caches, the next id; process-wide resource counters | create_graphics/compute_pipeline, create_buffer/texture/sampler/shader_module/resource_view | cache keys that leave fields out; sums that wrap; counters read one by one |
| `StubGfxSwapchain`, `StubCommandEncoder`, `StubGfxInstance` (engine/gfx) | image index and acquired flag; recording flag and command count | acquire, present, recreate; draw, copy, dispatch, barrier, finish | protocols shared by the application and the frame |
| `run_basic_frame` (engine/render) | none of its own | acquire, encode, finish, submit, process, present | nine early returns that leave the shared objects as they are |
| Frame plans, scene adapter, `RenderSnapshotCache` (engine/render, engine/tiles) | the last snapshot | put a snapshot, make a plan of it | draw counts added in 32 bits |
| `SceneMaterialPipelineCache` and its bridge (engine/render, engine/services) | materials, the current revisions, hit and miss counters | resolve_material, invalidate_all, invalidate_if_needed | events that go back to earlier revisions; references into the cache |
| `VulkanGfxQueue`, `VulkanCommandEncoder`, `VulkanGfxDevice` (backends/vulkan) | per queue a mutex, a pending list and a counter; Vulkan semaphores and fences; command pools | create_queue, submit, submit_batch, process_next_submission, the counts; create, finish and destroy an encoder | several threads; two lock scopes in one submit; a wait for the GPU with the mutex held; Vulkan calls that fail after others succeeded |
| apps, shaders, tools, other backends, sensors, platform_abstraction | | | README files only |

They interact by direct calls. `run_basic_frame` calls instance, swapchain,
encoder and queue; the scene adapter turns tile snapshots into plans for it; the
theme bridge calls the material cache; the controller calls its sinks, one of
which may be the observer adapter. The controller, the adapter and the
Vulkan queues are the only objects with locks; the objects of engine/gfx and
engine/render are meant for one thread (they have no synchronization), with the
exception of the atomic resource counters. The Vulkan backend implements the same
contracts as the stubs of engine/gfx but is not reached from engine/render yet.

What makes each part correct is what its properties say (section 4). What is
hard to test in each is listed, at its line, under `hazards` in `PROJECT.json`.

## 2. Modules

| Module | Models | Rests on |
|---|---|---|
| `LifecycleContract` | what the controller promises: one linearizable object, whose calls take effect in one step, fail, or throw | |
| `EngineLifecycleController` | the controller, one step per lock, assignment, sink call and return | INSTANCE of `LifecycleContract` |
| `EngineLifecycleController_proofs` | its theorems | |
| `LifecycleObserverAdapter` | the adapter, one step per list entry | |
| `LifecycleObserverAdapter_proofs` | its theorems | `LifecycleObserverAdapter` |
| `GfxQueue` | the queue: verdicts on submissions and batches, execution | |
| `QueueValidation` | the same verdicts as the loops of the code compute them | `GfxQueue` |
| `GfxQueue_proofs` | its theorems | `GfxQueue`, `QueueValidation` |
| `FramePlan` | pass descriptors, plans, the 32-bit draw counts | |
| `FrameRenderer` | run_basic_frame over the queue, the swapchain and the encoders, with an application between the frames | `GfxQueue`, `FramePlan` |
| `FrameRenderer_proofs` | its theorems | `FrameRenderer`, `GfxQueue_proofs` |
| `RenderScene` | the snapshot cache, the plans, the material cache | `FramePlan` |
| `RenderScene_proofs` | its theorems | `RenderScene` |
| `PipelineValidation`, `ResourceValidation` | the verdicts on descriptors | |
| `GfxDevice` | the pipeline caches, the resources, the lifecycle counters | both validations |
| `GfxDevice_proofs` | its theorems | `GfxDevice` |
| `VulkanQueue` | the queues of a Vulkan device, the encoders behind their command buffers, the GPU and the loss of the device | |
| `VulkanQueue_proofs` | its theorems | `VulkanQueue` |
| `PositionFacts` | lemmas the proofs share: first and last positions, elements, erased entries, folds | |
| `MC*` | the instances for TLC | |

### How state and actions correspond to the code

**Controller.** `state`, `config`, `sinks`, `logger`, `tracer`, `stateMutex` are
the members. Every thread has the locals of the call it is in (`request`,
`before`, `signal`, `copy`, `result`) and a place (`pc`). A mutator runs
`LockAndAttempt` (the scoped_lock, `state_before`, the attempt event),
`CopySinks`, one `DeliverToSink` per sink, `EndEvent` (the logger), then its
decision (`Initialize`, `Tick`, `Pause`, `Resume`, `Shutdown`), which ends in
`Fail` or `Succeed` with one more event, and `Unlock`, `Return`. The copy of the
configuration is two steps (`Torn` in between) and so are the two assignments of
shutdown (`Stopping` in between). `ThrowFrom` is an exception of a sink, the
logger or the tracer; the scoped_lock releases the mutex. `sinks_mutex_` guards
sections without a call out and is one step each. The sinks are called in
`DeliverToSink` with `sinks_mutex_` free, so the list may change between two calls.

**Adapter.** The list is walked one entry at a time; `expired()` and `lock()` are
two moments, and an observer lives as long as somebody holds a `shared_ptr` to it,
temporaries included. `Release` (the application drops its pointer) may happen at
any moment.

**Queue.** `value` is the timelines and fences, `queue` the pending submissions.
`accepted` is a history of what the callers were told (`Told`), which follows from the
returned code and not from what the call did to the queue. `Verdict` says of a
submission what the validation loops say, over the values visible at that point of a
batch. `ProcessNext` executes the oldest submission without looking at its waits, as the
code does.

**Frame.** `frame` holds the locals of run_basic_frame and its place. A command
buffer goes by the name of its encoder; `buffers` are the pointers in the queue,
`live` the buffers that are not destroyed. Leaving the function destroys the
frame's buffer (`ReturnWith`, `live'`). `drained` is a history: every frame so far
found its queue empty.

**Scene and materials.** `PlanOfScene` and `SceneOfSnapshot` are the builders, with
draw counts modulo `DrawCounts` (2^32 in the code).

**Device.** Verdicts are lists of a defect and its code, of which the first
defect counts (`FirstDefect`); checks with the same code that follow each other
are one disjunction, which returns the same. `Hash` is a parameter: the device
looks up whatever it makes of the hashed fields. A refused creation changes
nothing and is a stutter. The LODs of a sampler are numbers that compare; a NaN
is not modelled. Each kind of resource has its own pair of atomic counters;
`LoadFirst`/`LoadSecond` and `ResetCreated`/`ResetDestroyed` are the two accesses
to a pair.

**Vulkan queue.** A submission is an id into `meta`, which records its SubmitInfo and
who submitted it where; the objects made for it are pairs of the id and a number
(`Objects`), and `alive` are those that are not destroyed. `submit` is
`BuildSyncObjects` (which may stop after any number of objects),
`EnterVkQueueSubmit` and `VkQueueSubmitSucceeds` or `VkQueueSubmitFails` (the first
lock scope, in two steps so that another thread can be inside the call too), and
`RecordPending` (the second scope, and the next submission of the batch).
`process_next_submission` is `LockToProcess` and then `FinishProcessing`, which is only
enabled once the fence is signalled or the device lost (`Signalled`), or `WaitFails`:
`vkWaitForFences` returns at once for want of memory, and since its result is not
looked at, the same code follows (`CompleteHead`). `failed` is a history of such
submissions. What a VkQueue was handed is `handed`, of which the GPU has executed the
first `finished` (`Execute`); `LoseDevice` is VK_ERROR_DEVICE_LOST. The application
destroys a queue that no thread uses, and an encoder at any time but while a submit of
its buffer runs (`i_gfx_queue.hpp:120`); an encoder that a queue still held is then
`"dropped"` and not `"destroyed"`. A command buffer is submitted once, since the backend
begins it with ONE_TIME_SUBMIT.

## 3. Runs

All bounds are named constants or stated here; TLC explores the whole state space
of each passing run in at most about three minutes with two workers.

| Run | Asks | Bounds, and why they are enough |
|---|---|---|
| `controller_calls` | do two threads calling everything, with a sink that may throw, see one linearizable object, and is the mutex always released? | 2 threads, 1 sink, 3 configurations (default, traced, invalid); the sinks stay once registered, since their coming and going is the question of the next run |
| `controller_listeners` | is the stream of events well formed for each listener while listeners come and go, and the list with them? | 2 threads, 1 sink, logger and tracer, which both may throw: an exception of the logger cuts an operation after its sinks, one of the tracer between two of its events |
| `controller_removed_sink` | violation, see section 6 | 1 thread, 1 sink |
| `queue` | what does a queue execute, is the validation that of the loops, are timelines monotonic and waits met? | 2 queues sharing a timeline and a fence, values to 2, 14 submissions (every null, a regression inside one, a double signal), all batches of two, 3 accepted in a behaviour: two pending and one in between. Each counter is signalled from one outstanding submission or batch, which two of the properties need; that `StableOrder` and `VerdictIsLoop` do not is proved |
| `adapter` | is the list exact, is an export one snapshot, is the mutex released? | 2 threads, 2 observers, lists to 3 entries: both observers and an expired or empty entry |
| `frame` | how may a frame fail, whose image is it, what does it submit, and what does it execute on an emptied queue? | 1 queue, 2 encoders, chains of 1 (refused by the code where it is) and 2 images, plans from the builders and two that are invalid in their second or first pass, 2 submissions besides the frames' |
| `frame_dangling` | violation, see section 6 | as before |
| `scene` | plans and material cache | counts modulo 4, up to two batches per layer (enough to wrap to zero and past it), 2 materials with 2 states, 3 revisions (either part changes, and back), 4 lookups |
| `device` | caches, views, counters | 7 graphics and 2 compute descriptors, of which four share a key and two of these are refused; words of 8 and 64; 2 creations: the properties relate two pipelines, a view and its base, or one resource and a reader |
| `vulkan_queue` | what does a fence stand for, is anything destroyed or lost too early, is the order kept and the mutex released, though every call of Vulkan may fail? | 2 threads, 1 queue, 2 encoders, 2 submissions of five kinds (with a fence and a semaphore, with nothing, waiting, without a command buffer, with another backend's), alone or as a batch: one submission processed while the other is at any point of its submit, and a batch that fails at its second entry |
| `vulkan_failed_wait` | violation, see section 6 | as before, 1 submission |
| `vulkan_shared_queue` | violation, see section 6 | 2 threads, 2 queues of one family |

`device`: 2^64 and 2^32 are the constants `SizeWord` and `CountWord`; the limits of
the stub are scaled to them.

Symmetry is used for threads and sinks in `controller_listeners` and for the resources
of `device`, neither of which has a liveness property. Deadlock checking is on in all
runs but `vulkan_queue` and `vulkan_failed_wait`: there an application that has dropped
its only queue, with every encoder destroyed and the device lost, has nothing left to
do.

## 4. What the checks show

The type invariants of the controller and of the queue are conjuncts of their `IInv`,
which the runs check as a whole.

- **Controller.** The mutex is held exactly inside a mutator, on the exceptional
  paths too (`MutexHeldInMutators`). `Stopping` is never seen from outside
  (`StoppingNeverReported`). `config()` returns a reference that is read without
  the lock, and this is harmless: only initialize assigns, only once, and nobody
  has a reference before (`ConfigReadsEffective`). The controller refines
  `LifecycleContract` (`ImplementsContract`). Each listener sees an attempt and
  then its outcome, whatever the other threads do and unless one of the listeners
  throws, and a logger, unlike a sink, never starts in the middle of an operation
  (`StreamsWellFormed`). Frames are traced only if running, configured and
  accepted (`FrameTracesOnlyWhileRunning`). The sink list keeps its fallback
  (`SinkListSound`) and the mutex is released (`HolderReleases`).
- **Adapter.** With the mutex free the list holds each living registered observer
  once (`RegistryExact`), an export is a snapshot of one instant
  (`ExportLinearizable`), the mutex is released (`MutexReleased`).
- **Queue.** What was answered with Ok is executed, in order and once, and a refused
  batch leaves nothing of itself behind (`StableOrder`, for any application by its proof);
  the declarative verdict is that of the loops (`VerdictIsLoop`). Monotonic
  timelines (`NeverRegress`) and waits met at the execution (`HeadsReady`) hold for
  applications that signal a counter from one outstanding submission or batch at a
  time, and not for others.
- **Frame.** With the stubs a frame can fail only before it has encoded its passes
  (`NoLateFailure`); it owns its image from acquire to present
  (`FrameOwnsImage`); it submits its plan's draws after what was in the encoder
  (`FrameEncodesPlan`). As long as frames run on emptied queues only, each executes
  its own submission and no queue points to a destroyed buffer (`DrainedIsSafe`),
  whatever the application submits in between.
- **Scene.** Plans of snapshots are runnable and complete as long as the draws can
  be counted (`PlanRunnable`, `PlanComplete`); no material outlives its revisions
  (`CacheOfRevision`); what resolve_material returned stays until the next
  invalidation (`MaterialsKept`).
- **Device.** Ids name keys one to one across both caches (`IdNamesKey`); the cache
  never answers for a descriptor that is refused (`RefusedHaveNone`); answers stay
  (`AnswersStay`); an accepted view lies inside its resource unless its sum wraps
  (`ViewsInside`); a reader of the counters never reports a leak that is none
  unless a reset disturbed it (`NoFalseLeak`).
- **Vulkan queue.** Unless the wait for it failed, a fence moves only after the GPU has
  executed its submission and all that the same thread had handed to that VkQueue before,
  with a fence or without and through whichever queue object, or the device is lost
  (`FenceCovers`). Until then the objects of such a submission exist, and so does its
  command buffer, unless the application itself dropped the encoder while a queue held it
  (`ExecutesLive`). A processed submission leaves no Vulkan object behind; what leaks
  belongs to refused ones (`ObjectsOwned`). What the GPU was handed through a queue is
  recorded once, also when a batch fails half way or a queue is processed between the two
  lock scopes (`NothingLost`). Two threads may be handed in one order and recorded in the
  other, but what one thread submits keeps its order in both (`CallerOrderKept`). The mutex
  is released although it is held during a wait for the GPU without limit
  (`VulkanMutexReleased`): the wait is for a submission that was handed over before it could
  be waited for. After a wait that failed the first two do not hold, which
  `vulkan_failed_wait` shows; nor does the processing of a submission without a fence say
  anything of it, but a later fence of the same thread does.

What these properties leave out is the code's own behaviour there, which no text of the
repository speaks about: a draw count whose sum wraps loses draws (`PlanComplete` asks that
it fit), a reference of resolve_material kept past invalidate_all dangles (`MaterialsKept`
is about the time before), a view whose offset and size wrap is accepted (`ViewsInside`),
and the Vulkan objects of a refused submission leak (`ObjectsOwned` bounds the leak to
those).

Every property has a mutant: a plausible wrong form of one definition (listed in
`PROJECT.json`, written next to the definition it replaces as "A variant of ...")
under which TLC finds the property violated with the same configuration.

### Fairness

`Fairness` of the controller and of the adapter is weak fairness of the steps of
each thread that is inside a call: the code has no loop that waits, and a mutex
whose holder keeps running becomes free. No fairness is put on the application:
it need never call again. Acquiring is only weakly fair, so nothing is said about
a thread that competes for the mutex for ever; the liveness properties are about
the holder. `VulkanFairness` adds that Vulkan calls return and that the GPU executes
what it was handed as long as the device is not lost, which is what the Vulkan
specification promises of vkWaitForFences. No wait need fail: the mutex is released
without `WaitFails`.

## 5. What is proved

TLAPS checks the theorems for every value of the constants that the ASSUMEs of the
modules allow; these say only that model values and descriptors of different kinds
are different, that the objects are finitely many, that numbers are numbers, and that
submissions, plans and snapshots are values of their C++ types (`SubmitInfo`, `Passes`,
`MapRenderSnapshots`). Every invariant and action property of a passing run is the
statement of a theorem; liveness is not.

- `EngineLifecycleController_proofs`. The invariant `IInv` is inductive
  (`Invariance`). The four properties `TypeOK`, `MutexHeldInMutators`,
  `StoppingNeverReported`, `ConfigReadsEffective` are not inductive together: that a read
  of the reference is safe needs that nobody has the reference while `state` is
  `Uninitialized` (`ConfigSettled`), that `Torn` and `Stopping` exist only between two
  assignments of the mutex's holder (`IntermediatesGuarded`), what a thread at each
  place is calling (`CallsKnown`) and whether its result is there (`ResultKnown`).
  `TypeCorrect`, `MutexDiscipline`, `StoppingHidden` and `ConfigSafe` follow. From the same
  invariant `Refinement`: `Spec => Contract!Spec`, action by action, where most steps
  stutter and the decisions, the unlocked read and `state()` are the moments at
  which the contract's calls take effect.
  The listeners have an invariant of their own, `ListenInv` (`Listening`), since what
  `StreamsWellFormed` says of the next call says nothing of the calls before. It follows
  what a listener received last against the place of the mutex's holder: with the mutex
  free every listener is `Settled` (it knows the current state, or nothing yet), between
  an attempt and its outcome it is `Told` of the attempt, and while a signal is being
  delivered it is one or the other as it still `Awaits` the signal or not (`Heard`). With
  that the signal under way is about this operation (`Truthful`), a copy of the sinks
  names nobody twice (`CopiesOnce`), and whoever is not registered has seen nothing.
  `StreamsStayWellFormed`, `SinksStaySound` and `FramesTracedRunning` follow.
- `LifecycleObserverAdapter_proofs`. `AdapterInv` follows the walk of the thread that
  has the mutex: no entry behind it is the observer it adds or removes, an export has kept
  every entry behind it (`Scans`); a living observer is in the list once if it is
  registered, unless it is being removed at this moment (`Registry`); what an export
  must know is known until it has read the list (`Memories`). An observer may expire
  between any two steps, and then none of this is said of it any more, which is why
  expiry breaks nothing. `AdapterTypes`, `RegistryStands` and `ExportsLinearize` follow.
- `GfxQueue_proofs`. `OrderAnyClient` for every application. For those that signal a
  counter from one place at a time, `OwnedInvariance`: what is pending signals no
  counter back (`PendingKept`), waits are met or will be by what precedes
  (`PendingCovered`), and no counter is signalled from two queues (`PendingApart`);
  `OwnedReady` and `OwnedMonotonic` follow. `VerdictsAreLoops`: for submissions and
  batches of any length the verdict, which says with quantifiers what is wrong, is the
  code that the three nested loops of `validate_submit_with_projection` and
  `submit_batch` return. Along the loops the projection is the largest value visible of
  each counter (`Projects`), the loop over the waits has come to the code of the first
  defect (`WaitLoop`), the one over the signals to a projection of those it has seen or
  to a refusal (`SignalLoop`), and the one over the batch to its first defective
  submission (`BatchLoop`).
- `FrameRenderer_proofs`, over any queues, encoders, plans and foreign submissions.
  `FrameInv` adds to the types that a queue has one command buffer for each submission
  (`InStep`), that an encoder that still records has no command buffer that lives or is
  pending (`Unfinished`), what a frame at each place can rely on (`Underway`), that the encoder has
  recorded what was there before and what the frame counted (`DrawsCounted`), and, if
  every frame found its queue empty, that the frame's submission is alone in it (`Alone`).
  `FrameTypesStand`, `FramesFailEarly`, `FramesOwnTheirImage`, `FramesCountTheirDraws` and
  `FramesOnDrainedQueues` follow. `FramesEncodeTheirPlan`: the count is that of the passes
  behind the loop (`PassesDrawn`), so at the end that of the whole plan.
  `FramesUseTheQueues`: `FrameSpec => Spec` of `GfxQueue`, so what is proved of the
  queues for any client holds under the renderer.
- `RenderScene_proofs`. `CacheFollowsEvents` needs that the revision the cache compares
  with is the one last announced (`CacheInv`); `ReferencesStay` is an action property.
  `PlansRun`: a plan of a scene is one of eight forms (`PlanForms`), by layers in
  order. `PlansComplete` says that a sum taken in 32 bits is the sum if the sum
  fits, for any number of batches.
- `GfxDevice_proofs`, for any hash of the fields, any descriptors and words of any
  size. `PipelineInvariance`: the two caches never share an id and every answer is in
  them (`CachesNumbered`, `AnswersCached`); `IdsAreNames`, `NoneForRefused` and
  `PipelinesImmutable` follow. `ViewsStayInside`: what the view checks accept lies
  inside its resource or passes the word, which is arithmetic (`NotAfterIsInside`) and
  that resources keep the descriptors they were accepted with (`ResourceInv`).
  `CounterInvariance`: a kind that no reset has disturbed has created no more than
  it destroyed and has living, a reset in progress has nothing created yet
  (`Balanced`), and a reader that is alone has loaded no more than was created
  (`LoadedInOrder`); `NoFalseLeaks` and, with the two other invariants, `TypeCorrect`
  follow. Two descriptors whose fields the hash maps to one key share a pipeline, in
  the code as in the model: `IdNamesKey` is about keys.
- `VulkanQueue_proofs`, for any number of threads, queues, families, encoders and
  submissions. `Types` is inductive (`TypeCorrectness`): next to the domains it needs
  that what exists was made for a submission (`Made`), that a thread in a call is in
  a queue that exists, with something left to submit or to process (`Busy`), and who
  holds each mutex (`Held`). `UnsharedIsGuarded`: as long as no two queues share a
  VkQueue their mutexes do guard it, so the counterexample of `vulkan_shared_queue` is
  due to create_queue alone.
  `CallOrderStands` and `AllAccountedFor` rest on `Ordered`: what a thread has left to
  submit is ascending and its own (`Underway`), what went through a queue or to a VkQueue
  was submitted to it (`Routed`), and what a thread still has to submit comes after all it
  has submitted, but for the one submission the GPU may have and the queue has not yet
  (`Ahead`, `Accounted`). `FencesFollowTheGPU` adds that what the GPU has executed stays
  executed (`ExecutedStays`) and that a queue processes a submission with a fence only when
  the fence is signalled or the wait failed (`ProcessedGrows`), so that what was processed
  and did not fail was executed (`Awaited`); `Ordered` puts what its thread handed over
  before in front of it. `ObjectsFollowOwners` is inductive with `Ordered`.
  `ExecutionFindsAll` adds that the command buffer of what waits or is to be submitted is
  finished or was dropped under a queue (`BuffersKept`): what the GPU has not executed no
  queue has processed but after a failed wait, so somebody holds its objects.
- `PositionFacts` holds the lemmas these modules share. Its last part is about folds. The
  library defines them by a recursive function chosen by CHOOSE; `FoldExists` shows that
  the equation has a solution if the step stays in a set, and `FoldSteps` that every
  solution walks through the positions 1 .. n one at a time, by induction over a set of
  positions (`Induct`), which needs no operator as a parameter. Each fold of the modules
  (`DrawCount`, `Drawables`, `Drawn`, `PlanDraws`, the three loops of `QueueValidation`)
  then has a lemma (`...Walk`) that gives its walk.

Only model-checked: liveness (`HolderReleases`, `MutexReleased`,
`VulkanMutexReleased`), which TLAPS does not treat under fairness. The four properties
of section 6 that a run finds violated are no theorems, of course.

## 6. Where code and documents disagree

Four are runs with a counterexample:

- `controller_removed_sink`: `engine_lifecycle_controller.hpp:105` promises that a
  removed sink receives no further signal. An export calls the sinks of a copy; a
  sink removed in between is called after its removal returned, and as the
  controller keeps raw pointers, it may be gone.
- `frame_dangling`: `i_gfx_queue.hpp:120` asks that the command buffer be valid during
  the submission. run_basic_frame on a queue that holds an older submission
  processes that one, returns, and destroys the buffer that its own, still pending
  submission points to. `DrainedIsSafe` is the condition under which it cannot
  happen.
- `vulkan_shared_queue`: `vulkan_gfx_queue.cpp:125` says that the mutex of a queue guards
  the access to its VkQueue. create_queue takes queue 0 of the family whenever it is
  called, so two queues of one type, or of two types with one family, share a VkQueue
  and lock a mutex each; Vulkan asks for external synchronization of vkQueueSubmit.
- `vulkan_failed_wait`: `i_gfx_queue.hpp:97` has a fence signalled after the execution of
  its submission. `vulkan_gfx_queue.cpp:166` does not look at the result of
  vkWaitForFences, which may be VK_ERROR_OUT_OF_HOST_MEMORY or
  VK_ERROR_OUT_OF_DEVICE_MEMORY at once: the fence of the contract moves, and the Vulkan
  fence and semaphores are destroyed, while the GPU has yet to execute.

Others were met on the way and are modelled as the code is, without a run:

- `engine/core/README.md:127` says every operation always emits attempt and outcome;
  a sink that throws from the attempt leaves no outcome (`ThrowFrom`).
- `i_engine_lifecycle.hpp:40` says the engine is ready for pause after initialize;
  pause in `Initialized` is `LifecyclePauseInvalidState`.
- `i_engine_lifecycle.hpp:181` calls state() reentrant; from a sink of the same thread
  it waits for a mutex its thread holds.
- `i_gfx_queue.hpp:28` and `:36` call a timeline monotonic; two accepted submissions
  that signal 2 and then 1 take it back (`NeverRegress` asks for applications that do
  not, `OwnedNext`), and `:77` says a submission is processed once its minimum is
  reached, which is then not so (`HeadsReady` asks the same).
- `i_gfx_queue.hpp:82` has timelines signalled after the execution of the submission;
  the Vulkan queue sets those of a submission without a fence as soon as somebody
  processes it, executed or not.
- `queue_submit_integration_tests.cpp:68` has the entries of a batch validated before any
  is queued, which the stub does; the Vulkan queue submits them one by one, and a
  batch that fails at its second entry has its first executed.
- `lifecycle_observer_adapter.cpp:30` says duplicates are registered; add_observer adds
  nothing for an observer that is there.
- `resources/validation.hpp:284` says the check keeps a view coherent with its resource;
  the sum it compares wraps, which `ViewsInside` has to leave out.
- `pipeline/README.md` speaks of a cache by descriptor; the key leaves out layout,
  topology, rasterization, depth and stencil and blend factors, so descriptors that
  differ only there share one pipeline (`IdNamesKey` says exactly which do).

## 7. Abstractions

Messages, severities, timestamps and the fields of log payloads are left out, as
are the labels of commands. An event is its operation, phase, states and code. A
frame context is whether its delta is negative. Configurations are model values,
valid or not, traced or not. A command is a count of one. A snapshot is what the
plan is made of. The hash collisions of pipeline keys are in the parameter `Hash`.

## 8. Not modelled

The `to_string` functions, interfaces without code, the no-op sink's empty body, the
abstract codes that the backend translation computes and the device throws away,
build files, tests and scripts. `adapter_info` and `create_device` keep no state.

Of backends/vulkan: `create_graphics_pipeline` is defined twice in
`vulkan_gfx_device.cpp` and stores into a member that no header declares, so there is
no one behaviour to model; the instance enumerates adapters once and keeps nothing
else; the sources of swapchain, resources and factory are empty. The backend as a
whole does not compile at this commit (`PendingSubmission` is used before it is
declared); its queue and encoder are modelled as written. Commands recorded by its
encoder are only validated and counted, and the counts are left out.

## 9. Plan

1. Done: controller with contract; queue with its loops; adapter; frame; scene; device;
   the Vulkan queue. Every safety property of the passing runs is proved.
2. Next: an abstract specification of a frame (all or nothing on screen) and
   `FrameRenderer` shown to implement it as long as `drained` holds; an abstract
   registry that `LifecycleObserverAdapter` implements, with an export as one step.
3. Facts about the operators of the verdicts of `PipelineValidation` and
   `ResourceValidation`: which descriptors are accepted, as a predicate.
