---------------------------- MODULE FrameRenderer ----------------------------
(***************************************************************************)
(* engine/render: run_basic_frame over one swapchain, the encoders and the *)
(* queues, all of them the stubs of engine/gfx, in an application that     *)
(* also drives them by hand between two frames, as the gfx tests do.       *)
(*                                                                         *)
(* None of these objects is synchronized: one thread uses them, and while  *)
(* a frame runs nothing else does.  An encoder makes one command buffer,   *)
(* which goes by the encoder's name; the SubmitInfo in the queue only      *)
(* points to it.                                                           *)
(***************************************************************************)
EXTENDS GfxQueue, FramePlan

CONSTANTS
  Encoders,     \* the ICommandEncoder objects the application creates
  Plans,        \* the frame plans it runs
  AdapterCount, \* instance.adapter_count()
  ImageCounts,  \* the image counts it asks for
  MaxCommands   \* bound: no draw is added to an encoder with more commands

ASSUME FrameAssumption ==
  /\ Null \notin Encoders
  /\ AdapterCount \in Nat
  /\ ImageCounts \subseteq Nat
  /\ MaxCommands \in Nat
  /\ Plans \subseteq Seq(Passes)

VARIABLES
  swapchain,  \* the StubGfxSwapchain
  encoder,    \* the state of each encoder
  buffers,    \* the command_buffer pointers of each queue's queue_
  live,       \* the command buffers that are not destroyed
  frame,      \* run_basic_frame: its arguments, locals and place
  outcome,    \* the message of the last BasicFrameResult, "ok" if none
  executed,   \* history: the command buffer processed last
  foreign,    \* history: commands in the frame's encoder before the frame
  drained,    \* history: every frame found its queue empty
  taken       \* history: who acquired the image that is acquired

gfx == <<queue, completed, value, answer, accepted>>
device == <<gfx, buffers, live, executed>>
begun == <<foreign, drained>>
frameVars == <<swapchain, encoder, device, frame, outcome, begun, taken>>

-----------------------------------------------------------------------------
(* SWAPCHAIN.  create_swapchain and recreate refuse less than two images.  *)
NewSwapchain(count) == [image_count |-> count, next |-> 0, current |-> 0, acquired |-> FALSE]

Acquirable == swapchain.image_count # 0 /\ ~swapchain.acquired

(* A variant of AcquireNextImage that does not wrap around.                *)
AcquireOnward(user) ==
  /\ swapchain' = [swapchain EXCEPT !.acquired = TRUE,
                                    !.current = swapchain.next,
                                    !.next = @ + 1]
  /\ taken' = user

AcquireNextImage(user) ==
  /\ swapchain' = [swapchain EXCEPT !.acquired = TRUE,
                                    !.current = swapchain.next,
                                    !.next = (@ + 1) % swapchain.image_count]
  /\ taken' = user

Presentable(image) == swapchain.acquired /\ image = swapchain.current

(* A variant of PresentImage that leaves the image acquired.               *)
PresentKeeping == taken' = "nobody" /\ UNCHANGED swapchain

PresentImage ==
  /\ swapchain' = [swapchain EXCEPT !.acquired = FALSE]
  /\ taken' = "nobody"

Recreate(count) ==
  IF count < 2 THEN UNCHANGED <<swapchain, taken>>
  ELSE swapchain' = NewSwapchain(count) /\ taken' = "nobody"

-----------------------------------------------------------------------------
(* ENCODERS AND THEIR COMMAND BUFFERS                                      *)
Recording(e) == encoder[e].is_recording

(* A variant of Record that counts a pass as one command.                  *)
RecordOne(e, draws) == encoder' = [encoder EXCEPT ![e].recorded_commands = @ + 1]

Record(e, draws) == encoder' = [encoder EXCEPT ![e].recorded_commands = @ + draws]

Finish(e) ==
  /\ encoder' = [encoder EXCEPT ![e].is_recording = FALSE]
  /\ live' = live \cup {e}

(* submit keeps the pointer that the SubmitInfo holds.                     *)
SubmitBuffer(q, s, e) ==
  /\ Submit(q, s)
  /\ buffers' = IF answer' = "Ok" THEN [buffers EXCEPT ![q] = Append(@, e)] ELSE buffers

(* A variant of ProcessBuffer that leaves the pointer in the queue.        *)
ProcessKeeping(q) ==
  /\ ProcessNext(q)
  /\ executed' = IF queue[q] = <<>> THEN executed ELSE Head(buffers[q])
  /\ UNCHANGED buffers

ProcessBuffer(q) ==
  /\ ProcessNext(q)
  /\ IF queue[q] = <<>>
     THEN UNCHANGED <<buffers, executed>>
     ELSE /\ buffers' = [buffers EXCEPT ![q] = Tail(@)]
          /\ executed' = Head(buffers[q])

-----------------------------------------------------------------------------
(* RUN_BASIC_FRAME                                                         *)
NoFrame == [at |-> "idle"]
Running(place) == frame.at = place

FrameSubmission == [commands |-> TRUE, waits |-> <<>>, signals |-> <<>>]

ASSUME FrameSubmissionAssumption == FrameSubmission \in Submissions

FrameInit ==
  /\ Init
  /\ \E count \in ImageCounts : count >= 2 /\ swapchain = NewSwapchain(count)
  /\ encoder = [e \in Encoders |-> [is_recording |-> TRUE, recorded_commands |-> 0]]
  /\ buffers = [q \in Queues |-> <<>>]
  /\ live = {}
  /\ frame = NoFrame
  /\ outcome = "ok"
  /\ executed = Null
  /\ foreign = 0
  /\ drained = TRUE
  /\ taken = "nobody"

(* A return leaves the scope of finish_result: the command buffer goes.    *)
ReturnWith(message) ==
  /\ outcome' = message
  /\ frame' = NoFrame

RunBasicFrame(q, e, plan) ==
  /\ Running("idle")
  /\ encoder[e].recorded_commands <= MaxCommands
  /\ IF AdapterCount = 0
     THEN ReturnWith("no graphics adapters available")
     ELSE IF plan = <<>>
     THEN ReturnWith("frame plan has no passes")
     ELSE /\ frame' = [at |-> "acquire", queue |-> q, encoder |-> e, plan |-> plan,
                       pass |-> 1, draws |-> 0, image |-> 0]
          /\ UNCHANGED outcome
  /\ foreign' = encoder[e].recorded_commands
  /\ drained' = (drained /\ (frame'.at = "acquire" => queue[q] = <<>>))
  /\ UNCHANGED <<swapchain, encoder, device, taken>>

(* A variant of FrameAcquires that notes the image current before.         *)
FrameAcquiresLate ==
  /\ Running("acquire")
  /\ Acquirable
  /\ AcquireNextImage("frame")
  /\ frame' = [frame EXCEPT !.at = "encode", !.image = swapchain.current]
  /\ UNCHANGED <<outcome, encoder, device, begun>>

FrameAcquires ==
  /\ Running("acquire")
  /\ IF Acquirable
     THEN /\ AcquireNextImage("frame")
          /\ frame' = [frame EXCEPT !.at = "encode", !.image = swapchain'.current]
          /\ UNCHANGED outcome
     ELSE /\ ReturnWith("swapchain acquire failed")
          /\ UNCHANGED <<swapchain, taken>>
  /\ UNCHANGED <<encoder, device, begun>>

(* One pass of the loop: all its draws, or none when the encoder is        *)
(* finished.                                                               *)
FrameEncodes ==
  /\ Running("encode")
  /\ frame.pass <= Len(frame.plan)
  /\ LET pass == frame.plan[frame.pass] IN
     \/ /\ ~IsValidPass(pass)
        /\ ReturnWith("invalid pass descriptor")
        /\ UNCHANGED encoder
     \/ /\ IsValidPass(pass) /\ ~Recording(frame.encoder)
        /\ ReturnWith("command encoding failed")
        /\ UNCHANGED encoder
     \/ /\ IsValidPass(pass) /\ Recording(frame.encoder)
        /\ Record(frame.encoder, pass.draw_calls)
        /\ frame' = [frame EXCEPT !.pass = @ + 1, !.draws = @ + pass.draw_calls]
        /\ UNCHANGED outcome
  /\ UNCHANGED <<swapchain, device, begun, taken>>

FrameFinishes ==
  /\ Running("encode")
  /\ frame.pass > Len(frame.plan)
  /\ IF Recording(frame.encoder)
     THEN /\ Finish(frame.encoder)
          /\ frame' = [frame EXCEPT !.at = "submit"]
          /\ UNCHANGED outcome
     ELSE /\ ReturnWith("command buffer finish failed")
          /\ UNCHANGED <<encoder, live>>
  /\ UNCHANGED <<swapchain, gfx, buffers, executed, begun, taken>>

FrameSubmits ==
  /\ Running("submit")
  /\ SubmitBuffer(frame.queue, FrameSubmission, frame.encoder)
  /\ IF answer' = "Ok"
     THEN /\ frame' = [frame EXCEPT !.at = "process"]
          /\ UNCHANGED <<outcome, live>>
     ELSE /\ ReturnWith("queue submit failed")
          /\ live' = live \ {frame.encoder}
  /\ UNCHANGED <<swapchain, encoder, executed, begun, taken>>

FrameProcesses ==
  /\ Running("process")
  /\ ProcessBuffer(frame.queue)
  /\ IF answer' = "Ok"
     THEN /\ frame' = [frame EXCEPT !.at = "present"]
          /\ UNCHANGED <<outcome, live>>
     ELSE /\ ReturnWith("queue process failed")
          /\ live' = live \ {frame.encoder}
  /\ UNCHANGED <<swapchain, encoder, begun, taken>>

FramePresents ==
  /\ Running("present")
  /\ IF Presentable(frame.image)
     THEN PresentImage /\ ReturnWith("ok")
     ELSE ReturnWith("swapchain present failed") /\ UNCHANGED <<swapchain, taken>>
  /\ live' = live \ {frame.encoder}
  /\ UNCHANGED <<encoder, gfx, buffers, executed, begun>>

FrameStep ==
  \/ FrameAcquires \/ FrameEncodes \/ FrameFinishes
  \/ FrameSubmits \/ FrameProcesses \/ FramePresents

-----------------------------------------------------------------------------
(* THE APPLICATION BETWEEN TWO FRAMES.  It keeps a command buffer of its   *)
(* own as long as a queue points to it.                                    *)
Pending(e) == \E q \in Queues : e \in {buffers[q][i] : i \in DOMAIN buffers[q]}

(* One command: a copy, a dispatch, a draw or a barrier.  One that is     *)
(* refused changes nothing.                                                *)
ClientRecords(e) ==
  /\ Running("idle")
  /\ Recording(e)
  /\ encoder[e].recorded_commands <= MaxCommands
  /\ Record(e, 1)
  /\ UNCHANGED <<swapchain, device, frame, outcome, begun, taken>>

ClientFinishes(e) ==
  /\ Running("idle")
  /\ Recording(e)
  /\ Finish(e)
  /\ UNCHANGED <<swapchain, gfx, buffers, executed, frame, outcome, begun, taken>>

ClientSubmits(q, s, e) ==
  /\ Running("idle")
  /\ e \in live /\ ~Pending(e)
  /\ SubmitBuffer(q, s, e)
  /\ UNCHANGED <<swapchain, encoder, live, executed, frame, outcome, begun, taken>>

ClientProcesses(q) ==
  /\ Running("idle")
  /\ ProcessBuffer(q)
  /\ UNCHANGED <<swapchain, encoder, live, frame, outcome, begun, taken>>

ClientDestroys(e) ==
  /\ Running("idle")
  /\ e \in live /\ ~Pending(e)
  /\ live' = live \ {e}
  /\ UNCHANGED <<swapchain, encoder, gfx, buffers, executed, frame, outcome, begun, taken>>

ClientAcquires ==
  /\ Running("idle")
  /\ Acquirable
  /\ AcquireNextImage("client")
  /\ UNCHANGED <<encoder, device, frame, outcome, begun>>

ClientPresents(image) ==
  /\ Running("idle")
  /\ Presentable(image)
  /\ PresentImage
  /\ UNCHANGED <<encoder, device, frame, outcome, begun>>

ClientRecreates(count) ==
  /\ Running("idle")
  /\ Recreate(count)
  /\ UNCHANGED <<encoder, device, frame, outcome, begun>>

ClientStep ==
  \/ \E e \in Encoders : ClientRecords(e) \/ ClientFinishes(e) \/ ClientDestroys(e)
  \/ \E q \in Queues : ClientProcesses(q)
  \/ \E q \in Queues, s \in Submissions, e \in Encoders : ClientSubmits(q, s, e)
  \/ ClientAcquires
  \/ \E image \in 0 .. swapchain.image_count - 1 : ClientPresents(image)
  \/ \E count \in ImageCounts : ClientRecreates(count)

FrameNext ==
  \/ \E q \in Queues, e \in Encoders, plan \in Plans : RunBasicFrame(q, e, plan)
  \/ FrameStep
  \/ ClientStep

FrameSpec == FrameInit /\ [][FrameNext]_frameVars

-----------------------------------------------------------------------------
(* PROPERTIES                                                              *)
Places == {"idle", "acquire", "encode", "submit", "process", "present"}

Messages ==
  {"ok", "no graphics adapters available", "frame plan has no passes",
   "swapchain acquire failed", "invalid pass descriptor", "command encoding failed",
   "command buffer finish failed", "queue submit failed", "queue process failed",
   "swapchain present failed"}

(* Every variable stays in its domain.                                     *)
FrameTypeOK ==
  /\ TypeOK
  /\ swapchain \in [image_count : ImageCounts, next : Nat, current : Nat, acquired : BOOLEAN]
  /\ swapchain.next < swapchain.image_count /\ swapchain.current < swapchain.image_count
  /\ encoder \in [Encoders -> [is_recording : BOOLEAN, recorded_commands : Nat]]
  /\ buffers \in [Queues -> Seq(Encoders)]
  /\ live \subseteq Encoders
  /\ frame.at \in Places
  /\ frame.at # "idle" =>
       /\ frame.queue \in Queues /\ frame.encoder \in Encoders
       /\ frame.plan \in Plans /\ frame.pass \in 1 .. Len(frame.plan) + 1
  /\ outcome \in Messages
  /\ executed \in Encoders \cup {Null}
  /\ foreign \in Nat /\ drained \in BOOLEAN
  /\ taken \in {"nobody", "client", "frame"}

(* With the stubs, a frame that has acquired its image and encoded its     *)
(* passes cannot fail: it fails while nothing is submitted or not at all,  *)
(* whatever the application left in the queue, the encoder and the         *)
(* swapchain.                                                              *)
NoLateFailure ==
  outcome \notin {"command buffer finish failed", "queue submit failed",
                  "queue process failed", "swapchain present failed"}

(* The frame owns the image from its acquire to its present, and a frame   *)
(* that succeeds leaves the swapchain ready for the next one: whatever is  *)
(* acquired after it was acquired by the application.                      *)
FrameOwnsImage ==
  /\ frame.at \in {"encode", "submit", "process", "present"} =>
       taken = "frame" /\ Presentable(frame.image)
  /\ frame.at = "idle" /\ outcome = "ok" /\ swapchain.acquired => taken = "client"

(* What a frame submits is the plan's draws, after what the application    *)
(* and the failed frames before had recorded in the encoder.               *)
PlanDraws(plan) == FoldLeft(LAMBDA sum, pass : sum + pass.draw_calls, 0, plan)

FrameEncodesPlan ==
  frame.at \in {"submit", "process", "present"} =>
    encoder[frame.encoder].recorded_commands = foreign + PlanDraws(frame.plan)

(* "Ponteiro para command buffer a ser submetido, deve ser válido durante  *)
(* a submissão": no pending submission points to a destroyed command       *)
(* buffer.                                                                 *)
PendingAlive ==
  \A q \in Queues : \A i \in DOMAIN buffers[q] : buffers[q][i] \in live

(* An application that runs a frame only on a queue it has emptied is safe *)
(* from that, whatever it submits and destroys by hand, and the submission *)
(* that its frame processes is the frame's own.                            *)
DrainedIsSafe ==
  drained =>
    /\ PendingAlive
    /\ frame.at = "present" => executed = frame.encoder
=============================================================================
