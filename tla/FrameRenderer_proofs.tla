------------------------- MODULE FrameRenderer_proofs -------------------------
(***************************************************************************)
(* Theorems about FrameRenderer for any queues, encoders, frame plans and  *)
(* submissions, and their proofs.                                          *)
(***************************************************************************)
EXTENDS FrameRenderer, GfxQueue_proofs

(* The parts of FrameTypeOK, and what else is needed of the types.         *)
Swapchain == [image_count : ImageCounts, next : Nat, current : Nat, acquired : BOOLEAN]

SwapchainOK ==
  /\ swapchain \in Swapchain
  /\ swapchain.next < swapchain.image_count
  /\ swapchain.current < swapchain.image_count

EncodersOK ==
  /\ encoder \in [Encoders -> [is_recording : BOOLEAN, recorded_commands : Nat]]
  /\ buffers \in [Queues -> Seq(Encoders)]
  /\ live \subseteq Encoders

FrameCall ==
  [at : Places \ {"idle"}, queue : Queues, encoder : Encoders, plan : Plans,
   pass : Nat, draws : Nat, image : Nat]

FrameOK ==
  \/ frame = NoFrame
  \/ frame \in FrameCall /\ frame.plan # <<>> /\ frame.pass \in 1 .. Len(frame.plan) + 1

ResultOK ==
  /\ outcome \in Messages
  /\ executed \in Encoders \cup {Null}
  /\ foreign \in Nat /\ drained \in BOOLEAN
  /\ taken \in {"nobody", "client", "frame"}

FrameTypes == TypeOK /\ StableOrder /\ SwapchainOK /\ EncodersOK /\ FrameOK /\ ResultOK

(* A queue has a command buffer for each of its submissions.               *)
InStep == \A q \in Queues : Len(buffers[q]) = Len(queue[q])

(* An encoder that records has no command buffer, so none is pending.      *)
Unfinished == \A e \in Encoders : Recording(e) => e \notin live /\ ~Pending(e)

(* A frame that has encoded a pass is recording, what it submits is its    *)
(* own, and what it processes is there.                                    *)
Underway ==
  /\ frame.at = "acquire" => frame.pass = 1
  /\ frame.at = "encode" /\ frame.pass > 1 => Recording(frame.encoder)
  /\ frame.at = "submit" => frame.encoder \in live /\ ~Pending(frame.encoder)
  /\ frame.at = "process" => queue[frame.queue] # <<>>

(* The encoder of the frame has recorded what was there before the frame   *)
(* and the draws that the frame has counted.                               *)
DrawsCounted ==
  frame.at # "idle" =>
    encoder[frame.encoder].recorded_commands = foreign + frame.draws

(* If every frame found its queue empty, all that is pending is there; the *)
(* frame's submission is alone in its queue, and gone before its command   *)
(* buffer goes.                                                            *)
Alone ==
  drained =>
    /\ PendingAlive
    /\ frame.at \in {"acquire", "encode", "submit"} => queue[frame.queue] = <<>>
    /\ frame.at = "process" =>
         /\ buffers[frame.queue] = <<frame.encoder>>
         /\ frame.encoder \in live
         /\ \A q \in Queues \ {frame.queue} : frame.encoder \notin Range(buffers[q])
    /\ frame.at = "present" => executed = frame.encoder /\ ~Pending(frame.encoder)

FrameInv ==
  /\ FrameTypes /\ InStep /\ Unfinished /\ Underway /\ DrawsCounted
  /\ NoLateFailure /\ FrameOwnsImage /\ Alone

-----------------------------------------------------------------------------
(* Pending and PendingAlive in terms of the lists' elements.               *)
LEMMA PendingIs ==
  /\ \A e : Pending(e) <=> \E q \in Queues : e \in Range(buffers[q])
  /\ PendingAlive <=> \A q \in Queues : Range(buffers[q]) \subseteq live
BY DEF Pending, PendingAlive, Range

(* A step that makes no command buffer and submits none leaves it so that  *)
(* no encoder that records has one.                                        *)
LEMMA FewerPending ==
  ASSUME Unfinished, encoder' = encoder, live' \subseteq live,
         \A q \in Queues : Range(buffers'[q]) \subseteq Range(buffers[q])
  PROVE  Unfinished'
<1>1. \A e : Pending(e)' => Pending(e)
  <2>1. \A e : Pending(e)' <=> \E q \in Queues : e \in Range(buffers'[q])
    BY DEF Pending, Range
  <2>2. QED
    BY <2>1, PendingIs
<1>2. \A e : Recording(e)' <=> Recording(e)
  BY DEF Recording
<1>3. QED
  BY <1>1, <1>2 DEF Unfinished

(* A frame is idle or has a call with all its fields.                      *)
LEMMA FrameIs ==
  ASSUME FrameOK
  PROVE  /\ frame.at \in Places
         /\ frame.at = "idle" <=> frame = NoFrame
         /\ frame.at # "idle" =>
              /\ frame \in FrameCall /\ frame.plan # <<>>
              /\ frame.pass \in 1 .. Len(frame.plan) + 1
              /\ frame.plan \in Seq(Passes) /\ Len(frame.plan) \in Nat \ {0}
              /\ frame.queue \in Queues /\ frame.encoder \in Encoders
              /\ frame.pass \in Nat /\ frame.draws \in Nat /\ frame.image \in Nat
<1>1. CASE frame = NoFrame
  <2>1. frame.at = "idle"
    BY <1>1 DEF NoFrame
  <2>2. QED
    BY <1>1, <2>1 DEF Places
<1>2. CASE frame \in FrameCall /\ frame.plan # <<>> /\ frame.pass \in 1 .. Len(frame.plan) + 1
  <2>1. frame.at \in Places \ {"idle"} /\ frame.plan \in Plans
    BY <1>2 DEF FrameCall
  <2>2. frame # NoFrame
    BY <2>1 DEF NoFrame
  <2>3. frame.plan \in Seq(Passes)
    BY <2>1, FrameAssumption
  <2>4. Len(frame.plan) \in Nat \ {0}
    BY <1>2, <2>3, EmptySeq, LenProperties
  <2>5. QED
    BY <1>2, <2>1, <2>2, <2>3, <2>4 DEF FrameCall
<1>3. QED
  BY <1>1, <1>2 DEF FrameOK

(* The queue takes whatever is submitted and processed.                    *)
LEMMA QueueSteps ==
  ASSUME TypeOK, StableOrder, NEW q \in Queues,
         \/ \E s \in Submissions : Submit(q, s)
         \/ ProcessNext(q)
  PROVE  TypeOK' /\ StableOrder'
BY TypesStep DEF Next, vars, gfx

(* What leaves the queues alone keeps them as they are.                    *)
LEMMA QueueStays ==
  ASSUME TypeOK, StableOrder, UNCHANGED gfx
  PROVE  TypeOK' /\ StableOrder'
BY TypesStep DEF vars, gfx

(* The submission of a frame is always accepted.                           *)
LEMMA FrameAccepted == Verdict(FrameSubmission, <<>>) = "Ok"
<1>1. DOMAIN <<>> = {}
  OBVIOUS
<1>2. Valid(FrameSubmission, <<>>)
  BY <1>1 DEF Valid, FrameSubmission
<1>3. QED
  BY <1>2 DEF Verdict

(* The next image is one of the swapchain's.                               *)
LEMMA NextImage ==
  ASSUME SwapchainOK, NEW user, AcquireNextImage(user)
  PROVE  SwapchainOK' /\ taken' = user /\ swapchain'.acquired /\ swapchain'.current \in Nat
<1>1. swapchain.image_count \in Nat \ {0} /\ swapchain.next \in Nat
  <2>1. swapchain.image_count \in ImageCounts /\ swapchain.next \in Nat
    BY DEF SwapchainOK, Swapchain
  <2>2. swapchain.image_count \in Nat
    BY <2>1, FrameAssumption
  <2>3. QED
    BY <2>1, <2>2 DEF SwapchainOK
<1>2. /\ (swapchain.next + 1) % swapchain.image_count \in Nat
      /\ (swapchain.next + 1) % swapchain.image_count < swapchain.image_count
  BY <1>1
<1>3. QED
  BY <1>1, <1>2 DEF SwapchainOK, Swapchain, AcquireNextImage

(* What is submitted goes last in both lists of its queue, if it is        *)
(* accepted.                                                               *)
LEMMA SubmitBufferDoes ==
  ASSUME TypeOK, StableOrder, EncodersOK, InStep,
         NEW q \in Queues, NEW s \in Submissions, NEW e \in Encoders, SubmitBuffer(q, s, e)
  PROVE  /\ TypeOK' /\ StableOrder' /\ InStep'
         /\ buffers' \in [Queues -> Seq(Encoders)]
         /\ answer' = Verdict(s, <<>>)
         /\ \A p \in Queues \ {q} : buffers'[p] = buffers[p] /\ queue'[p] = queue[p]
         /\ answer' = "Ok" =>
              /\ buffers'[q] = Append(buffers[q], e)
              /\ Range(buffers'[q]) = Range(buffers[q]) \cup {e}
              /\ queue'[q] # <<>>
         /\ answer' # "Ok" => UNCHANGED <<queue, buffers>>
<1>1. /\ Submit(q, s) /\ answer' = Verdict(s, <<>>)
      /\ buffers' = IF answer' = "Ok" THEN [buffers EXCEPT ![q] = Append(@, e)] ELSE buffers
      /\ IF answer' = "Ok" THEN queue' = [queue EXCEPT ![q] = @ \o <<s>>] ELSE UNCHANGED queue
  BY DEF SubmitBuffer, Submit, Enqueue
<1>2. TypeOK' /\ StableOrder'
  BY <1>1, QueueSteps
<1>3. /\ queue \in [Queues -> Seq(Submissions)] /\ buffers \in [Queues -> Seq(Encoders)]
      /\ <<s>> \in Seq(Submissions)
  BY DEF TypeOK, EncodersOK
<1>4. CASE answer' = "Ok"
  <2>1. /\ Append(buffers[q], e) \in Seq(Encoders)
        /\ Len(Append(buffers[q], e)) = Len(buffers[q]) + 1
        /\ Range(Append(buffers[q], e)) = Range(buffers[q]) \cup {e}
    BY <1>3, AppendProperties, Elements
  <2>2. Len(queue[q] \o <<s>>) = Len(queue[q]) + 1 /\ queue[q] \o <<s>> # <<>>
    BY <1>3, Parts, LenProperties
  <2>3. /\ buffers'[q] = Append(buffers[q], e) /\ queue'[q] = queue[q] \o <<s>>
        /\ \A p \in Queues \ {q} : buffers'[p] = buffers[p] /\ queue'[p] = queue[p]
        /\ buffers' \in [Queues -> Seq(Encoders)]
    BY <1>1, <1>3, <1>4, <2>1
  <2>4. InStep'
    BY <2>1, <2>2, <2>3 DEF InStep
  <2>5. QED
    BY <1>1, <1>2, <1>4, <2>1, <2>2, <2>3, <2>4
<1>5. CASE answer' # "Ok"
  BY <1>1, <1>2, <1>3, <1>5 DEF InStep
<1>6. QED
  BY <1>4, <1>5

(* What is processed is the first in both lists.                           *)
LEMMA ProcessBufferDoes ==
  ASSUME TypeOK, StableOrder, EncodersOK, InStep, executed \in Encoders \cup {Null},
         NEW q \in Queues, ProcessBuffer(q)
  PROVE  /\ TypeOK' /\ StableOrder' /\ InStep'
         /\ buffers' \in [Queues -> Seq(Encoders)]
         /\ executed' \in Encoders \cup {Null}
         /\ \A p \in Queues \ {q} : buffers'[p] = buffers[p]
         /\ Range(buffers'[q]) \subseteq Range(buffers[q])
         /\ queue[q] # <<>> =>
              /\ answer' = "Ok" /\ executed' = Head(buffers[q])
              /\ buffers'[q] = Tail(buffers[q])
<1>1. /\ ProcessNext(q)
      /\ IF queue[q] = <<>>
         THEN UNCHANGED <<buffers, executed, queue>>
         ELSE /\ buffers' = [buffers EXCEPT ![q] = Tail(@)]
              /\ executed' = Head(buffers[q])
              /\ queue' = [queue EXCEPT ![q] = Tail(@)]
              /\ answer' = "Ok"
  BY DEF ProcessBuffer, ProcessNext
<1>2. TypeOK' /\ StableOrder'
  BY <1>1, QueueSteps
<1>3. /\ queue \in [Queues -> Seq(Submissions)] /\ buffers \in [Queues -> Seq(Encoders)]
      /\ Len(buffers[q]) = Len(queue[q])
  BY DEF TypeOK, EncodersOK, InStep
<1>4. CASE queue[q] # <<>>
  <2>1. buffers[q] # <<>>
    BY <1>3, <1>4, EmptySeq, LenProperties
  <2>2. /\ Head(buffers[q]) \in Encoders /\ Tail(buffers[q]) \in Seq(Encoders)
        /\ Len(Tail(buffers[q])) = Len(buffers[q]) - 1
        /\ Len(Tail(queue[q])) = Len(queue[q]) - 1
        /\ Range(Tail(buffers[q])) \subseteq Range(buffers[q])
    BY <1>3, <1>4, <2>1, HeadTailProperties, Elements
  <2>3. /\ buffers'[q] = Tail(buffers[q]) /\ queue'[q] = Tail(queue[q])
        /\ \A p \in Queues \ {q} : buffers'[p] = buffers[p] /\ queue'[p] = queue[p]
        /\ buffers' \in [Queues -> Seq(Encoders)]
    BY <1>1, <1>3, <1>4, <2>2
  <2>4. InStep'
    BY <1>3, <2>2, <2>3 DEF InStep
  <2>5. QED
    BY <1>1, <1>2, <1>4, <2>2, <2>3, <2>4
<1>5. CASE queue[q] = <<>>
  <2>1. UNCHANGED <<buffers, executed, queue>>
    BY <1>1, <1>5
  <2>2. QED
    BY <1>2, <1>3, <1>5, <2>1 DEF InStep
<1>6. QED
  BY <1>4, <1>5

-----------------------------------------------------------------------------
(* A frame begins: what is known of the queue is noted.                    *)
LEMMA BeginFrame ==
  ASSUME FrameInv, NEW q \in Queues, NEW e \in Encoders, NEW plan \in Plans,
         RunBasicFrame(q, e, plan)
  PROVE  FrameInv'
<1>1. /\ UNCHANGED <<swapchain, encoder, device, taken>> /\ frame = NoFrame
      /\ foreign' = encoder[e].recorded_commands
      /\ drained' = (drained /\ (frame'.at = "acquire" => queue[q] = <<>>))
      /\ \/ frame' = NoFrame /\ outcome' = "no graphics adapters available"
         \/ frame' = NoFrame /\ outcome' = "frame plan has no passes"
         \/ /\ plan # <<>> /\ outcome' = outcome
            /\ frame' = [at |-> "acquire", queue |-> q, encoder |-> e, plan |-> plan,
                         pass |-> 1, draws |-> 0, image |-> 0]
  BY FrameIs DEF FrameInv, FrameTypes, RunBasicFrame, Running, ReturnWith
<1>2. UNCHANGED <<queue, completed, value, answer, accepted, buffers, live, executed>>
  BY <1>1 DEF device, gfx
<1>3. FrameTypes'
  <2>1. TypeOK' /\ StableOrder'
    BY <1>2, QueueStays DEF FrameInv, FrameTypes, gfx
  <2>2. SwapchainOK' /\ EncodersOK'
    BY <1>1, <1>2 DEF FrameInv, FrameTypes, SwapchainOK, EncodersOK
  <2>3. FrameOK'
    <3>1. CASE frame' = NoFrame
      BY <3>1 DEF FrameOK
    <3>2. CASE /\ plan # <<>>
               /\ frame' = [at |-> "acquire", queue |-> q, encoder |-> e, plan |-> plan,
                            pass |-> 1, draws |-> 0, image |-> 0]
      <4>1. plan \in Seq(Passes)
        BY FrameAssumption
      <4>2. Len(plan) \in Nat \ {0}
        BY <3>2, <4>1, EmptySeq, LenProperties
      <4>3. QED
        BY <3>2, <4>2 DEF FrameOK, FrameCall, Places
    <3>3. QED
      BY <1>1, <3>1, <3>2
  <2>4. ResultOK'
    <3>1. foreign' \in Nat
      BY <1>1 DEF FrameInv, FrameTypes, EncodersOK
    <3>2. outcome' \in Messages
      BY <1>1 DEF FrameInv, FrameTypes, ResultOK, Messages
    <3>3. QED
      BY <1>1, <1>2, <3>1, <3>2 DEF FrameInv, FrameTypes, ResultOK
  <2>5. QED
    BY <2>1, <2>2, <2>3, <2>4 DEF FrameTypes
<1>4. \/ frame'.at = "idle"
      \/ /\ frame'.at = "acquire" /\ frame'.queue = q /\ frame'.encoder = e
         /\ frame'.pass = 1 /\ frame'.draws = 0 /\ outcome' = outcome
  <2>1. CASE frame' = NoFrame
    BY <2>1 DEF NoFrame
  <2>2. CASE /\ plan # <<>> /\ outcome' = outcome
             /\ frame' = [at |-> "acquire", queue |-> q, encoder |-> e, plan |-> plan,
                          pass |-> 1, draws |-> 0, image |-> 0]
    BY <2>2
  <2>3. QED
    BY <1>1, <2>1, <2>2
<1>5. InStep' /\ Unfinished'
  BY <1>1, <1>2 DEF FrameInv, InStep, Unfinished, Recording, Pending
<1>6. Underway' /\ DrawsCounted'
  <2>1. encoder[e].recorded_commands \in Nat
    BY DEF FrameInv, FrameTypes, EncodersOK
  <2>2. Underway'
    BY <1>4 DEF Underway
  <2>3. CASE frame'.at = "idle"
    BY <2>2, <2>3 DEF DrawsCounted
  <2>4. CASE frame'.encoder = e /\ frame'.draws = 0
    <3>1. encoder' = encoder /\ foreign' = encoder[e].recorded_commands
      BY <1>1
    <3>2. encoder'[frame'.encoder].recorded_commands = encoder[e].recorded_commands
      BY <2>4, <3>1
    <3>3. foreign' + frame'.draws = encoder[e].recorded_commands
      BY <2>1, <2>4, <3>1
    <3>4. QED
      BY <2>2, <3>2, <3>3 DEF DrawsCounted
  <2>5. QED
    BY <1>4, <2>3, <2>4
<1>7. NoLateFailure'
  BY <1>1 DEF FrameInv, NoLateFailure
<1>8. FrameOwnsImage'
  BY <1>1, <1>4 DEF FrameInv, FrameOwnsImage, NoFrame
<1>9. Alone'
  <2>1. PendingAlive' <=> PendingAlive
    BY <1>2 DEF PendingAlive
  <2>2. QED
    BY <1>1, <1>2, <1>4, <2>1 DEF FrameInv, Alone
<1>10. QED
  BY <1>3, <1>5, <1>6, <1>7, <1>8, <1>9 DEF FrameInv

(* The image that the frame acquires is its own.                           *)
LEMMA AcquireKeeps ==
  ASSUME FrameInv, FrameAcquires
  PROVE  FrameInv'
<1>1. /\ frame.at = "acquire"
      /\ UNCHANGED <<encoder, queue, completed, value, answer, accepted, buffers, live, executed,
                     foreign, drained>>
      /\ \/ /\ Acquirable /\ AcquireNextImage("frame") /\ outcome' = outcome
            /\ frame' = [frame EXCEPT !.at = "encode", !.image = swapchain'.current]
         \/ /\ outcome' = "swapchain acquire failed" /\ frame' = NoFrame
            /\ UNCHANGED <<swapchain, taken>>
  BY DEF FrameAcquires, Running, ReturnWith, device, gfx, begun
<1>2. /\ frame \in FrameCall /\ frame.plan # <<>> /\ frame.pass \in 1 .. Len(frame.plan) + 1
  BY <1>1, FrameIs DEF FrameInv, FrameTypes
<1>3. TypeOK' /\ StableOrder' /\ EncodersOK'
  BY <1>1, QueueStays DEF FrameInv, FrameTypes, gfx, EncodersOK
<1>4. InStep' /\ Unfinished'
  BY <1>1 DEF FrameInv, InStep, Unfinished, Recording, Pending
<1>5. PendingAlive' <=> PendingAlive
  BY <1>1 DEF PendingAlive
<1>6. CASE /\ Acquirable /\ AcquireNextImage("frame") /\ outcome' = outcome
           /\ frame' = [frame EXCEPT !.at = "encode", !.image = swapchain'.current]
  <2>1. SwapchainOK' /\ taken' = "frame" /\ swapchain'.acquired /\ swapchain'.current \in Nat
    BY <1>6, NextImage DEF FrameInv, FrameTypes
  <2>2. /\ frame' \in FrameCall /\ frame'.at = "encode" /\ frame'.image = swapchain'.current
        /\ frame'.plan = frame.plan /\ frame'.pass = frame.pass /\ frame'.draws = frame.draws
        /\ frame'.encoder = frame.encoder /\ frame'.queue = frame.queue
    BY <1>2, <1>6, <2>1 DEF FrameCall, Places
  <2>3. FrameTypes'
    <3>1. FrameOK'
      BY <1>2, <2>2 DEF FrameOK
    <3>2. ResultOK'
      BY <1>1, <1>6, <2>1 DEF FrameInv, FrameTypes, ResultOK
    <3>3. QED
      BY <1>3, <2>1, <3>1, <3>2 DEF FrameTypes
  <2>4. QED
    <3>1. FrameOwnsImage' /\ NoLateFailure'
      BY <1>6, <2>1, <2>2 DEF FrameInv, FrameOwnsImage, Presentable, NoLateFailure
    <3>2. Alone'
      BY <1>1, <1>5, <2>2 DEF FrameInv, Alone
    <3>3. /\ frame.pass = 1
          /\ encoder[frame.encoder].recorded_commands = foreign + frame.draws
      BY <1>1 DEF FrameInv, Underway, DrawsCounted
    <3>4. Underway'
      BY <2>2, <3>3 DEF Underway
    <3>5. /\ encoder'[frame'.encoder].recorded_commands = encoder[frame.encoder].recorded_commands
          /\ foreign' + frame'.draws = foreign + frame.draws
      BY <1>1, <2>2
    <3>6. DrawsCounted'
      BY <3>3, <3>5 DEF DrawsCounted
    <3>7. QED
      BY <1>4, <2>3, <3>1, <3>2, <3>4, <3>6 DEF FrameInv
<1>7. CASE /\ outcome' = "swapchain acquire failed" /\ frame' = NoFrame
           /\ UNCHANGED <<swapchain, taken>>
  <2>1. frame'.at = "idle"
    BY <1>7 DEF NoFrame
  <2>2. FrameTypes'
    <3>1. SwapchainOK' /\ FrameOK'
      BY <1>7 DEF FrameInv, FrameTypes, SwapchainOK, FrameOK
    <3>2. ResultOK'
      BY <1>1, <1>7 DEF FrameInv, FrameTypes, ResultOK, Messages
    <3>3. QED
      BY <1>3, <3>1, <3>2 DEF FrameTypes
  <2>3. Underway' /\ DrawsCounted' /\ NoLateFailure' /\ FrameOwnsImage'
    BY <1>7, <2>1 DEF Underway, DrawsCounted, NoLateFailure, FrameOwnsImage
  <2>4. Alone'
    BY <1>1, <1>5, <2>1 DEF FrameInv, Alone
  <2>5. QED
    BY <1>4, <2>2, <2>3, <2>4 DEF FrameInv
<1>8. QED
  BY <1>1, <1>6, <1>7

(* What a frame that returns leaves is in order, if its types are and what *)
(* is pending is there.                                                    *)
LEMMA Returns ==
  ASSUME frame' = NoFrame, FrameTypes', InStep', Unfinished', NoLateFailure',
         outcome' = "ok" /\ swapchain'.acquired => taken' = "client",
         drained' => PendingAlive'
  PROVE  FrameInv'
<1>1. frame'.at = "idle"
  BY DEF NoFrame
<1>2. Underway' /\ DrawsCounted' /\ FrameOwnsImage' /\ Alone'
  BY <1>1 DEF Underway, DrawsCounted, FrameOwnsImage, Alone
<1>3. QED
  BY <1>2 DEF FrameInv

(* A pass is recorded whole or the frame returns.                          *)
LEMMA EncodeKeeps ==
  ASSUME FrameInv, FrameEncodes
  PROVE  FrameInv'
<1> DEFINE pass == frame.plan[frame.pass]
           f == frame.encoder
<1>1. /\ frame.at = "encode" /\ frame.pass <= Len(frame.plan)
      /\ UNCHANGED <<swapchain, queue, completed, value, answer, accepted, buffers, live,
                     executed, foreign, drained, taken>>
      /\ \/ /\ outcome' \in {"invalid pass descriptor", "command encoding failed"}
            /\ frame' = NoFrame /\ UNCHANGED encoder
         \/ /\ Recording(f)
            /\ encoder' = [encoder EXCEPT ![f].recorded_commands = @ + pass.draw_calls]
            /\ frame' = [frame EXCEPT !.pass = @ + 1, !.draws = @ + pass.draw_calls]
            /\ outcome' = outcome
  BY DEF FrameEncodes, Running, ReturnWith, Record, device, gfx, begun
<1>2. /\ frame \in FrameCall /\ frame.plan # <<>> /\ frame.pass \in 1 .. Len(frame.plan) + 1
      /\ frame.plan \in Seq(Passes) /\ f \in Encoders
  BY <1>1, FrameIs DEF FrameInv, FrameTypes
<1>3. TypeOK' /\ StableOrder' /\ SwapchainOK'
  BY <1>1, QueueStays DEF FrameInv, FrameTypes, gfx, SwapchainOK
<1>4. InStep'
  BY <1>1 DEF FrameInv, InStep
<1>5. /\ PendingAlive' <=> PendingAlive
      /\ \A e : Pending(e)' <=> Pending(e)
  <2>1. UNCHANGED <<buffers, live>>
    BY <1>1
  <2>2. QED
    BY <2>1 DEF PendingAlive, Pending
<1>6. CASE /\ outcome' \in {"invalid pass descriptor", "command encoding failed"}
           /\ frame' = NoFrame /\ UNCHANGED encoder
  <2>1. EncodersOK' /\ FrameOK'
    BY <1>1, <1>6 DEF FrameInv, FrameTypes, EncodersOK, FrameOK
  <2>2. ResultOK'
    BY <1>1, <1>6 DEF FrameInv, FrameTypes, ResultOK, Messages
  <2>3. FrameTypes'
    BY <1>3, <2>1, <2>2 DEF FrameTypes
  <2>4. Unfinished'
    BY <1>1, <1>5, <1>6 DEF FrameInv, Unfinished, Recording
  <2>5. NoLateFailure'
    BY <1>6 DEF NoLateFailure
  <2>6. drained' => PendingAlive'
    BY <1>1, <1>5 DEF FrameInv, Alone
  <2>7. QED
    BY <1>4, <1>6, <2>3, <2>4, <2>5, <2>6, Returns
<1>7. CASE /\ Recording(f)
           /\ encoder' = [encoder EXCEPT ![f].recorded_commands = @ + pass.draw_calls]
           /\ frame' = [frame EXCEPT !.pass = @ + 1, !.draws = @ + pass.draw_calls]
           /\ outcome' = outcome
  <2>1. pass.draw_calls \in Nat
    <3>1. frame.pass \in 1 .. Len(frame.plan)
      <4>1. frame.pass \in 1 .. Len(frame.plan) + 1 /\ frame.pass <= Len(frame.plan)
        BY <1>1, <1>2
      <4>2. Len(frame.plan) \in Nat
        BY <1>2, LenProperties
      <4>3. QED
        BY <4>1, <4>2
    <3>2. pass \in Passes
      BY <1>2, <3>1, ElementOfSeq
    <3>3. QED
      BY <3>2, FramePlanAssumption DEF Passes
  <2>2. /\ frame' \in FrameCall /\ frame'.at = "encode" /\ frame'.plan = frame.plan
        /\ frame'.pass = frame.pass + 1 /\ frame'.draws = frame.draws + pass.draw_calls
        /\ frame'.encoder = f /\ frame'.queue = frame.queue /\ frame'.image = frame.image
        /\ frame'.pass \in 1 .. Len(frame.plan) + 1
    <3>1. frame.pass \in Nat /\ frame.draws \in Nat /\ Len(frame.plan) \in Nat
      BY <1>2, LenProperties DEF FrameCall
    <3>2. frame.pass + 1 \in 1 .. Len(frame.plan) + 1 /\ frame.draws + pass.draw_calls \in Nat
      <4>1. frame.pass <= Len(frame.plan) /\ frame.pass \in 1 .. Len(frame.plan) + 1
        BY <1>1, <1>2
      <4>2. QED
        BY <2>1, <3>1, <4>1
    <3>3. /\ frame \in FrameCall /\ frame.at = "encode"
          /\ frame' = [frame EXCEPT !.pass = @ + 1, !.draws = @ + pass.draw_calls]
      BY <1>1, <1>2, <1>7
    <3>4. frame.pass + 1 \in Nat
      BY <3>1
    <3>5. QED
      BY <3>2, <3>3, <3>4 DEF FrameCall
  <2>3. /\ EncodersOK'
        /\ encoder'[f].recorded_commands = encoder[f].recorded_commands + pass.draw_calls
        /\ \A e \in Encoders : Recording(e)' <=> Recording(e)
    <3>1. encoder \in [Encoders -> [is_recording : BOOLEAN, recorded_commands : Nat]]
      BY DEF FrameInv, FrameTypes, EncodersOK
    <3>2. /\ encoder' = [encoder EXCEPT ![f].recorded_commands = @ + pass.draw_calls]
          /\ f \in Encoders
      BY <1>2, <1>7
    <3>3. encoder[f].recorded_commands + pass.draw_calls \in Nat
      BY <2>1, <3>1, <3>2
    <3>4. /\ encoder' \in [Encoders -> [is_recording : BOOLEAN, recorded_commands : Nat]]
          /\ encoder'[f].recorded_commands = encoder[f].recorded_commands + pass.draw_calls
          /\ \A e \in Encoders : encoder'[e].is_recording = encoder[e].is_recording
      BY <3>1, <3>2, <3>3
    <3>5. EncodersOK'
      BY <1>1, <3>4 DEF FrameInv, FrameTypes, EncodersOK
    <3>6. QED
      BY <3>4, <3>5 DEF Recording
  <2>4. FrameTypes'
    <3>1. FrameOK'
      BY <1>2, <2>2 DEF FrameOK
    <3>2. ResultOK'
      BY <1>1, <1>7 DEF FrameInv, FrameTypes, ResultOK
    <3>3. QED
      BY <1>3, <2>3, <3>1, <3>2 DEF FrameTypes
  <2>5. Unfinished' /\ Underway'
    <3>1. UNCHANGED live
      BY <1>1
    <3>2. Unfinished'
      BY <1>5, <2>3, <3>1 DEF FrameInv, Unfinished
    <3>3. Recording(f)'
      BY <1>2, <1>7, <2>3
    <3>4. Underway'
      BY <2>2, <3>3 DEF Underway
    <3>5. QED
      BY <3>2, <3>4
  <2>6. DrawsCounted'
    <3>1. encoder[f].recorded_commands = foreign + frame.draws
      BY <1>1 DEF FrameInv, DrawsCounted
    <3>2. foreign \in Nat /\ frame.draws \in Nat
      BY <1>2 DEF FrameInv, FrameTypes, ResultOK, FrameCall
    <3>3. foreign' = foreign
      BY <1>1
    <3>4. encoder'[frame'.encoder].recorded_commands
            = encoder[f].recorded_commands + pass.draw_calls
      BY <2>2, <2>3
    <3>5. foreign' + frame'.draws = encoder[f].recorded_commands + pass.draw_calls
      BY <2>1, <2>2, <3>1, <3>2, <3>3
    <3>6. QED
      BY <3>4, <3>5 DEF DrawsCounted
  <2>7. NoLateFailure' /\ FrameOwnsImage'
    BY <1>1, <1>7, <2>2 DEF FrameInv, NoLateFailure, FrameOwnsImage, Presentable
  <2>8. Alone'
    BY <1>1, <1>5, <2>2 DEF FrameInv, Alone
  <2>9. QED
    BY <1>4, <2>4, <2>5, <2>6, <2>7, <2>8 DEF FrameInv
<1>8. QED
  BY <1>1, <1>6, <1>7

(* The frame's encoder makes its command buffer or the frame returns.      *)
LEMMA FinishKeeps ==
  ASSUME FrameInv, FrameFinishes
  PROVE  FrameInv'
<1> DEFINE f == frame.encoder
<1>1. /\ frame.at = "encode" /\ frame.pass > Len(frame.plan)
      /\ UNCHANGED <<swapchain, queue, completed, value, answer, accepted, buffers, executed,
                     foreign, drained, taken>>
      /\ Recording(f) =>
           /\ encoder' = [encoder EXCEPT ![f].is_recording = FALSE]
           /\ live' = live \cup {f} /\ outcome' = outcome
           /\ frame' = [frame EXCEPT !.at = "submit"]
  BY DEF FrameFinishes, Running, Finish, gfx, begun
<1>2. /\ frame \in FrameCall /\ frame.plan # <<>> /\ frame.pass \in 1 .. Len(frame.plan) + 1
      /\ frame.plan \in Seq(Passes) /\ f \in Encoders
  BY <1>1, FrameIs DEF FrameInv, FrameTypes
<1>3. Recording(f) /\ f \notin live /\ ~Pending(f)
  <2>1. Len(frame.plan) \in Nat \ {0}
    BY <1>1, FrameIs DEF FrameInv, FrameTypes
  <2>2. frame.pass > 1
    BY <1>1, <1>2, <2>1
  <2>3. QED
    BY <1>1, <1>2, <2>2 DEF FrameInv, Underway, Unfinished
<1>4. /\ encoder' = [encoder EXCEPT ![f].is_recording = FALSE]
      /\ live' = live \cup {f} /\ outcome' = outcome
      /\ frame' = [frame EXCEPT !.at = "submit"]
  BY <1>1, <1>3
<1>5. /\ frame' \in FrameCall /\ frame'.at = "submit" /\ frame'.plan = frame.plan
      /\ frame'.pass = frame.pass /\ frame'.draws = frame.draws /\ frame'.encoder = f
      /\ frame'.queue = frame.queue /\ frame'.image = frame.image
  BY <1>2, <1>4 DEF FrameCall, Places
<1>6. TypeOK' /\ StableOrder' /\ SwapchainOK'
  BY <1>1, QueueStays DEF FrameInv, FrameTypes, gfx, SwapchainOK
<1>7. InStep' /\ \A e : Pending(e)' <=> Pending(e)
  <2>1. UNCHANGED <<buffers, queue>>
    BY <1>1
  <2>2. QED
    BY <2>1 DEF FrameInv, InStep, Pending
<1>8. /\ EncodersOK' /\ encoder'[f].recorded_commands = encoder[f].recorded_commands
      /\ \A e \in Encoders : Recording(e)' => Recording(e) /\ e # f
  <2>1. encoder \in [Encoders -> [is_recording : BOOLEAN, recorded_commands : Nat]]
    BY DEF FrameInv, FrameTypes, EncodersOK
  <2>2. /\ encoder' \in [Encoders -> [is_recording : BOOLEAN, recorded_commands : Nat]]
        /\ encoder'[f].recorded_commands = encoder[f].recorded_commands
        /\ ~encoder'[f].is_recording
        /\ \A e \in Encoders \ {f} : encoder'[e] = encoder[e]
    BY <1>2, <1>4, <2>1
  <2>3. live' \subseteq Encoders /\ buffers' = buffers
    BY <1>1, <1>2, <1>4 DEF FrameInv, FrameTypes, EncodersOK
  <2>4. EncodersOK'
    BY <2>2, <2>3 DEF FrameInv, FrameTypes, EncodersOK
  <2>5. QED
    BY <2>2, <2>4 DEF Recording
<1>9. FrameTypes'
  <2>1. FrameOK'
    BY <1>2, <1>5 DEF FrameOK
  <2>2. ResultOK'
    BY <1>1, <1>4 DEF FrameInv, FrameTypes, ResultOK
  <2>3. QED
    BY <1>6, <1>8, <2>1, <2>2 DEF FrameTypes
<1>10. Unfinished'
  BY <1>4, <1>7, <1>8 DEF FrameInv, Unfinished
<1>11. Underway'
  BY <1>3, <1>4, <1>5, <1>7 DEF Underway
<1>12. DrawsCounted'
  <2>1. encoder[f].recorded_commands = foreign + frame.draws /\ foreign' = foreign
    BY <1>1 DEF FrameInv, DrawsCounted
  <2>2. QED
    BY <1>5, <1>8, <2>1 DEF DrawsCounted
<1>13. NoLateFailure' /\ FrameOwnsImage'
  BY <1>1, <1>4, <1>5 DEF FrameInv, NoLateFailure, FrameOwnsImage, Presentable
<1>14. Alone'
  <2>1. PendingAlive => PendingAlive'
    BY <1>1, <1>4 DEF PendingAlive
  <2>2. QED
    BY <1>1, <1>5, <2>1 DEF FrameInv, Alone
<1>15. QED
  BY <1>7, <1>9, <1>10, <1>11, <1>12, <1>13, <1>14 DEF FrameInv

(* The frame's command buffer goes last in its queue.                      *)
LEMMA SubmitKeeps ==
  ASSUME FrameInv, FrameSubmits
  PROVE  FrameInv'
<1> DEFINE f == frame.encoder
           q == frame.queue
<1>1. /\ frame.at = "submit" /\ SubmitBuffer(q, FrameSubmission, f)
      /\ answer' = "Ok" =>
           /\ frame' = [frame EXCEPT !.at = "process"] /\ UNCHANGED <<outcome, live>>
      /\ UNCHANGED <<swapchain, encoder, executed, foreign, drained, taken>>
  BY DEF FrameSubmits, Running, begun
<1>2. /\ frame \in FrameCall /\ frame.plan # <<>> /\ frame.pass \in 1 .. Len(frame.plan) + 1
      /\ q \in Queues /\ f \in Encoders
  BY <1>1, FrameIs DEF FrameInv, FrameTypes
<1>3. /\ TypeOK /\ StableOrder /\ EncodersOK /\ InStep /\ f \in live /\ ~Pending(f)
      /\ buffers \in [Queues -> Seq(Encoders)]
  BY <1>1 DEF FrameInv, FrameTypes, Underway, EncodersOK
<1>4. /\ TypeOK' /\ StableOrder' /\ InStep'
      /\ buffers' \in [Queues -> Seq(Encoders)]
      /\ answer' = Verdict(FrameSubmission, <<>>)
      /\ \A p \in Queues \ {q} : buffers'[p] = buffers[p] /\ queue'[p] = queue[p]
      /\ answer' = "Ok" =>
           /\ buffers'[q] = Append(buffers[q], f)
           /\ Range(buffers'[q]) = Range(buffers[q]) \cup {f}
           /\ queue'[q] # <<>>
  BY <1>1, <1>2, <1>3, FrameSubmissionAssumption, SubmitBufferDoes
<1>5. /\ answer' = "Ok" /\ frame' = [frame EXCEPT !.at = "process"]
      /\ UNCHANGED <<outcome, live>>
  BY <1>1, <1>4, FrameAccepted
<1>6. /\ buffers'[q] = Append(buffers[q], f)
      /\ Range(buffers'[q]) = Range(buffers[q]) \cup {f}
      /\ queue'[q] # <<>>
  BY <1>4, <1>5
<1>7. /\ frame' \in FrameCall /\ frame'.at = "process" /\ frame'.plan = frame.plan
      /\ frame'.pass = frame.pass /\ frame'.draws = frame.draws /\ frame'.encoder = f
      /\ frame'.queue = q /\ frame'.image = frame.image
  BY <1>2, <1>5 DEF FrameCall, Places
<1>8. FrameTypes'
  <2>1. FrameOK'
    BY <1>2, <1>7 DEF FrameOK
  <2>2. ResultOK' /\ EncodersOK' /\ SwapchainOK'
    BY <1>1, <1>4, <1>5 DEF FrameInv, FrameTypes, ResultOK, EncodersOK, SwapchainOK
  <2>3. QED
    BY <1>4, <2>1, <2>2 DEF FrameTypes
<1>9. \A e : Pending(e)' <=> (Pending(e) \/ e = f)
  <2>1. \A e : Pending(e)' <=> \E p \in Queues : e \in Range(buffers'[p])
    BY DEF Pending, Range
  <2>2. \A p \in Queues \ {q} : Range(buffers'[p]) = Range(buffers[p])
    BY <1>4
  <2>3. QED
    BY <1>2, <1>6, <2>1, <2>2, PendingIs
<1>10. Unfinished'
  <2>1. UNCHANGED <<encoder, live>>
    BY <1>1, <1>5
  <2>2. \A e \in Encoders : Recording(e) => e \notin live /\ ~Pending(e)
    BY DEF FrameInv, Unfinished
  <2>3. \A e \in Encoders : Recording(e)' => Recording(e) /\ e \notin live'
    BY <2>1, <2>2 DEF Recording
  <2>4. QED
    BY <1>3, <1>9, <2>1, <2>2, <2>3 DEF Unfinished
<1>11. Underway'
  BY <1>6, <1>7 DEF Underway
<1>12. DrawsCounted'
  BY <1>1, <1>7 DEF FrameInv, DrawsCounted
<1>13. NoLateFailure' /\ FrameOwnsImage'
  BY <1>1, <1>5, <1>7 DEF FrameInv, NoLateFailure, FrameOwnsImage, Presentable
<1>14. Alone'
  <2>1. SUFFICES ASSUME drained'
                 PROVE  /\ PendingAlive' /\ buffers'[q] = <<f>> /\ f \in live'
                        /\ \A p \in Queues \ {q} : f \notin Range(buffers'[p])
    BY <1>7 DEF Alone
  <2>2. PendingAlive /\ queue[q] = <<>>
    BY <1>1, <2>1 DEF FrameInv, Alone
  <2>3. buffers[q] = <<>>
    BY <1>2, <1>3, <2>2, EmptySeq, LenProperties DEF InStep
  <2>4. buffers'[q] = <<f>>
    BY <1>2, <1>6, <2>3
  <2>5. \A p \in Queues : Range(buffers'[p]) \subseteq live'
    <3>1. \A p \in Queues : Range(buffers[p]) \subseteq live
      BY <2>2, PendingIs
    <3>2. QED
      BY <1>3, <1>4, <1>5, <1>6, <3>1
  <2>6. PendingAlive'
    BY <2>5 DEF PendingAlive, Range
  <2>7. \A p \in Queues \ {q} : f \notin Range(buffers'[p])
    BY <1>3, <1>4, PendingIs
  <2>8. QED
    BY <1>3, <1>5, <2>4, <2>6, <2>7
<1>15. QED
  BY <1>4, <1>8, <1>10, <1>11, <1>12, <1>13, <1>14 DEF FrameInv

(* The frame's submission is processed.                                    *)
LEMMA ProcessKeeps ==
  ASSUME FrameInv, FrameProcesses
  PROVE  FrameInv'
<1> DEFINE f == frame.encoder
           q == frame.queue
<1>1. /\ frame.at = "process" /\ ProcessBuffer(q)
      /\ answer' = "Ok" =>
           /\ frame' = [frame EXCEPT !.at = "present"] /\ UNCHANGED <<outcome, live>>
      /\ UNCHANGED <<swapchain, encoder, foreign, drained, taken>>
  BY DEF FrameProcesses, Running, begun
<1>2. /\ frame \in FrameCall /\ frame.plan # <<>> /\ frame.pass \in 1 .. Len(frame.plan) + 1
      /\ q \in Queues /\ f \in Encoders
  BY <1>1, FrameIs DEF FrameInv, FrameTypes
<1>3. /\ TypeOK /\ StableOrder /\ EncodersOK /\ InStep /\ executed \in Encoders \cup {Null}
      /\ queue[q] # <<>>
  BY <1>1 DEF FrameInv, FrameTypes, Underway, ResultOK
<1>4. /\ TypeOK' /\ StableOrder' /\ InStep'
      /\ buffers' \in [Queues -> Seq(Encoders)]
      /\ executed' \in Encoders \cup {Null}
      /\ \A p \in Queues \ {q} : buffers'[p] = buffers[p]
      /\ Range(buffers'[q]) \subseteq Range(buffers[q])
      /\ answer' = "Ok" /\ executed' = Head(buffers[q])
      /\ buffers'[q] = Tail(buffers[q])
  BY <1>1, <1>2, <1>3, ProcessBufferDoes
<1>5. frame' = [frame EXCEPT !.at = "present"] /\ UNCHANGED <<outcome, live>>
  BY <1>1, <1>4
<1>6. /\ frame' \in FrameCall /\ frame'.at = "present" /\ frame'.plan = frame.plan
      /\ frame'.pass = frame.pass /\ frame'.draws = frame.draws /\ frame'.encoder = f
      /\ frame'.queue = q /\ frame'.image = frame.image
  BY <1>2, <1>5 DEF FrameCall, Places
<1>7. FrameTypes'
  <2>1. FrameOK'
    BY <1>2, <1>6 DEF FrameOK
  <2>2. ResultOK' /\ EncodersOK' /\ SwapchainOK'
    BY <1>1, <1>4, <1>5 DEF FrameInv, FrameTypes, ResultOK, EncodersOK, SwapchainOK
  <2>3. QED
    BY <1>4, <2>1, <2>2 DEF FrameTypes
<1>8. \A p \in Queues : Range(buffers'[p]) \subseteq Range(buffers[p])
  BY <1>4
<1>9. Unfinished'
  BY <1>1, <1>5, <1>8, FewerPending DEF FrameInv
<1>10. Underway'
  BY <1>6 DEF Underway
<1>11. DrawsCounted'
  BY <1>1, <1>6 DEF FrameInv, DrawsCounted
<1>12. NoLateFailure' /\ FrameOwnsImage'
  BY <1>1, <1>5, <1>6 DEF FrameInv, NoLateFailure, FrameOwnsImage, Presentable
<1>13. Alone'
  <2>1. SUFFICES ASSUME drained'
                 PROVE  PendingAlive' /\ executed' = f /\ ~Pending(f)'
    BY <1>6 DEF Alone
  <2>2. /\ PendingAlive /\ buffers[q] = <<f>>
        /\ \A p \in Queues \ {q} : f \notin Range(buffers[p])
    BY <1>1, <2>1 DEF FrameInv, Alone
  <2>3. executed' = f /\ buffers'[q] = <<>>
    BY <1>4, <2>2
  <2>4. \A p \in Queues : Range(buffers'[p]) \subseteq live'
    BY <1>5, <1>8, <2>2, PendingIs
  <2>5. \A p \in Queues : f \notin Range(buffers'[p])
    <3>1. Range(buffers'[q]) = {}
      BY <2>3 DEF Range
    <3>2. QED
      BY <1>4, <2>2, <3>1
  <2>6. PendingAlive' /\ ~Pending(f)'
    <3>1. PendingAlive'
      BY <2>4 DEF PendingAlive, Range
    <3>2. ~Pending(f)'
      BY <1>6, <2>5 DEF Pending, Range
    <3>3. QED
      BY <3>1, <3>2
  <2>7. QED
    BY <2>3, <2>6
<1>14. QED
  BY <1>4, <1>7, <1>9, <1>10, <1>11, <1>12, <1>13 DEF FrameInv

(* The frame presents its image and its command buffer goes.               *)
LEMMA PresentKeeps ==
  ASSUME FrameInv, FramePresents
  PROVE  FrameInv'
<1> DEFINE f == frame.encoder
<1>1. /\ frame.at = "present" /\ Presentable(frame.image)
  BY DEF FramePresents, Running, FrameInv, FrameOwnsImage
<1>2. /\ swapchain' = [swapchain EXCEPT !.acquired = FALSE] /\ taken' = "nobody"
      /\ outcome' = "ok" /\ frame' = NoFrame /\ live' = live \ {f}
      /\ UNCHANGED <<encoder, queue, completed, value, answer, accepted, buffers, executed,
                     foreign, drained>>
  BY <1>1 DEF FramePresents, PresentImage, ReturnWith, gfx, begun
<1>3. FrameTypes' /\ ~swapchain'.acquired
  <2>1. TypeOK' /\ StableOrder'
    BY <1>2, QueueStays DEF FrameInv, FrameTypes, gfx
  <2>2. SwapchainOK' /\ ~swapchain'.acquired
    BY <1>2 DEF FrameInv, FrameTypes, SwapchainOK, Swapchain
  <2>3. EncodersOK' /\ ResultOK' /\ FrameOK'
    BY <1>2 DEF FrameInv, FrameTypes, EncodersOK, ResultOK, FrameOK, Messages
  <2>4. QED
    BY <2>1, <2>2, <2>3 DEF FrameTypes
<1>4. InStep' /\ NoLateFailure'
  BY <1>2 DEF FrameInv, InStep, NoLateFailure
<1>5. Unfinished'
  BY <1>2, FewerPending DEF FrameInv
<1>6. drained' => PendingAlive'
  <2>1. SUFFICES ASSUME drained'
                 PROVE  PendingAlive'
    OBVIOUS
  <2>2. PendingAlive /\ ~Pending(f)
    BY <1>1, <1>2, <2>1 DEF FrameInv, Alone
  <2>3. QED
    BY <1>2, <2>2 DEF PendingAlive, Pending
<1>7. QED
  BY <1>2, <1>3, <1>4, <1>5, <1>6, Returns

(* Every step of a frame keeps the invariant.                              *)
LEMMA FrameStepKeeps ==
  ASSUME FrameInv, FrameStep
  PROVE  FrameInv'
BY AcquireKeeps, EncodeKeeps, FinishKeeps, SubmitKeeps, ProcessKeeps, PresentKeeps DEF FrameStep

-----------------------------------------------------------------------------
(* THE APPLICATION, WHILE NO FRAME RUNS.                                   *)

(* What the application does keeps the invariant if it keeps the types,    *)
(* the lists in step, and what is pending there.                           *)
LEMMA ClientKeeps ==
  ASSUME FrameInv, frame = NoFrame, UNCHANGED <<frame, outcome, foreign, drained>>,
         TypeOK', StableOrder', SwapchainOK', EncodersOK', InStep', Unfinished',
         executed' \in Encoders \cup {Null},
         taken' \in {"nobody", "client"} \/ UNCHANGED <<swapchain, taken>>,
         swapchain'.acquired => taken' = "client" \/ UNCHANGED <<swapchain, taken>>,
         PendingAlive => PendingAlive'
  PROVE  FrameInv'
<1>1. FrameOK' /\ ResultOK'
  BY DEF FrameInv, FrameTypes, FrameOK, ResultOK
<1>2. FrameTypes'
  BY <1>1 DEF FrameTypes
<1>3. frame.at = "idle"
  BY DEF NoFrame
<1>4. NoLateFailure' /\ (outcome' = "ok" /\ swapchain'.acquired => taken' = "client")
  BY <1>3 DEF FrameInv, NoLateFailure, FrameOwnsImage
<1>5. drained' => PendingAlive'
  BY DEF FrameInv, Alone
<1>6. QED
  BY <1>2, <1>4, <1>5, Returns

(* It records one command, or finishes an encoder.                         *)
LEMMA ClientEncodes ==
  ASSUME FrameInv, NEW e \in Encoders, ClientRecords(e) \/ ClientFinishes(e)
  PROVE  FrameInv'
<1>1. /\ frame = NoFrame /\ Recording(e)
      /\ UNCHANGED <<swapchain, queue, completed, value, answer, accepted, buffers, executed,
                     frame, outcome, foreign, drained, taken>>
      /\ \/ /\ encoder' = [encoder EXCEPT ![e].recorded_commands = @ + 1]
            /\ live' = live
         \/ /\ encoder' = [encoder EXCEPT ![e].is_recording = FALSE]
            /\ live' = live \cup {e}
  BY FrameIs DEF ClientRecords, ClientFinishes, Record, Finish, Running, device, gfx, begun,
     FrameInv, FrameTypes
<1>2. /\ encoder \in [Encoders -> [is_recording : BOOLEAN, recorded_commands : Nat]]
      /\ live \subseteq Encoders
  BY DEF FrameInv, FrameTypes, EncodersOK
<1>3. /\ encoder' \in [Encoders -> [is_recording : BOOLEAN, recorded_commands : Nat]]
      /\ live' \subseteq Encoders /\ live \subseteq live'
      /\ \A d \in Encoders : encoder'[d].is_recording =>
           encoder[d].is_recording /\ (d \in live' => d \in live)
  <2>1. CASE encoder' = [encoder EXCEPT ![e].recorded_commands = @ + 1] /\ live' = live
    BY <1>2, <2>1
  <2>2. CASE encoder' = [encoder EXCEPT ![e].is_recording = FALSE] /\ live' = live \cup {e}
    BY <1>2, <2>2
  <2>3. QED
    BY <1>1, <2>1, <2>2
<1>4. TypeOK' /\ StableOrder' /\ SwapchainOK'
  BY <1>1, QueueStays DEF FrameInv, FrameTypes, gfx, SwapchainOK
<1>5. UNCHANGED <<buffers, queue, executed>>
  BY <1>1
<1>6. EncodersOK' /\ InStep' /\ executed' \in Encoders \cup {Null}
  BY <1>3, <1>5 DEF FrameInv, FrameTypes, EncodersOK, InStep, ResultOK
<1>7. Unfinished'
  <2>1. \A d : Pending(d)' <=> Pending(d)
    BY <1>5 DEF Pending
  <2>2. \A d \in Encoders : encoder[d].is_recording => d \notin live /\ ~Pending(d)
    BY DEF FrameInv, Unfinished, Recording
  <2>3. QED
    BY <1>3, <2>1, <2>2 DEF Unfinished, Recording
<1>8. PendingAlive => PendingAlive'
  BY <1>3, <1>5 DEF PendingAlive
<1>9. UNCHANGED <<swapchain, taken>> /\ frame = NoFrame
      /\ UNCHANGED <<frame, outcome, foreign, drained>>
  BY <1>1
<1>10. QED
  BY <1>4, <1>6, <1>7, <1>8, <1>9, ClientKeeps

(* It submits a command buffer of its own, which is there.                 *)
LEMMA ClientSubmitsKeeps ==
  ASSUME FrameInv, NEW q \in Queues, NEW s \in Submissions, NEW e \in Encoders,
         ClientSubmits(q, s, e)
  PROVE  FrameInv'
<1>1. /\ frame = NoFrame /\ e \in live /\ SubmitBuffer(q, s, e)
      /\ UNCHANGED <<swapchain, encoder, live, executed, frame, outcome, foreign, drained, taken>>
  BY FrameIs DEF ClientSubmits, Running, begun, FrameInv, FrameTypes
<1>2. /\ TypeOK /\ StableOrder /\ EncodersOK /\ InStep
      /\ buffers \in [Queues -> Seq(Encoders)] /\ ~Recording(e)
  BY <1>1 DEF FrameInv, FrameTypes, EncodersOK, Unfinished
<1>3. /\ TypeOK' /\ StableOrder' /\ InStep'
      /\ buffers' \in [Queues -> Seq(Encoders)]
      /\ \A p \in Queues \ {q} : buffers'[p] = buffers[p]
      /\ answer' = "Ok" => Range(buffers'[q]) = Range(buffers[q]) \cup {e}
      /\ answer' # "Ok" => UNCHANGED buffers
  BY <1>1, <1>2, SubmitBufferDoes
<1>4. \A p \in Queues : Range(buffers'[p]) \subseteq Range(buffers[p]) \cup {e}
  BY <1>3
<1>5. UNCHANGED <<swapchain, encoder, live, executed, taken>>
  BY <1>1
<1>6. SwapchainOK' /\ EncodersOK' /\ executed' \in Encoders \cup {Null}
  BY <1>3, <1>5 DEF FrameInv, FrameTypes, SwapchainOK, EncodersOK, ResultOK
<1>7. Unfinished'
  <2>1. \A d : Pending(d)' <=> \E p \in Queues : d \in Range(buffers'[p])
    BY DEF Pending, Range
  <2>2. \A d : Pending(d)' => Pending(d) \/ d = e
    BY <1>4, <2>1, PendingIs
  <2>3. \A d \in Encoders : Recording(d)' <=> Recording(d)
    BY <1>5 DEF Recording
  <2>4. QED
    BY <1>2, <1>5, <2>2, <2>3 DEF FrameInv, Unfinished
<1>8. PendingAlive => PendingAlive'
  <2>1. SUFFICES ASSUME PendingAlive
                 PROVE  \A p \in Queues : Range(buffers'[p]) \subseteq live'
    BY DEF PendingAlive, Range
  <2>2. QED
    BY <1>1, <1>4, <1>5, <2>1, PendingIs
<1>9. frame = NoFrame /\ UNCHANGED <<frame, outcome, foreign, drained>>
  BY <1>1
<1>10. QED
  BY <1>3, <1>5, <1>6, <1>7, <1>8, <1>9, ClientKeeps

(* It processes a queue, or destroys a command buffer that is not pending. *)
LEMMA ClientEnds ==
  ASSUME FrameInv,
         \/ \E q \in Queues : ClientProcesses(q)
         \/ \E e \in Encoders : ClientDestroys(e)
  PROVE  FrameInv'
<1>1. /\ frame = NoFrame
      /\ UNCHANGED <<swapchain, encoder, frame, outcome, foreign, drained, taken>>
  BY FrameIs DEF ClientProcesses, ClientDestroys, Running, begun, FrameInv, FrameTypes
<1>2. /\ TypeOK /\ StableOrder /\ EncodersOK /\ InStep /\ executed \in Encoders \cup {Null}
      /\ Unfinished
  BY DEF FrameInv, FrameTypes, ResultOK
<1>3. /\ TypeOK' /\ StableOrder' /\ InStep' /\ executed' \in Encoders \cup {Null}
      /\ buffers' \in [Queues -> Seq(Encoders)] /\ live' \subseteq live
      /\ \A p \in Queues : Range(buffers'[p]) \subseteq Range(buffers[p])
      /\ PendingAlive => PendingAlive'
  <2>1. CASE \E q \in Queues : ClientProcesses(q)
    <3>1. PICK q \in Queues : ProcessBuffer(q) /\ UNCHANGED live
      BY <2>1 DEF ClientProcesses
    <3>2. /\ TypeOK' /\ StableOrder' /\ InStep' /\ executed' \in Encoders \cup {Null}
          /\ buffers' \in [Queues -> Seq(Encoders)]
          /\ \A p \in Queues \ {q} : buffers'[p] = buffers[p]
          /\ Range(buffers'[q]) \subseteq Range(buffers[q])
      BY <1>2, <3>1, ProcessBufferDoes
    <3>3. \A p \in Queues : Range(buffers'[p]) \subseteq Range(buffers[p])
      BY <3>2
    <3>4. PendingAlive => PendingAlive'
      <4>1. SUFFICES ASSUME PendingAlive
                     PROVE  \A p \in Queues : Range(buffers'[p]) \subseteq live'
        BY DEF PendingAlive, Range
      <4>2. QED
        BY <3>1, <3>3, <4>1, PendingIs
    <3>5. QED
      BY <3>1, <3>2, <3>3, <3>4
  <2>2. CASE \E e \in Encoders : ClientDestroys(e)
    <3>1. PICK e \in Encoders :
            /\ ~Pending(e) /\ live' = live \ {e}
            /\ UNCHANGED <<queue, completed, value, answer, accepted, buffers, executed>>
      BY <2>2 DEF ClientDestroys, gfx
    <3>2. TypeOK' /\ StableOrder'
      BY <1>2, <3>1, QueueStays DEF gfx
    <3>3. UNCHANGED <<buffers, queue, executed>>
      BY <3>1
    <3>4. /\ InStep' /\ executed' \in Encoders \cup {Null}
          /\ buffers' \in [Queues -> Seq(Encoders)]
      BY <1>2, <3>3 DEF InStep, EncodersOK
    <3>5. PendingAlive => PendingAlive'
      BY <3>1 DEF PendingAlive, Pending
    <3>6. QED
      BY <3>1, <3>2, <3>3, <3>4, <3>5
  <2>3. QED
    BY <2>1, <2>2
<1>4. UNCHANGED <<swapchain, encoder, taken>> /\ UNCHANGED <<frame, outcome, foreign, drained>>
  BY <1>1
<1>5. SwapchainOK' /\ EncodersOK'
  BY <1>2, <1>3, <1>4 DEF FrameInv, FrameTypes, SwapchainOK, EncodersOK
<1>6. Unfinished'
  BY <1>2, <1>3, <1>4, FewerPending
<1>7. QED
  BY <1>1, <1>3, <1>4, <1>5, <1>6, ClientKeeps

(* It acquires, presents or recreates the images.                          *)
LEMMA ClientImages ==
  ASSUME FrameInv,
         \/ ClientAcquires
         \/ \E image \in 0 .. swapchain.image_count - 1 : ClientPresents(image)
         \/ \E count \in ImageCounts : ClientRecreates(count)
  PROVE  FrameInv'
<1>1. /\ frame = NoFrame
      /\ UNCHANGED <<encoder, queue, completed, value, answer, accepted, buffers, live, executed,
                     frame, outcome, foreign, drained>>
  BY FrameIs DEF ClientAcquires, ClientPresents, ClientRecreates, Running, device, gfx, begun,
     FrameInv, FrameTypes
<1>2. /\ SwapchainOK'
      /\ taken' \in {"nobody", "client"} \/ UNCHANGED <<swapchain, taken>>
      /\ swapchain'.acquired => taken' = "client" \/ UNCHANGED <<swapchain, taken>>
  <2>1. SwapchainOK
    BY DEF FrameInv, FrameTypes
  <2>2. CASE ClientAcquires
    BY <2>1, <2>2, NextImage DEF ClientAcquires
  <2>3. CASE \E image \in 0 .. swapchain.image_count - 1 : ClientPresents(image)
    <3>1. swapchain' = [swapchain EXCEPT !.acquired = FALSE] /\ taken' = "nobody"
      BY <2>3 DEF ClientPresents, PresentImage
    <3>2. QED
      BY <2>1, <3>1 DEF SwapchainOK, Swapchain
  <2>4. CASE \E count \in ImageCounts : ClientRecreates(count)
    <3>1. PICK count \in ImageCounts : Recreate(count)
      BY <2>4 DEF ClientRecreates
    <3>2. count \in Nat
      BY FrameAssumption
    <3>3. CASE count < 2
      BY <2>1, <3>1, <3>3 DEF Recreate, SwapchainOK
    <3>4. CASE ~(count < 2)
      <4>1. /\ swapchain' = [image_count |-> count, next |-> 0, current |-> 0, acquired |-> FALSE]
            /\ taken' = "nobody"
        BY <3>1, <3>4 DEF Recreate, NewSwapchain
      <4>2. QED
        BY <3>2, <3>4, <4>1 DEF SwapchainOK, Swapchain
    <3>5. QED
      BY <3>3, <3>4
  <2>5. QED
    BY <2>2, <2>3, <2>4
<1>3. TypeOK' /\ StableOrder'
  BY <1>1, QueueStays DEF FrameInv, FrameTypes, gfx
<1>4. UNCHANGED <<encoder, queue, buffers, live, executed>>
  BY <1>1
<1>5. EncodersOK' /\ InStep' /\ executed' \in Encoders \cup {Null}
  BY <1>4 DEF FrameInv, FrameTypes, EncodersOK, InStep, ResultOK
<1>6. Unfinished' /\ (PendingAlive => PendingAlive')
  BY <1>4 DEF FrameInv, Unfinished, Recording, Pending, PendingAlive
<1>7. frame = NoFrame /\ UNCHANGED <<frame, outcome, foreign, drained>>
  BY <1>1
<1>8. QED
  BY <1>2, <1>3, <1>5, <1>6, <1>7, ClientKeeps

-----------------------------------------------------------------------------
(* In the beginning nothing is submitted, and nothing is finished.         *)
LEMMA FrameBegins == FrameInit => FrameInv
<1> SUFFICES ASSUME FrameInit
             PROVE  FrameInv
  OBVIOUS
<1>1. TypeOK /\ StableOrder
  BY TypesInit DEF FrameInit
<1>2. PICK count \in ImageCounts : count >= 2 /\ swapchain = NewSwapchain(count)
  BY DEF FrameInit
<1>3. SwapchainOK /\ ~swapchain.acquired
  <2>1. count \in Nat
    BY FrameAssumption
  <2>2. swapchain = [image_count |-> count, next |-> 0, current |-> 0, acquired |-> FALSE]
    BY <1>2 DEF NewSwapchain
  <2>3. QED
    BY <1>2, <2>1, <2>2 DEF SwapchainOK, Swapchain
<1>4. /\ encoder = [e \in Encoders |-> [is_recording |-> TRUE, recorded_commands |-> 0]]
      /\ buffers = [q \in Queues |-> <<>>] /\ live = {} /\ frame = NoFrame /\ outcome = "ok"
      /\ executed = Null /\ foreign = 0 /\ drained = TRUE /\ taken = "nobody"
      /\ queue = [q \in Queues |-> <<>>]
  BY DEF FrameInit, Init
<1>5. EncodersOK
  <2>1. <<>> \in Seq(Encoders)
    OBVIOUS
  <2>2. QED
    BY <1>4, <2>1 DEF EncodersOK
<1>6. FrameOK /\ ResultOK
  BY <1>4 DEF FrameOK, ResultOK, Messages
<1>7. InStep
  BY <1>4 DEF InStep
<1>8. /\ \A q \in Queues : DOMAIN buffers[q] = {}
      /\ PendingAlive /\ \A e : ~Pending(e)
  <2>1. \A q \in Queues : buffers[q] = <<>>
    BY <1>4
  <2>2. \A q \in Queues : DOMAIN buffers[q] = {}
    BY <2>1
  <2>3. QED
    BY <2>2 DEF PendingAlive, Pending
<1>9. Unfinished
  BY <1>4, <1>8 DEF Unfinished
<1>10. frame.at = "idle"
  BY <1>4 DEF NoFrame
<1>11. Underway /\ DrawsCounted /\ NoLateFailure /\ FrameOwnsImage /\ Alone
  BY <1>3, <1>4, <1>8, <1>10 DEF Underway, DrawsCounted, NoLateFailure, FrameOwnsImage, Alone
<1>12. QED
  BY <1>1, <1>3, <1>5, <1>6, <1>7, <1>9, <1>11 DEF FrameInv, FrameTypes

(* Whatever happens keeps the invariant.                                   *)
LEMMA FrameGoesOn == FrameInv /\ [FrameNext]_frameVars => FrameInv'
<1> SUFFICES ASSUME FrameInv, [FrameNext]_frameVars
             PROVE  FrameInv'
  OBVIOUS
<1>1. CASE \E q \in Queues, e \in Encoders, plan \in Plans : RunBasicFrame(q, e, plan)
  BY <1>1, BeginFrame
<1>2. CASE FrameStep
  BY <1>2, FrameStepKeeps
<1>3. CASE ClientStep
  BY <1>3, ClientEncodes, ClientSubmitsKeeps, ClientEnds, ClientImages DEF ClientStep
<1>4. CASE UNCHANGED frameVars
  <2>1. /\ UNCHANGED <<swapchain, encoder, queue, completed, value, answer, accepted>>
        /\ UNCHANGED <<buffers, live, executed, frame, outcome, foreign, drained, taken>>
    BY <1>4 DEF frameVars, device, gfx, begun
  <2>2. FrameTypes'
    BY <2>1 DEF FrameInv, FrameTypes, TypeOK, StableOrder, SwapchainOK, EncodersOK, FrameOK,
       ResultOK
  <2>3. InStep' /\ Unfinished' /\ Underway' /\ DrawsCounted'
    BY <2>1 DEF FrameInv, InStep, Unfinished, Underway, DrawsCounted, Recording, Pending
  <2>4. NoLateFailure' /\ FrameOwnsImage' /\ Alone'
    BY <2>1 DEF FrameInv, NoLateFailure, FrameOwnsImage, Presentable, Alone, PendingAlive, Pending
  <2>5. QED
    BY <2>2, <2>3, <2>4 DEF FrameInv
<1>5. QED
  BY <1>1, <1>2, <1>3, <1>4 DEF FrameNext

(* The inductive invariant of the renderer and its application.            *)
LEMMA FrameInvariant == FrameSpec => []FrameInv
BY FrameBegins, FrameGoesOn, PTL DEF FrameSpec

(* The type invariant.                                                     *)
THEOREM FrameTypesStand == FrameSpec => []FrameTypeOK
<1>1. FrameInv => FrameTypeOK
  BY FrameIs DEF FrameInv, FrameTypes, FrameTypeOK, SwapchainOK, Swapchain, EncodersOK, FrameOK,
     ResultOK, FrameCall
<1>2. QED
  BY <1>1, FrameInvariant, PTL

(* run_basic_frame fails, if it does, while nothing is submitted: its      *)
(* finish, its submit, its process and its present cannot.                 *)
THEOREM FramesFailEarly == FrameSpec => []NoLateFailure
<1>1. FrameInv => NoLateFailure
  BY DEF FrameInv
<1>2. QED
  BY <1>1, FrameInvariant, PTL

(* The image between a frame's acquire and its present is the frame's.     *)
THEOREM FramesOwnTheirImage == FrameSpec => []FrameOwnsImage
<1>1. FrameInv => FrameOwnsImage
  BY DEF FrameInv
<1>2. QED
  BY <1>1, FrameInvariant, PTL

(* The encoder has recorded what was in it and what the frame has counted: *)
(* the draws that encoded_draw_count returns, in 32 bits, are those of the *)
(* command buffer.                                                         *)
THEOREM FramesCountTheirDraws == FrameSpec => []DrawsCounted
<1>1. FrameInv => DrawsCounted
  BY DEF FrameInv
<1>2. QED
  BY <1>1, FrameInvariant, PTL

(* Frames on queues that the application has emptied leave no dangling     *)
(* command buffer, and each processes its own.                             *)
THEOREM FramesOnDrainedQueues == FrameSpec => []DrainedIsSafe
<1>1. FrameInv => DrainedIsSafe
  BY DEF FrameInv, Alone, DrainedIsSafe
<1>2. QED
  BY <1>1, FrameInvariant, PTL

(* A step of the renderer or of its application is a step of the queues,   *)
(* or none.                                                                *)
LEMMA FrameStepsAreQueueSteps == FrameInv /\ [FrameNext]_frameVars => [Next]_vars
<1> SUFFICES ASSUME FrameInv, [FrameNext]_frameVars
             PROVE  [Next]_vars
  OBVIOUS
<1>1. ASSUME NEW q \in Queues, NEW s \in Submissions, NEW e, SubmitBuffer(q, s, e)
      PROVE  [Next]_vars
  BY <1>1 DEF SubmitBuffer, Next
<1>2. ASSUME NEW q \in Queues, ProcessBuffer(q)
      PROVE  [Next]_vars
  BY <1>2 DEF ProcessBuffer, Next
<1>3. CASE UNCHANGED gfx
  BY <1>3 DEF gfx, vars
<1>4. CASE FrameSubmits
  <2>1. frame.queue \in Queues
    BY <1>4, FrameIs DEF FrameSubmits, Running, FrameInv, FrameTypes
  <2>2. QED
    BY <1>1, <1>4, <2>1, FrameSubmissionAssumption DEF FrameSubmits
<1>5. CASE FrameProcesses
  <2>1. frame.queue \in Queues
    BY <1>5, FrameIs DEF FrameProcesses, Running, FrameInv, FrameTypes
  <2>2. QED
    BY <1>2, <1>5, <2>1 DEF FrameProcesses
<1>6. CASE FrameAcquires \/ FrameEncodes \/ FrameFinishes \/ FramePresents
  BY <1>3, <1>6 DEF FrameAcquires, FrameEncodes, FrameFinishes, FramePresents, device
<1>7. CASE \E q \in Queues, e \in Encoders, plan \in Plans : RunBasicFrame(q, e, plan)
  BY <1>3, <1>7 DEF RunBasicFrame, device
<1>8. CASE ClientStep
  <2>1. CASE \E q \in Queues : ClientProcesses(q)
    BY <1>2, <2>1 DEF ClientProcesses
  <2>2. CASE \E q \in Queues, s \in Submissions, e \in Encoders : ClientSubmits(q, s, e)
    BY <1>1, <2>2 DEF ClientSubmits
  <2>3. CASE \/ \E e \in Encoders : ClientRecords(e) \/ ClientFinishes(e) \/ ClientDestroys(e)
             \/ ClientAcquires
             \/ \E image \in 0 .. swapchain.image_count - 1 : ClientPresents(image)
             \/ \E count \in ImageCounts : ClientRecreates(count)
    <3>1. UNCHANGED gfx
      BY <2>3 DEF ClientRecords, ClientFinishes, ClientDestroys, ClientAcquires, ClientPresents,
         ClientRecreates, device
    <3>2. QED
      BY <1>3, <3>1
  <2>4. QED
    BY <1>8, <2>1, <2>2, <2>3 DEF ClientStep
<1>9. CASE UNCHANGED frameVars
  BY <1>3, <1>9 DEF frameVars, device
<1>10. QED
  BY <1>4, <1>5, <1>6, <1>7, <1>8, <1>9 DEF FrameNext, FrameStep

(* The renderer and its application use the queues as any client of        *)
(* IGfxQueue does: what holds of the queues for every client holds here.   *)
THEOREM FramesUseTheQueues == FrameSpec => Spec
<1>1. FrameInit => Init
  BY DEF FrameInit
<1>2. QED
  BY <1>1, FrameInvariant, FrameStepsAreQueueSteps, PTL DEF FrameSpec, Spec

-----------------------------------------------------------------------------
(* THE DRAWS OF THE PLAN                                                   *)
PassesDrawn ==
  frame.at # "idle" =>
    /\ frame.draws = PlanDraws(SubSeq(frame.plan, 1, frame.pass - 1))
    /\ frame.at \in {"submit", "process", "present"} => frame.pass = Len(frame.plan) + 1

(* The draws of a plan as a walk from one pass to the next.                *)
LEMMA PlanDrawsWalk ==
  ASSUME NEW plan, NEW n \in Nat, DOMAIN plan = 1 .. n,
         \A i \in 1 .. n : plan[i].draw_calls \in Nat
  PROVE  \E g \in [0 .. n -> Nat] :
           /\ g[0] = 0 /\ g[n] = PlanDraws(plan)
           /\ \A k \in 1 .. n : g[k] = g[k - 1] + plan[k].draw_calls
<1> DEFINE H == [p \in Nat \X (1 .. n) |-> p[1] + plan[p[2]].draw_calls]
           Body(G) == [s \in SUBSET (1 .. n) |->
                         IF s = {} THEN 0
                         ELSE G[s \ {Max(s)}] + plan[Max(s)].draw_calls]
           F == CHOOSE G : G = Body(G)
<1>1. /\ H \in [Nat \X (1 .. n) -> Nat] /\ 0 \in Nat
      /\ \A a \in Nat, k \in 1 .. n : H[<<a, k>>] = a + plan[k].draw_calls
  OBVIOUS
<1>2. PlanDraws(plan) = F[1 .. n]
  BY DEF PlanDraws, FoldLeft, MapThenFoldSet
<1> HIDE DEF H
<1>3. PICK G \in [SUBSET (1 .. n) -> Nat] : Folding(G, Nat, 0, n, H)
  BY <1>1, FoldExists
<1>4. G = Body(G)
  <2>1. \A s \in SUBSET (1 .. n) : s # {} =>
          G[s] = G[s \ {Max(s)}] + plan[Max(s)].draw_calls
    BY <1>1, <1>3, LastOfSome DEF Folding
  <2>2. QED
    BY <1>3, <2>1 DEF Folding
<1>5. F = Body(F)
  <2> HIDE DEF Body
  <2>1. QED
    BY <1>4
<1> HIDE DEF F
<1>6. /\ F[{}] = 0
      /\ \A s \in SUBSET (1 .. n) :
           s # {} => F[s] = F[s \ {Max(s)}] + plan[Max(s)].draw_calls
  BY <1>5
<1>7. Folding(F, Nat, 0, n, H)
  BY <1>1, <1>6, LastOfSome DEF Folding
<1>8. PICK g \in [0 .. n -> Nat] : Walk(g, F[1 .. n], 0, n, H)
  BY <1>1, <1>7, FoldSteps
<1>9. ASSUME NEW k \in 1 .. n
      PROVE  g[k] = g[k - 1] + plan[k].draw_calls
  <2>1. g[k - 1] \in Nat
    OBVIOUS
  <2>2. QED
    BY <1>1, <1>8, <2>1 DEF Walk
<1>10. QED
  BY <1>2, <1>8, <1>9 DEF Walk

(* A prefix of a plan as a sequence.                                       *)
LEMMA PlanPrefix ==
  ASSUME NEW plan \in Seq(Passes), NEW k \in 0 .. Len(plan)
  PROVE  /\ DOMAIN SubSeq(plan, 1, k) = 1 .. k
         /\ \A i \in 1 .. k :
              /\ i \in DOMAIN plan
              /\ SubSeq(plan, 1, k)[i] = plan[i]
              /\ plan[i].draw_calls \in Nat
<1>1. Len(plan) \in Nat /\ DOMAIN plan = 1 .. Len(plan) /\ k \in Nat
  OBVIOUS
<1>2. \A i \in DOMAIN plan : plan[i].draw_calls \in Nat
  <2>1. \A i \in DOMAIN plan : plan[i] \in Passes
    BY <1>1, ElementOfSeq
  <2>2. DrawCounts \in Nat
    BY FramePlanAssumption
  <2>3. QED
    BY <2>1, <2>2 DEF Passes
<1>3. SubSeq(plan, 1, k) = [i \in 1 .. k |-> plan[i]]
  BY <1>1
<1>4. QED
  BY <1>1, <1>2, <1>3

(* One pass more, and its draws more.                                      *)
LEMMA NextPassDraws ==
  ASSUME NEW plan \in Seq(Passes), NEW k \in 1 .. Len(plan)
  PROVE  PlanDraws(SubSeq(plan, 1, k)) = PlanDraws(SubSeq(plan, 1, k - 1)) + plan[k].draw_calls
<1> DEFINE p == SubSeq(plan, 1, k)
           r == SubSeq(plan, 1, k - 1)
<1>1. /\ Len(plan) \in Nat /\ k \in Nat \ {0} /\ k - 1 \in Nat
      /\ k \in 0 .. Len(plan) /\ k - 1 \in 0 .. Len(plan) /\ k \in 1 .. k
  OBVIOUS
<1>2. DOMAIN p = 1 .. k /\ \A i \in 1 .. k : p[i] = plan[i] /\ plan[i].draw_calls \in Nat
  BY <1>1, PlanPrefix
<1>3. DOMAIN r = 1 .. k - 1 /\ \A i \in 1 .. k - 1 : r[i] = plan[i] /\ plan[i].draw_calls \in Nat
  BY <1>1, PlanPrefix
<1> HIDE DEF p, r
<1>4. PICK g \in [0 .. k -> Nat] :
        /\ g[0] = 0 /\ g[k] = PlanDraws(p)
        /\ \A i \in 1 .. k : g[i] = g[i - 1] + p[i].draw_calls
  <2>1. \A i \in 1 .. k : p[i].draw_calls \in Nat
    BY <1>2
  <2>2. k \in Nat
    BY <1>1
  <2>3. QED
    BY <1>2, <2>1, <2>2, PlanDrawsWalk
<1>5. PICK h \in [0 .. k - 1 -> Nat] :
        /\ h[0] = 0 /\ h[k - 1] = PlanDraws(r)
        /\ \A i \in 1 .. k - 1 : h[i] = h[i - 1] + r[i].draw_calls
  <2>1. \A i \in 1 .. k - 1 : r[i].draw_calls \in Nat
    BY <1>3
  <2>2. QED
    BY <1>1, <1>3, <2>1, PlanDrawsWalk
<1> DEFINE T == {i \in 0 .. k - 1 : g[i] = h[i]}
<1>6. 0 \in T
  BY <1>1, <1>4, <1>5
<1>7. ASSUME NEW i \in 1 .. k - 1, i - 1 \in T
      PROVE  i \in T
  <2>1. i \in 1 .. k /\ i \in 0 .. k - 1
    BY <1>1
  <2>2. g[i] = g[i - 1] + plan[i].draw_calls /\ h[i] = h[i - 1] + plan[i].draw_calls
    BY <1>2, <1>3, <1>4, <1>5, <2>1
  <2>3. QED
    BY <1>7, <2>1, <2>2
<1>8. \A i \in 0 .. k - 1 : i \in T
  <2> HIDE DEF T
  <2>1. QED
    BY <1>1, <1>6, <1>7, Induct
<1>9. g[k - 1] = h[k - 1]
  <2>1. k - 1 \in 0 .. k - 1
    BY <1>1
  <2>2. QED
    BY <1>8, <2>1
<1>10. g[k] = g[k - 1] + plan[k].draw_calls
  BY <1>1, <1>2, <1>4
<1>11. PlanDraws(p) = PlanDraws(r) + plan[k].draw_calls
  BY <1>4, <1>5, <1>9, <1>10
<1>12. QED
  BY <1>11 DEF p, r

(* No pass, no draw; all of them, all its draws.                           *)
LEMMA PlanEnds ==
  ASSUME NEW plan \in Seq(Passes)
  PROVE  PlanDraws(SubSeq(plan, 1, 0)) = 0 /\ SubSeq(plan, 1, Len(plan)) = plan
<1>1. DOMAIN SubSeq(plan, 1, 0) = 1 .. 0
  <2>1. 0 \in 0 .. Len(plan)
    OBVIOUS
  <2>2. QED
    BY <2>1, PlanPrefix
<1>2. \E g \in [0 .. 0 -> Nat] : g[0] = 0 /\ g[0] = PlanDraws(SubSeq(plan, 1, 0))
  <2>1. \A i \in 1 .. 0 : SubSeq(plan, 1, 0)[i].draw_calls \in Nat
    OBVIOUS
  <2>2. 0 \in Nat
    OBVIOUS
  <2>3. QED
    BY <1>1, <2>1, <2>2, PlanDrawsWalk
<1>3. SubSeq(plan, 1, Len(plan)) = plan
  OBVIOUS
<1>4. QED
  BY <1>2, <1>3

(* What leaves the frame's plan, pass and draws as they are.               *)
LEMMA DrawnKeeps ==
  ASSUME PassesDrawn, frame.at # "idle", frame'.plan = frame.plan, frame'.pass = frame.pass,
         frame'.draws = frame.draws,
         frame'.at \in {"submit", "process", "present"} => frame.pass = Len(frame.plan) + 1
  PROVE  PassesDrawn'
BY DEF PassesDrawn

(* A frame that has returned has nothing to count.                         *)
LEMMA DrawnReturns ==
  ASSUME frame' = NoFrame
  PROVE  PassesDrawn'
BY DEF PassesDrawn, NoFrame

(* One pass of the loop adds the draws of the pass.                        *)
LEMMA DrawnEncodes ==
  ASSUME FrameInv, PassesDrawn, FrameEncodes
  PROVE  PassesDrawn'
<1>1. frame.at = "encode" /\ frame.pass <= Len(frame.plan)
  BY DEF FrameEncodes, Running
<1>2. /\ frame \in FrameCall /\ frame.plan \in Seq(Passes)
      /\ frame.pass \in 1 .. Len(frame.plan) + 1 /\ Len(frame.plan) \in Nat
  BY <1>1, FrameIs DEF FrameInv, FrameTypes
<1>3. frame.pass \in 1 .. Len(frame.plan)
  BY <1>1, <1>2
<1> DEFINE draws == frame.plan[frame.pass].draw_calls
<1>4. \/ frame' = NoFrame
      \/ frame' = [frame EXCEPT !.pass = @ + 1, !.draws = @ + draws]
  BY DEF FrameEncodes, ReturnWith
<1>5. CASE frame' = NoFrame
  BY <1>5, DrawnReturns
<1>6. CASE frame' = [frame EXCEPT !.pass = @ + 1, !.draws = @ + draws]
  <2>1. /\ frame'.at = "encode" /\ frame'.plan = frame.plan
        /\ frame'.pass = frame.pass + 1 /\ frame'.draws = frame.draws + draws
    BY <1>1, <1>2, <1>6 DEF FrameCall
  <2>2. frame.draws = PlanDraws(SubSeq(frame.plan, 1, frame.pass - 1))
    BY <1>1 DEF PassesDrawn
  <2>3. PlanDraws(SubSeq(frame.plan, 1, frame.pass))
          = PlanDraws(SubSeq(frame.plan, 1, frame.pass - 1)) + draws
    BY <1>2, <1>3, NextPassDraws
  <2>4. frame'.pass - 1 = frame.pass
    BY <1>3, <2>1
  <2>5. frame'.draws = PlanDraws(SubSeq(frame'.plan, 1, frame'.pass - 1))
    BY <2>1, <2>2, <2>3, <2>4
  <2>6. QED
    BY <2>1, <2>5 DEF PassesDrawn
<1>7. QED
  BY <1>4, <1>5, <1>6

(* The other steps of the frame leave its count alone.                     *)
LEMMA DrawnStep ==
  ASSUME FrameInv, PassesDrawn, FrameStep
  PROVE  PassesDrawn'
<1>1. CASE FrameEncodes
  BY <1>1, DrawnEncodes
<1>2. CASE frame' = NoFrame
  BY <1>2, DrawnReturns
<1>3. frame.at # "idle" => frame \in FrameCall /\ frame.pass \in 1 .. Len(frame.plan) + 1
                           /\ Len(frame.plan) \in Nat
  BY FrameIs DEF FrameInv, FrameTypes
<1>4. CASE FrameAcquires /\ frame' # NoFrame
  <2>1. frame' = [frame EXCEPT !.at = "encode", !.image = swapchain'.current] /\ frame.at # "idle"
    BY <1>4 DEF FrameAcquires, ReturnWith, Running
  <2>2. /\ frame'.at = "encode" /\ frame'.plan = frame.plan
        /\ frame'.pass = frame.pass /\ frame'.draws = frame.draws
    BY <1>3, <2>1 DEF FrameCall
  <2>3. QED
    BY <2>1, <2>2, DrawnKeeps
<1>5. CASE FrameFinishes /\ frame' # NoFrame
  <2>1. /\ frame' = [frame EXCEPT !.at = "submit"] /\ frame.at # "idle"
        /\ frame.pass > Len(frame.plan)
    BY <1>5 DEF FrameFinishes, ReturnWith, Running
  <2>2. /\ frame'.plan = frame.plan
        /\ frame'.pass = frame.pass /\ frame'.draws = frame.draws
    BY <1>3, <2>1 DEF FrameCall
  <2>3. frame.pass = Len(frame.plan) + 1
    BY <1>3, <2>1
  <2>4. QED
    BY <2>1, <2>2, <2>3, DrawnKeeps
<1>6. CASE (FrameSubmits \/ FrameProcesses) /\ frame' # NoFrame
  <2>1. /\ frame' = [frame EXCEPT !.at = "process"] \/ frame' = [frame EXCEPT !.at = "present"]
        /\ frame.at \in {"submit", "process"}
    BY <1>6 DEF FrameSubmits, FrameProcesses, ReturnWith, Running
  <2>2. /\ frame'.plan = frame.plan
        /\ frame'.pass = frame.pass /\ frame'.draws = frame.draws
    BY <1>3, <2>1 DEF FrameCall
  <2>3. frame.pass = Len(frame.plan) + 1
    BY <2>1 DEF PassesDrawn
  <2>4. QED
    BY <2>1, <2>2, <2>3, DrawnKeeps
<1>7. FramePresents => frame' = NoFrame
  BY DEF FramePresents, ReturnWith
<1>8. QED
  BY <1>1, <1>2, <1>4, <1>5, <1>6, <1>7 DEF FrameStep

(* A frame begins with no pass encoded.                                    *)
LEMMA DrawnBegins ==
  ASSUME NEW q \in Queues, NEW e \in Encoders, NEW plan \in Plans, FrameInv, PassesDrawn,
         RunBasicFrame(q, e, plan)
  PROVE  PassesDrawn'
<1>1. plan \in Seq(Passes)
  BY FrameAssumption
<1>2. CASE frame' = NoFrame
  BY <1>2, DrawnReturns
<1>3. CASE frame' = [at |-> "acquire", queue |-> q, encoder |-> e, plan |-> plan,
                     pass |-> 1, draws |-> 0, image |-> 0]
  <2>1. PlanDraws(SubSeq(plan, 1, 0)) = 0
    BY <1>1, PlanEnds
  <2>2. frame'.pass - 1 = 0 /\ frame'.plan = plan /\ frame'.draws = 0 /\ frame'.at = "acquire"
    BY <1>3
  <2>3. QED
    BY <2>1, <2>2 DEF PassesDrawn
<1>4. QED
  BY <1>2, <1>3 DEF RunBasicFrame, ReturnWith

(* Whatever happens keeps the count of the passes.                         *)
LEMMA DrawnGoesOn == FrameInv /\ PassesDrawn /\ [FrameNext]_frameVars => PassesDrawn'
<1> SUFFICES ASSUME FrameInv, PassesDrawn, [FrameNext]_frameVars
             PROVE  PassesDrawn'
  OBVIOUS
<1>1. CASE \E q \in Queues, e \in Encoders, plan \in Plans : RunBasicFrame(q, e, plan)
  BY <1>1, DrawnBegins
<1>2. CASE FrameStep
  BY <1>2, DrawnStep
<1>3. CASE frame' = frame
  BY <1>3 DEF PassesDrawn
<1>4. ClientStep => frame' = frame
  BY DEF ClientStep, ClientRecords, ClientFinishes, ClientDestroys, ClientProcesses, ClientSubmits,
     ClientAcquires, ClientPresents, ClientRecreates
<1>5. QED
  BY <1>1, <1>2, <1>3, <1>4 DEF FrameNext, frameVars

(* A command buffer that a frame submits has the draws of every pass of    *)
(* the plan, and what the encoder had recorded before the frame.           *)
THEOREM FramesEncodeTheirPlan == FrameSpec => []FrameEncodesPlan
<1>1. FrameInit => PassesDrawn
  BY DEF FrameInit, NoFrame, PassesDrawn
<1>2. FrameInv /\ PassesDrawn => FrameEncodesPlan
  <2> SUFFICES ASSUME FrameInv, PassesDrawn, frame.at \in {"submit", "process", "present"}
               PROVE  encoder[frame.encoder].recorded_commands = foreign + PlanDraws(frame.plan)
    BY DEF FrameEncodesPlan
  <2>1. encoder[frame.encoder].recorded_commands = foreign + frame.draws
    BY DEF FrameInv, DrawsCounted
  <2>2. frame.plan \in Seq(Passes) /\ Len(frame.plan) \in Nat
    BY FrameIs DEF FrameInv, FrameTypes
  <2>3. frame.draws = PlanDraws(SubSeq(frame.plan, 1, frame.pass - 1))
        /\ frame.pass - 1 = Len(frame.plan)
    BY <2>2 DEF PassesDrawn
  <2>4. SubSeq(frame.plan, 1, Len(frame.plan)) = frame.plan
    BY <2>2, PlanEnds
  <2>5. QED
    BY <2>1, <2>3, <2>4
<1>3. QED
  BY <1>1, <1>2, DrawnGoesOn, FrameInvariant, PTL DEF FrameSpec
=============================================================================
