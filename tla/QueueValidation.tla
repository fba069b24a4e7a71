--------------------------- MODULE QueueValidation ---------------------------
(***************************************************************************)
(* The validation of a batch as the loops of StubGfxQueue run it, with the *)
(* two projection maps as one function: the reference that the definitions *)
(* of GfxQueue are compared with.                                          *)
(***************************************************************************)
EXTENDS GfxQueue, SequencesExt

(* The state of the loops: the code so far and the projected values; once  *)
(* the code is not Ok they have returned.                                  *)
Reject(st, code) == [st EXCEPT !.code = code]

CheckWait(st, wait) ==
  IF st.code # "Ok" THEN st
  ELSE IF wait.on = Null THEN Reject(st, "InvalidArgument")
  ELSE IF st.projection[wait.on] < wait.min THEN Reject(st, "SyncUnresolved")
  ELSE st

CheckSignal(st, signal) ==
  IF st.code # "Ok" THEN st
  ELSE IF signal.on = Null THEN Reject(st, "InvalidArgument")
  ELSE IF signal.value < st.projection[signal.on] THEN Reject(st, "InvalidArgument")
  ELSE [st EXCEPT !.projection[signal.on] = signal.value]

CheckSubmission(st, s) ==
  IF st.code # "Ok" THEN st
  ELSE IF ~s.commands THEN Reject(st, "InvalidArgument")
  ELSE FoldLeft(CheckSignal, FoldLeft(CheckWait, st, s.waits), s.signals)

LoopVerdict(batch) ==
  FoldLeft(CheckSubmission, [code |-> "Ok", projection |-> value], batch).code

(* Whatever values the timelines and fences have, a submission and a batch *)
(* get the code that the loops compute: the quantified validation is the   *)
(* validation of the code, the order of its checks included.               *)
VerdictIsLoop ==
  /\ \A s \in Submissions : Verdict(s, <<>>) = LoopVerdict(<<s>>)
  /\ \A batch \in Batches : BatchVerdict(batch) = LoopVerdict(batch)
=============================================================================
