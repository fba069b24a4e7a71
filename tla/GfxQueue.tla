------------------------------ MODULE GfxQueue ------------------------------
(***************************************************************************)
(* engine/gfx: the queues of create_gfx_queue_stub (StubGfxQueue) and the  *)
(* timelines and fences that the application shares between them.          *)
(*                                                                         *)
(* A submission is checked when it is handed in, against the values of     *)
(* that moment and what the earlier submissions of its own batch will      *)
(* signal, and executed by a later process_next_submission, which checks   *)
(* nothing.  A QueueTimeline and a FenceState are each one number with the *)
(* same rule, so both are counters here, and the fence signal of a         *)
(* submission is the last of its signals.                                  *)
(***************************************************************************)
EXTENDS Naturals, Sequences, FiniteSetsExt

CONSTANTS
  Queues,       \* the IGfxQueue objects
  Timelines,    \* the QueueTimeline objects of the application
  Fences,       \* its FenceState objects
  Null,         \* a null pointer
  Submissions,  \* the SubmitInfo values the application uses
  Batches       \* the SubmitBatch values it uses

Counters == Timelines \cup Fences

(* commands is the command buffer, present or not.                         *)
SubmitInfo ==
  [commands : BOOLEAN,
   waits    : Seq([on : Timelines \cup {Null}, min : Nat]),
   signals  : Seq([on : Counters \cup {Null}, value : Nat])]

ASSUME QueueAssumption ==
  /\ Null \notin Counters
  /\ Submissions \subseteq SubmitInfo
  /\ Batches \subseteq Seq(Submissions)

VARIABLES
  queue,      \* queue_, the pending submissions of each queue
  completed,  \* completed_submissions_
  value,      \* the value of each timeline and each fence
  answer,     \* the code of the last call's QueueSubmitResult
  accepted    \* history: the calls that each queue answered with Ok

vars == <<queue, completed, value, answer, accepted>>

AnswerCodes == {"Ok", "InvalidArgument", "SyncUnresolved"}

-----------------------------------------------------------------------------
(* VALIDATION.  The values that counter c has now or gets from the         *)
(* submissions before: the last of them is the projected value, and since  *)
(* no accepted signal regresses it is also the largest.                    *)
Visible(c, before) ==
  {value[c]} \cup UNION { {before[j].signals[i].value :
                             i \in {n \in DOMAIN before[j].signals :
                                      before[j].signals[n].on = c}}
                          : j \in DOMAIN before }

(* A variant of WaitMet that is satisfied one value early.                 *)
WaitMetEarly(w, before) == \E v \in Visible(w.on, before) : v + 1 >= w.min

WaitMet(w, before) == \E v \in Visible(w.on, before) : v >= w.min

(* Variants of SignalKept: one looks only at the submission itself, one    *)
(* only at what was there before it.                                       *)
SignalKeptWithin(s, i, before) ==
  \A j \in 1 .. i - 1 :
    s.signals[j].on = s.signals[i].on => s.signals[j].value <= s.signals[i].value

SignalKeptOutside(s, i, before) ==
  \A v \in Visible(s.signals[i].on, before) : v <= s.signals[i].value

(* Signal i of submission s takes its counter below no value seen so far.  *)
SignalKept(s, i, before) ==
  /\ \A v \in Visible(s.signals[i].on, before) : v <= s.signals[i].value
  /\ \A j \in 1 .. i - 1 :
       s.signals[j].on = s.signals[i].on => s.signals[j].value <= s.signals[i].value

Valid(s, before) ==
  /\ s.commands
  /\ \A i \in DOMAIN s.waits :
       s.waits[i].on # Null /\ WaitMet(s.waits[i], before)
  /\ \A i \in DOMAIN s.signals :
       s.signals[i].on # Null /\ SignalKept(s, i, before)

(* Waits are examined in order: the first defect decides the code.         *)
Unresolved(s, before) ==
  /\ s.commands
  /\ \E i \in DOMAIN s.waits :
       /\ s.waits[i].on # Null /\ ~WaitMet(s.waits[i], before)
       /\ \A j \in 1 .. i - 1 : s.waits[j].on # Null

Verdict(s, before) ==
  IF Valid(s, before) THEN "Ok"
  ELSE IF Unresolved(s, before) THEN "SyncUnresolved"
  ELSE "InvalidArgument"

(* The verdict on submission k of a batch, and on the batch: its first     *)
(* defective submission.                                                   *)
VerdictAt(batch, k) == Verdict(batch[k], SubSeq(batch, 1, k - 1))

BatchVerdict(batch) ==
  LET defective == {k \in DOMAIN batch : VerdictAt(batch, k) # "Ok"}
  IN  IF defective = {} THEN "Ok" ELSE VerdictAt(batch, Min(defective))

-----------------------------------------------------------------------------
Init ==
  /\ queue = [q \in Queues |-> <<>>]
  /\ completed = [q \in Queues |-> 0]
  /\ value = [c \in Counters |-> 0]
  /\ answer = "Ok"
  /\ accepted = [q \in Queues |-> <<>>]

Enqueue(q, batch) == queue' = [queue EXCEPT ![q] = @ \o batch]

(* What the caller is told: an Ok accepts all it handed in, another code   *)
(* nothing of it, whatever the call did to the queue.                      *)
Told(q, batch) ==
  accepted' = IF answer' = "Ok" THEN [accepted EXCEPT ![q] = @ \o batch] ELSE accepted

Submit(q, s) ==
  /\ answer' = Verdict(s, <<>>)
  /\ IF answer' = "Ok" THEN Enqueue(q, <<s>>) ELSE UNCHANGED queue
  /\ Told(q, <<s>>)
  /\ UNCHANGED <<completed, value>>

(* A variant of SubmitBatch that enqueues each submission as it examines   *)
(* it, up to the defective one.                                            *)
SubmitBatchInOnePass(q, batch) ==
  LET sound == {k \in DOMAIN batch : \A j \in 1 .. k : VerdictAt(batch, j) = "Ok"}
  IN  /\ answer' = BatchVerdict(batch)
      /\ Enqueue(q, SubSeq(batch, 1, Cardinality(sound)))
      /\ Told(q, batch)
      /\ UNCHANGED <<completed, value>>

(* All of the batch or, when one submission is defective, nothing of it.   *)
SubmitBatch(q, batch) ==
  /\ answer' = BatchVerdict(batch)
  /\ IF answer' = "Ok" THEN Enqueue(q, batch) ELSE UNCHANGED queue
  /\ Told(q, batch)
  /\ UNCHANGED <<completed, value>>

(* The signals of submission s to counter c are assigned in order: the     *)
(* last one stays.                                                         *)
SignalsTo(s, c) == {i \in DOMAIN s.signals : s.signals[i].on = c}

(* A variant of Executed that keeps the first signal.                      *)
ExecutedFirst(s) ==
  [c \in Counters |-> IF SignalsTo(s, c) = {} THEN value[c]
                      ELSE s.signals[Min(SignalsTo(s, c))].value]

Executed(s) ==
  [c \in Counters |-> IF SignalsTo(s, c) = {} THEN value[c]
                      ELSE s.signals[Max(SignalsTo(s, c))].value]

ProcessNext(q) ==
  \/ /\ queue[q] = <<>>
     /\ answer' = "InvalidArgument"
     /\ UNCHANGED <<queue, completed, value, accepted>>
  \/ /\ queue[q] # <<>>
     /\ value' = Executed(Head(queue[q]))
     /\ queue' = [queue EXCEPT ![q] = Tail(@)]
     /\ completed' = [completed EXCEPT ![q] = @ + 1]
     /\ answer' = "Ok"
     /\ UNCHANGED accepted

Next == \E q \in Queues :
  \/ \E s \in Submissions : Submit(q, s)
  \/ \E batch \in Batches : SubmitBatch(q, batch)
  \/ ProcessNext(q)

Spec == Init /\ [][Next]_vars

-----------------------------------------------------------------------------
(* An application that signals each timeline and each fence from one       *)
(* outstanding submission or batch at a time, as run_basic_frame and the   *)
(* integration tests do.                                                   *)
Signalled(batch) ==
  UNION { {batch[j].signals[i].on : i \in DOMAIN batch[j].signals} : j \in DOMAIN batch }

Undisturbed(batch) ==
  \A q \in Queues : Signalled(queue[q]) \cap Signalled(batch) = {}

OwnedNext == \E q \in Queues :
  \/ \E s \in Submissions : Undisturbed(<<s>>) /\ Submit(q, s)
  \/ \E batch \in Batches : Undisturbed(batch) /\ SubmitBatch(q, batch)
  \/ ProcessNext(q)

OwnedSpec == Init /\ [][OwnedNext]_vars

-----------------------------------------------------------------------------
(* PROPERTIES                                                              *)

(* Every variable stays in its domain.                                     *)
TypeOK ==
  /\ queue \in [Queues -> Seq(Submissions)]
  /\ completed \in [Queues -> Nat]
  /\ value \in [Counters -> Nat]
  /\ answer \in AnswerCodes
  /\ accepted \in [Queues -> Seq(Submissions)]

(* Each queue executes all of what it answered with Ok, each submission    *)
(* once, in the order of the submits and of the entries of each batch, and *)
(* nothing of what it refused: a batch with a defect leaves no part of     *)
(* itself behind.                                                          *)
StableOrder ==
  \A q \in Queues :
    /\ completed[q] <= Len(accepted[q])
    /\ queue[q] = SubSeq(accepted[q], completed[q] + 1, Len(accepted[q]))

(* A submission is executed only when the timelines it waits for have      *)
(* reached the values it named: process_next_submission need not check     *)
(* what submit checked.                                                    *)
HeadsReady ==
  \A q \in Queues :
    queue[q] # <<>> =>
      LET waits == Head(queue[q]).waits
      IN  \A i \in DOMAIN waits : value[waits[i].on] >= waits[i].min

(* No timeline and no fence ever takes a smaller value.                    *)
NeverRegress == [][\A c \in Counters : value'[c] >= value[c]]_vars

(* What makes the two of them inductive.  What is pending takes no counter *)
(* back, neither below its value nor below what is pending before; ...     *)
Kept(pending, val) ==
  \A j \in DOMAIN pending : \A i \in DOMAIN pending[j].signals :
    LET signal == pending[j].signals[i] IN
    /\ signal.on \in Counters
    /\ val[signal.on] <= signal.value
    /\ \A k \in DOMAIN pending : \A n \in DOMAIN pending[k].signals :
         /\ pending[k].signals[n].on = signal.on
         /\ k < j \/ (k = j /\ n <= i)
         => pending[k].signals[n].value <= signal.value

(* ... a pending wait is met already or will be by what precedes it; ...   *)
Covered(pending, val) ==
  \A j \in DOMAIN pending : \A i \in DOMAIN pending[j].waits :
    LET wait == pending[j].waits[i] IN
    /\ wait.on \in Timelines
    /\ \/ val[wait.on] >= wait.min
       \/ \E k \in 1 .. j - 1 : \E n \in DOMAIN pending[k].signals :
            /\ pending[k].signals[n].on = wait.on
            /\ pending[k].signals[n].value >= wait.min

PendingKept == \A q \in Queues : Kept(queue[q], value)
PendingCovered == \A q \in Queues : Covered(queue[q], value)

(* ... and no counter is signalled from two queues.                        *)
PendingApart ==
  \A p, q \in Queues : p # q => Signalled(queue[p]) \cap Signalled(queue[q]) = {}

IInv ==
  /\ TypeOK
  /\ StableOrder
  /\ PendingKept
  /\ PendingCovered
  /\ PendingApart
=============================================================================
