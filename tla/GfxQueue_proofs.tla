--------------------------- MODULE GfxQueue_proofs ---------------------------
(***************************************************************************)
(* Theorems about GfxQueue for any queues, timelines, fences, submissions  *)
(* and batches, and their proofs.                                          *)
(***************************************************************************)
EXTENDS QueueValidation, PositionFacts, SequenceTheorems, TLAPS

-----------------------------------------------------------------------------
(* What the assumption on the constants says of one submission.            *)
LEMMA SubmissionType ==
  ASSUME NEW s \in Submissions
  PROVE  /\ s.waits \in Seq([on : Timelines \cup {Null}, min : Nat])
         /\ s.signals \in Seq([on : Counters \cup {Null}, value : Nat])
         /\ \A i \in DOMAIN s.waits : /\ s.waits[i].on \in Timelines \cup {Null}
                                      /\ s.waits[i].min \in Nat
         /\ \A i \in DOMAIN s.signals : /\ s.signals[i].on \in Counters \cup {Null}
                                        /\ s.signals[i].value \in Nat
<1>1. s \in SubmitInfo
  BY QueueAssumption
<1>2. /\ s.waits \in Seq([on : Timelines \cup {Null}, min : Nat])
      /\ s.signals \in Seq([on : Counters \cup {Null}, value : Nat])
  BY <1>1 DEF SubmitInfo
<1>3. /\ \A i \in DOMAIN s.waits : s.waits[i] \in [on : Timelines \cup {Null}, min : Nat]
      /\ \A i \in DOMAIN s.signals : s.signals[i] \in [on : Counters \cup {Null}, value : Nat]
  <2> DEFINE W == [on : Timelines \cup {Null}, min : Nat]
             G == [on : Counters \cup {Null}, value : Nat]
  <2> HIDE DEF W, G
  <2>1. \A w \in Seq(W) : \A i \in DOMAIN w : w[i] \in W
    OBVIOUS
  <2>2. \A g \in Seq(G) : \A i \in DOMAIN g : g[i] \in G
    OBVIOUS
  <2>3. QED
    BY <1>2, <2>1, <2>2 DEF W, G
<1>4. QED
  BY <1>2, <1>3

(* A batch is accepted only if each of its submissions is valid after      *)
(* those before it.                                                        *)
ValidBatch(batch) ==
  \A k \in DOMAIN batch : Valid(batch[k], SubSeq(batch, 1, k - 1))

(* What submit_batch accepts is valid submission by submission, each       *)
(* against the ones before it in the batch.                                *)
LEMMA BatchAccepted ==
  ASSUME NEW batch \in Seq(Submissions), BatchVerdict(batch) = "Ok"
  PROVE  ValidBatch(batch)
<1> DEFINE defective == {k \in DOMAIN batch : VerdictAt(batch, k) # "Ok"}
<1>1. defective \in SUBSET Nat
  OBVIOUS
<1>2. CASE defective # {}
  <2>1. Min(defective) \in defective
    <3> HIDE DEF defective
    <3> QED BY <1>1, <1>2, FirstPosition
  <2>2. BatchVerdict(batch) # "Ok"
    BY <1>2, <2>1 DEF BatchVerdict
  <2>3. QED
    BY <2>2
<1>3. CASE defective = {}
  BY <1>3 DEF ValidBatch, VerdictAt, Verdict
<1>4. QED
  BY <1>2, <1>3

(* What submit accepts is a valid batch of one.                            *)
LEMMA SubmissionAccepted ==
  ASSUME NEW s \in Submissions, Verdict(s, <<>>) = "Ok"
  PROVE  ValidBatch(<<s>>)
<1>1. SubSeq(<<s>>, 1, 0) = <<>>
  BY SubSeqEmpty
<1>2. DOMAIN <<s>> = {1} /\ <<s>>[1] = s
  OBVIOUS
<1>3. Valid(s, <<>>)
  BY DEF Verdict
<1>4. ASSUME NEW k \in DOMAIN <<s>>
      PROVE  Valid(<<s>>[k], SubSeq(<<s>>, 1, k - 1))
  <2>1. k - 1 = 0 /\ <<s>>[k] = s
    BY <1>2
  <2>2. QED
    BY <1>1, <1>3, <2>1
<1>5. QED
  BY <1>4 DEF ValidBatch

(* Every verdict is one of the codes of QueueSubmitResult.                 *)
LEMMA VerdictsAreCodes ==
  /\ \A s, before : Verdict(s, before) \in AnswerCodes
  /\ \A batch : BatchVerdict(batch) \in AnswerCodes
<1>1. \A s, before : Verdict(s, before) \in AnswerCodes
  BY DEF Verdict, AnswerCodes
<1>2. QED
  BY <1>1 DEF BatchVerdict, VerdictAt, AnswerCodes

-----------------------------------------------------------------------------
(* The two parts of a concatenation.                                       *)
LEMMA Parts ==
  ASSUME NEW S, NEW s \in Seq(S), NEW r \in Seq(S)
  PROVE  /\ s \o r \in Seq(S)
         /\ Len(s \o r) = Len(s) + Len(r)
         /\ \A i \in 1 .. Len(s) : (s \o r)[i] = s[i]
         /\ \A i \in 1 .. Len(r) : (s \o r)[Len(s) + i] = r[i]
<1> DEFINE both == s \o r
<1>1. /\ both \in Seq(S)
      /\ Len(both) = Len(s) + Len(r)
      /\ \A i \in 1 .. Len(s) + Len(r) :
           both[i] = IF i <= Len(s) THEN s[i] ELSE r[i - Len(s)]
  BY ConcatProperties
<1> HIDE DEF both
<1>2. ASSUME NEW i \in 1 .. Len(r)
      PROVE  both[Len(s) + i] = r[i]
  <2>1. /\ Len(s) + i \in 1 .. Len(s) + Len(r) /\ ~(Len(s) + i <= Len(s))
        /\ (Len(s) + i) - Len(s) = i
    OBVIOUS
  <2>2. QED
    BY <1>1, <2>1
<1>3. QED
  BY <1>1, <1>2 DEF both

(* What is left of a sequence after its first n elements.                  *)
LEMMA Suffix ==
  ASSUME NEW S, NEW s \in Seq(S), NEW n \in 0 .. Len(s)
  PROVE  /\ SubSeq(s, n + 1, Len(s)) \in Seq(S)
         /\ Len(SubSeq(s, n + 1, Len(s))) = Len(s) - n
         /\ \A i \in 1 .. Len(s) - n : SubSeq(s, n + 1, Len(s))[i] = s[n + i]
<1> DEFINE rest == SubSeq(s, n + 1, Len(s))
<1>1. n + 1 \in Int /\ Len(s) \in Int /\ \A i \in n + 1 .. Len(s) : s[i] \in S
  OBVIOUS
<1>2. /\ rest \in Seq(S)
      /\ Len(rest) = IF n + 1 <= Len(s) THEN Len(s) - (n + 1) + 1 ELSE 0
      /\ \A i \in 1 .. Len(s) - (n + 1) + 1 : rest[i] = s[(n + 1) + i - 1]
  BY <1>1, SubSeqProperties
<1> HIDE DEF rest
<1>3. Len(rest) = Len(s) - n
  BY <1>2
<1>4. ASSUME NEW i \in 1 .. Len(s) - n
      PROVE  rest[i] = s[n + i]
  <2>1. i \in 1 .. Len(s) - (n + 1) + 1 /\ (n + 1) + i - 1 = n + i
    OBVIOUS
  <2>2. QED
    BY <1>2, <2>1
<1>5. QED
  BY <1>2, <1>3, <1>4 DEF rest

(* The type invariant and the order of execution, for every application.   *)
LEMMA EnqueueTypes ==
  ASSUME TypeOK, StableOrder, NEW q \in Queues, NEW batch \in Seq(Submissions),
         Enqueue(q, batch), Told(q, batch), answer' = "Ok", UNCHANGED <<completed, value>>
  PROVE  TypeOK' /\ StableOrder'
<1>1. /\ queue[q] \in Seq(Submissions) /\ accepted[q] \in Seq(Submissions)
      /\ completed[q] \in Nat
  BY DEF TypeOK
<1>2. /\ queue[q] \o batch \in Seq(Submissions)
      /\ accepted[q] \o batch \in Seq(Submissions)
  BY <1>1, ConcatProperties
<1>3. TypeOK'
  BY <1>2 DEF TypeOK, Enqueue, Told, AnswerCodes
<1>4. /\ completed[q] <= Len(accepted[q])
      /\ queue[q] = SubSeq(accepted[q], completed[q] + 1, Len(accepted[q]))
  BY DEF StableOrder
<1>5. queue[q] \o batch
        = SubSeq(accepted[q] \o batch, completed[q] + 1, Len(accepted[q] \o batch))
  <2> DEFINE all == accepted[q] \o batch
             rest == SubSeq(all, completed[q] + 1, Len(all))
  <2>1. /\ all \in Seq(Submissions)
        /\ Len(all) = Len(accepted[q]) + Len(batch)
        /\ \A i \in 1 .. Len(accepted[q]) : all[i] = accepted[q][i]
        /\ \A i \in 1 .. Len(batch) : all[Len(accepted[q]) + i] = batch[i]
    BY <1>1, Parts
  <2> HIDE DEF all
  <2>2. completed[q] \in 0 .. Len(all) /\ completed[q] \in 0 .. Len(accepted[q])
    BY <1>1, <1>4, <2>1
  <2>3. /\ rest \in Seq(Submissions)
        /\ Len(rest) = Len(all) - completed[q]
        /\ \A i \in 1 .. Len(all) - completed[q] : rest[i] = all[completed[q] + i]
    BY <2>1, <2>2, Suffix
  <2>4. /\ Len(queue[q]) = Len(accepted[q]) - completed[q]
        /\ \A i \in 1 .. Len(accepted[q]) - completed[q] :
             queue[q][i] = accepted[q][completed[q] + i]
    <3> DEFINE left == SubSeq(accepted[q], completed[q] + 1, Len(accepted[q]))
    <3>1. /\ Len(left) = Len(accepted[q]) - completed[q]
          /\ \A i \in 1 .. Len(accepted[q]) - completed[q] :
               left[i] = accepted[q][completed[q] + i]
      BY <1>1, <2>2, Suffix
    <3>2. queue[q] = left
      BY <1>4
    <3> HIDE DEF left
    <3>3. QED
      BY <3>1, <3>2
  <2>5. /\ Len(queue[q] \o batch) = Len(queue[q]) + Len(batch)
        /\ \A i \in 1 .. Len(queue[q]) : (queue[q] \o batch)[i] = queue[q][i]
        /\ \A i \in 1 .. Len(batch) : (queue[q] \o batch)[Len(queue[q]) + i] = batch[i]
    BY <1>1, Parts
  <2> HIDE DEF rest
  <2>6. Len(queue[q] \o batch) = Len(rest)
    BY <1>1, <2>1, <2>3, <2>4, <2>5
  <2>7. ASSUME NEW i \in 1 .. Len(rest)
        PROVE  (queue[q] \o batch)[i] = rest[i]
    <3>0. /\ i \in Nat /\ completed[q] \in Nat /\ Len(batch) \in Nat
          /\ Len(queue[q]) \in Nat /\ Len(accepted[q]) \in Nat
          /\ 1 <= i /\ i <= Len(queue[q]) + Len(batch)
      BY <1>1, <2>5, <2>6
    <3>1. rest[i] = all[completed[q] + i]
      BY <2>3, <2>6
    <3>2. CASE i <= Len(queue[q])
      <4>1. /\ completed[q] + i \in 1 .. Len(accepted[q])
            /\ i \in 1 .. Len(queue[q]) /\ i \in 1 .. Len(accepted[q]) - completed[q]
        BY SMTT(30), <2>4, <3>0, <3>2
      <4>2. all[completed[q] + i] = accepted[q][completed[q] + i]
        BY <2>1, <4>1
      <4>3. queue[q][i] = accepted[q][completed[q] + i]
        BY <2>4, <4>1
      <4>4. (queue[q] \o batch)[i] = queue[q][i]
        BY <2>5, <4>1
      <4>5. QED
        BY <3>1, <4>2, <4>3, <4>4
    <3>3. CASE i > Len(queue[q])
      <4> DEFINE n == i - Len(queue[q])
      <4>1. /\ n \in 1 .. Len(batch)
            /\ i = Len(queue[q]) + n /\ completed[q] + i = Len(accepted[q]) + n
        <5>1. Len(queue[q]) = Len(accepted[q]) - completed[q]
          BY <2>4
        <5>2. /\ n \in Int /\ n >= 1 /\ n <= Len(batch)
          BY <3>0, <3>3
        <5>3. i = Len(queue[q]) + n
          BY <3>0
        <5> HIDE DEF n
        <5>4. n \in 1 .. Len(batch)
          BY <3>0, <5>2
        <5>5. completed[q] + i = Len(accepted[q]) + n
          BY SMTT(30), <3>0, <5>1, <5>2, <5>3
        <5>6. QED
          BY <5>3, <5>4, <5>5
      <4> HIDE DEF n
      <4>2. QED
        BY <2>1, <2>5, <3>1, <4>1
    <3>4. QED
      BY <3>0, <3>2, <3>3
  <2>8. queue[q] \o batch = rest
    BY <1>2, <2>3, <2>6, <2>7, SeqEqual
  <2>9. QED
    BY <2>8 DEF all, rest
<1>6. completed[q] <= Len(accepted[q] \o batch)
  BY <1>1, <1>4, ConcatProperties
<1>7. StableOrder'
  BY <1>5, <1>6 DEF StableOrder, Enqueue, Told, TypeOK
<1>8. QED
  BY <1>3, <1>7

(* Executing a submission leaves every counter at its value or at the value*)
(* of the last of the signals to it.                                       *)
LEMMA ExecutedType ==
  ASSUME TypeOK, NEW s \in Submissions
  PROVE  /\ Executed(s) \in [Counters -> Nat]
         /\ \A c \in Counters :
              \/ SignalsTo(s, c) = {} /\ Executed(s)[c] = value[c]
              \/ \E i \in DOMAIN s.signals :
                   /\ s.signals[i].on = c /\ Executed(s)[c] = s.signals[i].value
                   /\ \A n \in SignalsTo(s, c) : n <= i
<1>1. ASSUME NEW c \in Counters, SignalsTo(s, c) # {}
      PROVE  \E i \in DOMAIN s.signals :
                   /\ s.signals[i].on = c /\ Executed(s)[c] = s.signals[i].value
                   /\ \A n \in SignalsTo(s, c) : n <= i
  <2>1. /\ Len(s.signals) \in Nat /\ DOMAIN s.signals = 1 .. Len(s.signals)
    BY SubmissionType
  <2>2. SignalsTo(s, c) \in SUBSET (1 .. Len(s.signals))
    BY <2>1 DEF SignalsTo
  <2>3. /\ Max(SignalsTo(s, c)) \in SignalsTo(s, c)
        /\ \A n \in SignalsTo(s, c) : n <= Max(SignalsTo(s, c))
    BY <1>1, <2>1, <2>2, LastPosition
  <2>4. Executed(s)[c] = s.signals[Max(SignalsTo(s, c))].value
    BY <1>1 DEF Executed
  <2>5. Max(SignalsTo(s, c)) \in DOMAIN s.signals
        /\ s.signals[Max(SignalsTo(s, c))].on = c
    BY <2>3 DEF SignalsTo
  <2>6. QED
    BY <2>3, <2>4, <2>5
<1>2. ASSUME NEW c \in Counters, SignalsTo(s, c) = {}
      PROVE  Executed(s)[c] = value[c]
  BY <1>2 DEF Executed
<1>3. \A c \in Counters : Executed(s)[c] \in Nat
  BY <1>1, <1>2, SubmissionType DEF TypeOK
<1>4. Executed(s) \in [Counters -> Nat]
  BY <1>3 DEF Executed
<1>5. QED
  BY <1>1, <1>2, <1>4

(* process_next_submission keeps the types and takes the oldest submission.*)
LEMMA ProcessTypes ==
  ASSUME TypeOK, StableOrder, NEW q \in Queues, ProcessNext(q)
  PROVE  TypeOK' /\ StableOrder'
<1>1. CASE queue[q] = <<>> /\ answer' = "InvalidArgument"
           /\ UNCHANGED <<queue, completed, value, accepted>>
  BY <1>1 DEF TypeOK, StableOrder, AnswerCodes
<1>2. CASE /\ queue[q] # <<>>
           /\ value' = Executed(Head(queue[q]))
           /\ queue' = [queue EXCEPT ![q] = Tail(@)]
           /\ completed' = [completed EXCEPT ![q] = @ + 1]
           /\ answer' = "Ok"
           /\ UNCHANGED accepted
  <2>1. /\ queue[q] \in Seq(Submissions) /\ accepted[q] \in Seq(Submissions)
        /\ completed[q] \in Nat
    BY DEF TypeOK
  <2>2. /\ Head(queue[q]) \in Submissions /\ Tail(queue[q]) \in Seq(Submissions)
        /\ Len(Tail(queue[q])) = Len(queue[q]) - 1
        /\ \A i \in 1 .. Len(queue[q]) - 1 : Tail(queue[q])[i] = queue[q][i + 1]
    BY <1>2, <2>1, HeadTailProperties
  <2>3. value' \in [Counters -> Nat]
    BY <1>2, <2>2, ExecutedType
  <2>4. TypeOK'
    BY <1>2, <2>1, <2>2, <2>3 DEF TypeOK, AnswerCodes
  <2>5. /\ completed[q] <= Len(accepted[q])
        /\ queue[q] = SubSeq(accepted[q], completed[q] + 1, Len(accepted[q]))
    BY DEF StableOrder
  <2>6. completed[q] < Len(accepted[q])
    <3>1. CASE completed[q] = Len(accepted[q])
      <4>1. SubSeq(accepted[q], completed[q] + 1, Len(accepted[q])) = <<>>
        <5>1. /\ completed[q] + 1 \in Int /\ Len(accepted[q]) \in Int
              /\ Len(accepted[q]) < completed[q] + 1
          BY <2>1, <3>1
        <5>2. QED
          BY <5>1, SubSeqEmpty
      <4>2. QED
        BY <1>2, <2>5, <4>1
    <3>2. QED
      BY <2>1, <2>5, <3>1
  <2>7. Tail(queue[q]) = SubSeq(accepted[q], completed[q] + 1 + 1, Len(accepted[q]))
    <3>1. /\ completed[q] + 1 \in 1 .. Len(accepted[q])
          /\ Len(accepted[q]) \in completed[q] + 1 .. Len(accepted[q])
      BY <2>1, <2>6
    <3>2. QED
      BY ZenonT(30), <2>1, <2>5, <3>1, HeadTailOfSubSeq
  <2>8. StableOrder'
    <3>1. /\ completed'[q] = completed[q] + 1 /\ queue'[q] = Tail(queue[q])
          /\ \A p \in Queues \ {q} : completed'[p] = completed[p] /\ queue'[p] = queue[p]
      BY <1>2 DEF TypeOK
    <3>2. completed'[q] <= Len(accepted[q])
      BY <2>1, <2>6, <3>1
    <3>3. QED
      BY <1>2, <2>7, <3>1, <3>2 DEF StableOrder
  <2>9. QED
    BY <2>4, <2>8
<1>3. QED
  BY <1>1, <1>2 DEF ProcessNext

-----------------------------------------------------------------------------
(* The application that owns what it signals.                              *)
LEMMA SignalledBy ==
  ASSUME NEW batch, NEW c
  PROVE  c \in Signalled(batch)
           <=> \E j \in DOMAIN batch : \E i \in DOMAIN batch[j].signals :
                 batch[j].signals[i].on = c
BY DEF Signalled

(* What a batch that passed the validation does and needs.                 *)
LEMMA BatchFacts ==
  ASSUME NEW batch \in Seq(Submissions), ValidBatch(batch)
  PROVE  Kept(batch, value) /\ Covered(batch, value)
<1> SUFFICES ASSUME NEW j \in DOMAIN batch
             PROVE  /\ \A i \in DOMAIN batch[j].signals :
                         LET signal == batch[j].signals[i] IN
                         /\ signal.on \in Counters
                         /\ value[signal.on] <= signal.value
                         /\ \A k \in DOMAIN batch : \A n \in DOMAIN batch[k].signals :
                              /\ batch[k].signals[n].on = signal.on
                              /\ k < j \/ (k = j /\ n <= i)
                              => batch[k].signals[n].value <= signal.value
                    /\ \A i \in DOMAIN batch[j].waits :
                         LET wait == batch[j].waits[i] IN
                         /\ wait.on \in Timelines
                         /\ \/ value[wait.on] >= wait.min
                            \/ \E k \in 1 .. j - 1 : \E n \in DOMAIN batch[k].signals :
                                 /\ batch[k].signals[n].on = wait.on
                                 /\ batch[k].signals[n].value >= wait.min
  BY DEF Kept, Covered
<1> DEFINE before == SubSeq(batch, 1, j - 1)
<1>1. /\ j \in 1 .. Len(batch) /\ Len(batch) \in Nat /\ batch[j] \in Submissions
      /\ Valid(batch[j], before)
  BY DEF ValidBatch
<1>2. /\ before \in Seq(Submissions)
      /\ DOMAIN before = 1 .. j - 1
      /\ \A k \in 1 .. j - 1 : before[k] = batch[k]
  <2>1. 1 \in Int /\ j - 1 \in Int /\ \A k \in 1 .. j - 1 : batch[k] \in Submissions
    BY <1>1
  <2>2. /\ before \in Seq(Submissions)
        /\ Len(before) = IF 1 <= j - 1 THEN j - 1 - 1 + 1 ELSE 0
        /\ \A k \in 1 .. j - 1 - 1 + 1 : before[k] = batch[1 + k - 1]
    BY <2>1, SubSeqProperties
  <2> HIDE DEF before
  <2>3. Len(before) = j - 1
    BY <1>1, <2>2
  <2>4. ASSUME NEW k \in 1 .. j - 1
        PROVE  before[k] = batch[k]
    <3>1. k \in 1 .. j - 1 - 1 + 1 /\ 1 + k - 1 = k
      BY <1>1
    <3>2. QED
      BY <2>2, <3>1
  <2>5. QED
    BY <2>2, <2>3, <2>4
<1> HIDE DEF before
<1>3. \A c : \A v : v \in Visible(c, before)
        <=> \/ v = value[c]
            \/ \E k \in 1 .. j - 1 : \E n \in DOMAIN batch[k].signals :
                 batch[k].signals[n].on = c /\ v = batch[k].signals[n].value
  BY SMTT(30), <1>2 DEF Visible
<1>4. ASSUME NEW i \in DOMAIN batch[j].signals
      PROVE  LET signal == batch[j].signals[i] IN
             /\ signal.on \in Counters
             /\ value[signal.on] <= signal.value
             /\ \A k \in DOMAIN batch : \A n \in DOMAIN batch[k].signals :
                  /\ batch[k].signals[n].on = signal.on
                  /\ k < j \/ (k = j /\ n <= i)
                  => batch[k].signals[n].value <= signal.value
  <2> DEFINE signal == batch[j].signals[i]
  <2>1. signal.on \in Counters /\ SignalKept(batch[j], i, before)
    BY <1>1, SubmissionType DEF Valid
  <2>2. \A v \in Visible(signal.on, before) : v <= signal.value
    BY <2>1 DEF SignalKept
  <2>3. value[signal.on] <= signal.value
    BY <1>3, <2>2
  <2>4. ASSUME NEW k \in DOMAIN batch, NEW n \in DOMAIN batch[k].signals,
               batch[k].signals[n].on = signal.on, k < j
        PROVE  batch[k].signals[n].value <= signal.value
    <3>1. k \in 1 .. j - 1
      BY <1>1, <2>4
    <3>2. QED
      BY <1>3, <2>2, <2>4, <3>1
  <2>5. ASSUME NEW n \in DOMAIN batch[j].signals,
               batch[j].signals[n].on = signal.on, n <= i
        PROVE  batch[j].signals[n].value <= signal.value
    <3>1. n \in Nat /\ i \in Nat /\ n >= 1 /\ signal.value \in Nat
      BY <1>1, SubmissionType
    <3>2. CASE n = i
      BY <3>1, <3>2
    <3>3. CASE n # i
      <4>1. n \in 1 .. i - 1
        BY <2>5, <3>1, <3>3
      <4>2. QED
        BY <2>1, <2>5, <4>1 DEF SignalKept
    <3>4. QED
      BY <3>2, <3>3
  <2>6. QED
    BY <2>1, <2>3, <2>4, <2>5
<1>5. ASSUME NEW i \in DOMAIN batch[j].waits
      PROVE  LET wait == batch[j].waits[i] IN
             /\ wait.on \in Timelines
             /\ \/ value[wait.on] >= wait.min
                \/ \E k \in 1 .. j - 1 : \E n \in DOMAIN batch[k].signals :
                     /\ batch[k].signals[n].on = wait.on
                     /\ batch[k].signals[n].value >= wait.min
  <2>1. /\ batch[j].waits[i].on \in Timelines
        /\ \E v \in Visible(batch[j].waits[i].on, before) : v >= batch[j].waits[i].min
    BY <1>1, SubmissionType DEF Valid, WaitMet
  <2>2. QED
    BY <1>3, <2>1
<1>6. QED
  BY <1>4, <1>5

(* A valid batch that signals no counter of what is pending keeps the three*)
(* parts of the invariant when it joins the queue.                         *)
LEMMA EnqueueOwned ==
  ASSUME IInv, NEW q \in Queues, NEW batch \in Seq(Submissions),
         ValidBatch(batch), Undisturbed(batch),
         Enqueue(q, batch), UNCHANGED value
  PROVE  (PendingKept /\ PendingCovered /\ PendingApart)'
<1> DEFINE old == queue[q]
           new == queue'[q]
           len == Len(old)
<1>1. TypeOK /\ PendingKept /\ PendingCovered /\ PendingApart
  BY DEF IInv
<1>2. /\ new = old \o batch
      /\ \A p \in Queues \ {q} : queue'[p] = queue[p]
      /\ old \in Seq(Submissions)
  BY <1>1 DEF Enqueue, TypeOK
<1>3. /\ len \in Nat /\ Len(batch) \in Nat
      /\ DOMAIN old = 1 .. len /\ DOMAIN batch = 1 .. Len(batch)
  BY <1>2
<1>4. /\ DOMAIN new = 1 .. len + Len(batch)
      /\ \A j \in DOMAIN old : new[j] = old[j]
      /\ \A j \in DOMAIN batch : new[len + j] = batch[j]
  BY <1>2, <1>3, Parts
<1>5. \A j \in DOMAIN new : j \in DOMAIN old \/ \E k \in DOMAIN batch : j = len + k
  <2>1. ASSUME NEW j \in DOMAIN new, j \notin DOMAIN old
        PROVE  j - len \in DOMAIN batch /\ j = len + (j - len)
    BY <1>3, <1>4, <2>1
  <2>2. QED
    BY <2>1
(* The old and the new submissions signal nothing in common.               *)
<1>6. \A j \in DOMAIN old : \A i \in DOMAIN old[j].signals :
      \A k \in DOMAIN batch : \A n \in DOMAIN batch[k].signals :
        old[j].signals[i].on # batch[k].signals[n].on
  <2>1. PICK signalled : signalled = Signalled(batch)
    OBVIOUS
  <2>2. Signalled(queue[q]) \cap signalled = {}
    BY <2>1 DEF Undisturbed
  <2>3. \A j \in DOMAIN old : \A i \in DOMAIN old[j].signals :
          old[j].signals[i].on \in Signalled(queue[q])
    BY DEF Signalled
  <2>4. \A k \in DOMAIN batch : \A n \in DOMAIN batch[k].signals :
          batch[k].signals[n].on \in signalled
    BY <2>1 DEF Signalled
  <2>5. QED
    BY <2>2, <2>3, <2>4
<1> HIDE DEF old, new, len
<1>7. PendingKept'
  <2>1. ASSUME NEW j \in DOMAIN new, NEW i \in DOMAIN new[j].signals
        PROVE  LET signal == new[j].signals[i] IN
               /\ signal.on \in Counters
               /\ value[signal.on] <= signal.value
               /\ \A k \in DOMAIN new : \A n \in DOMAIN new[k].signals :
                    /\ new[k].signals[n].on = signal.on
                    /\ k < j \/ (k = j /\ n <= i)
                    => new[k].signals[n].value <= signal.value
    <3>1. CASE j \in DOMAIN old
      <4>1. \A k \in DOMAIN new : k <= j => k \in DOMAIN old
        BY <1>3, <1>4, <3>1
      <4>2. new[j] = old[j] /\ \A k \in DOMAIN old : new[k] = old[k]
        BY <1>4, <3>1
      <4>3. /\ old[j].signals[i].on \in Counters
            /\ value[old[j].signals[i].on] <= old[j].signals[i].value
            /\ \A k \in DOMAIN old : \A n \in DOMAIN old[k].signals :
                 /\ old[k].signals[n].on = old[j].signals[i].on
                 /\ k < j \/ (k = j /\ n <= i)
                 => old[k].signals[n].value <= old[j].signals[i].value
        BY <1>1, <2>1, <3>1, <4>2 DEF PendingKept, Kept, old
      <4>4. \A k \in DOMAIN new : k < j \/ k = j => k \in DOMAIN old
        BY <1>3, <1>4, <3>1, <4>1
      <4>5. QED
        BY <4>2, <4>3, <4>4
    <3>2. ASSUME NEW b \in DOMAIN batch, j = len + b
          PROVE  LET signal == new[j].signals[i] IN
                 /\ signal.on \in Counters
                 /\ value[signal.on] <= signal.value
                 /\ \A k \in DOMAIN new : \A n \in DOMAIN new[k].signals :
                      /\ new[k].signals[n].on = signal.on
                      /\ k < j \/ (k = j /\ n <= i)
                      => new[k].signals[n].value <= signal.value
      <4>1. new[j] = batch[b]
        BY <1>4, <3>2
      <4>2. /\ batch[b].signals[i].on \in Counters
            /\ value[batch[b].signals[i].on] <= batch[b].signals[i].value
            /\ \A k \in DOMAIN batch : \A n \in DOMAIN batch[k].signals :
                 /\ batch[k].signals[n].on = batch[b].signals[i].on
                 /\ k < b \/ (k = b /\ n <= i)
                 => batch[k].signals[n].value <= batch[b].signals[i].value
        BY <2>1, <4>1, BatchFacts DEF Kept
      <4>3. ASSUME NEW k \in DOMAIN new, NEW n \in DOMAIN new[k].signals,
                   new[k].signals[n].on = batch[b].signals[i].on,
                   k < j \/ (k = j /\ n <= i)
            PROVE  new[k].signals[n].value <= batch[b].signals[i].value
        <5>1. CASE k \in DOMAIN old
          BY <1>4, <1>6, <2>1, <4>1, <4>3, <5>1
        <5>2. ASSUME NEW c \in DOMAIN batch, k = len + c
              PROVE  new[k].signals[n].value <= batch[b].signals[i].value
          <6>1. new[k] = batch[c]
            BY <1>4, <5>2
          <6>2. c < b \/ (c = b /\ n <= i)
            BY <1>3, <3>2, <4>3, <5>2
          <6>3. QED
            BY <4>2, <4>3, <6>1, <6>2
        <5>3. QED
          BY <1>5, <5>1, <5>2
      <4>4. QED
        BY <4>1, <4>2, <4>3
    <3>3. QED
      BY <1>5, <3>1, <3>2
  <2>2. Kept(new, value)
    BY <2>1 DEF Kept
  <2>3. \A p \in Queues : Kept(queue'[p], value')
    BY <1>1, <1>2, <2>2 DEF PendingKept, new
  <2>4. QED
    BY <2>3 DEF PendingKept, Kept
<1>8. PendingCovered'
  <2>1. ASSUME NEW j \in DOMAIN new, NEW i \in DOMAIN new[j].waits
        PROVE  LET wait == new[j].waits[i] IN
               /\ wait.on \in Timelines
               /\ \/ value[wait.on] >= wait.min
                  \/ \E k \in 1 .. j - 1 : \E n \in DOMAIN new[k].signals :
                       /\ new[k].signals[n].on = wait.on
                       /\ new[k].signals[n].value >= wait.min
    <3>1. CASE j \in DOMAIN old
      <4>1. new[j] = old[j] /\ \A k \in 1 .. j - 1 : new[k] = old[k]
        BY <1>3, <1>4, <3>1
      <4>2. /\ old[j].waits[i].on \in Timelines
            /\ \/ value[old[j].waits[i].on] >= old[j].waits[i].min
               \/ \E k \in 1 .. j - 1 : \E n \in DOMAIN old[k].signals :
                    /\ old[k].signals[n].on = old[j].waits[i].on
                    /\ old[k].signals[n].value >= old[j].waits[i].min
        BY <1>1, <2>1, <3>1, <4>1 DEF PendingCovered, Covered, old
      <4>3. QED
        BY <4>1, <4>2
    <3>2. ASSUME NEW b \in DOMAIN batch, j = len + b
          PROVE  LET wait == new[j].waits[i] IN
                 /\ wait.on \in Timelines
                 /\ \/ value[wait.on] >= wait.min
                    \/ \E k \in 1 .. j - 1 : \E n \in DOMAIN new[k].signals :
                         /\ new[k].signals[n].on = wait.on
                         /\ new[k].signals[n].value >= wait.min
      <4>1. new[j] = batch[b]
        BY <1>4, <3>2
      <4>2. /\ batch[b].waits[i].on \in Timelines
            /\ \/ value[batch[b].waits[i].on] >= batch[b].waits[i].min
               \/ \E k \in 1 .. b - 1 : \E n \in DOMAIN batch[k].signals :
                    /\ batch[k].signals[n].on = batch[b].waits[i].on
                    /\ batch[k].signals[n].value >= batch[b].waits[i].min
        BY <2>1, <4>1, BatchFacts DEF Covered
      <4>3. \A k \in 1 .. b - 1 : len + k \in 1 .. j - 1 /\ new[len + k] = batch[k]
        BY <1>3, <1>4, <3>2
      <4>4. QED
        BY SMTT(30), <4>1, <4>2, <4>3
    <3>3. QED
      BY <1>5, <3>1, <3>2
  <2>2. Covered(new, value)
    BY <2>1 DEF Covered
  <2>3. \A p \in Queues : Covered(queue'[p], value')
    BY <1>1, <1>2, <2>2 DEF PendingCovered, new
  <2>4. QED
    BY <2>3 DEF PendingCovered, Covered
<1>9. PendingApart'
  <2>1. ASSUME NEW c, c \in Signalled(new)
        PROVE  c \in Signalled(old) \/ c \in Signalled(batch)
    <3>1. PICK j \in DOMAIN new : \E i \in DOMAIN new[j].signals : new[j].signals[i].on = c
      BY <2>1, SignalledBy
    <3>2. CASE j \in DOMAIN old
      <4>1. new[j] = old[j]
        BY <1>4, <3>2
      <4>2. QED
        BY <3>1, <3>2, <4>1, SignalledBy
    <3>3. ASSUME NEW b \in DOMAIN batch, j = len + b
          PROVE  c \in Signalled(batch)
      <4>1. new[j] = batch[b]
        BY <1>4, <3>3
      <4>2. QED
        BY <3>1, <4>1, SignalledBy
    <3>4. QED
      BY <1>5, <3>2, <3>3
  <2>2. \A p \in Queues \ {q} : Signalled(queue[p]) \cap Signalled(new) = {}
    <3>1. \A p \in Queues \ {q} : /\ Signalled(queue[p]) \cap Signalled(old) = {}
                                  /\ Signalled(queue[p]) \cap Signalled(batch) = {}
      BY <1>1 DEF PendingApart, Undisturbed, old
    <3>2. QED
      BY <2>1, <3>1
  <2>3. \A p, r \in Queues : p # r => Signalled(queue'[p]) \cap Signalled(queue'[r]) = {}
    BY <1>1, <1>2, <2>2 DEF PendingApart, new
  <2>4. QED
    BY <2>3 DEF PendingApart, Signalled
<1>10. QED
  BY <1>7, <1>8, <1>9

(* The head and the rest of a nonempty sequence.                           *)
LEMMA HeadAndRest ==
  ASSUME NEW S, NEW s \in Seq(S), s # <<>>
  PROVE  /\ DOMAIN s = 1 .. Len(s) /\ Len(s) \in Nat /\ Len(s) >= 1
         /\ 1 \in DOMAIN s /\ Head(s) = s[1] /\ s[1] \in S
         /\ DOMAIN Tail(s) = 1 .. Len(s) - 1
         /\ \A j \in DOMAIN Tail(s) : j + 1 \in DOMAIN s /\ Tail(s)[j] = s[j + 1]
<1>1. DOMAIN s = 1 .. Len(s) /\ Len(s) \in Nat /\ Len(s) >= 1
  BY EmptySeq
<1>2. 1 \in DOMAIN s /\ Head(s) = s[1] /\ s[1] \in S
  BY <1>1
<1>3. Tail(s) \in Seq(S) /\ Len(Tail(s)) = Len(s) - 1
  BY HeadTailProperties
<1>4. DOMAIN Tail(s) = 1 .. Len(s) - 1
  BY <1>3
<1>5. ASSUME NEW j \in DOMAIN Tail(s)
      PROVE  j + 1 \in DOMAIN s /\ Tail(s)[j] = s[j + 1]
  <2>1. j \in 1 .. Len(s) - 1
    BY <1>4
  <2>2. QED
    BY <1>1, <2>1
<1>6. QED
  BY <1>1, <1>2, <1>4, <1>5

(* Executing the head of a queue.                                          *)
LEMMA ProcessOwned ==
  ASSUME IInv, NEW q \in Queues, queue[q] # <<>>,
         value' = Executed(Head(queue[q])),
         queue' = [queue EXCEPT ![q] = Tail(@)]
  PROVE  /\ \A c \in Counters : value'[c] >= value[c]
         /\ (PendingKept /\ PendingCovered /\ PendingApart)'
<1> DEFINE old == queue[q]
           new == queue'[q]
<1>1. TypeOK /\ PendingKept /\ PendingCovered /\ PendingApart
  BY DEF IInv
<1>2. /\ new = Tail(old) /\ old \in Seq(Submissions) /\ old # <<>>
      /\ value' = Executed(Head(old))
      /\ \A p \in Queues \ {q} : queue'[p] = queue[p]
      /\ Kept(old, value) /\ Covered(old, value)
  BY <1>1 DEF TypeOK, PendingKept, PendingCovered
<1> HIDE DEF old, new
<1>3. /\ DOMAIN old = 1 .. Len(old) /\ Len(old) \in Nat /\ Len(old) >= 1
      /\ 1 \in DOMAIN old /\ Head(old) = old[1] /\ old[1] \in Submissions
      /\ DOMAIN new = 1 .. Len(old) - 1
      /\ \A j \in DOMAIN new : j + 1 \in DOMAIN old /\ new[j] = old[j + 1]
  BY <1>2, HeadAndRest
<1>4. \A c \in Counters :
        \/ SignalsTo(old[1], c) = {} /\ value'[c] = value[c]
        \/ \E i \in DOMAIN old[1].signals :
             /\ old[1].signals[i].on = c /\ value'[c] = old[1].signals[i].value
             /\ \A n \in SignalsTo(old[1], c) : n <= i
  <2>1. value' = Executed(old[1]) /\ old[1] \in Submissions
    BY <1>2, <1>3
  <2>2. QED
    BY <1>1, <2>1, ExecutedType
<1>5. value \in [Counters -> Nat] /\ value' \in [Counters -> Nat]
  BY <1>1, <1>2, <1>3, ExecutedType DEF TypeOK
<1>6. \A j \in DOMAIN old : \A i \in DOMAIN old[j].signals :
        /\ old[j].signals[i].on \in Counters
        /\ value[old[j].signals[i].on] <= old[j].signals[i].value
        /\ \A k \in DOMAIN old : \A n \in DOMAIN old[k].signals :
             /\ old[k].signals[n].on = old[j].signals[i].on
             /\ k < j \/ (k = j /\ n <= i)
             => old[k].signals[n].value <= old[j].signals[i].value
  BY <1>2 DEF Kept
<1>7. \A c \in Counters : value'[c] >= value[c]
  <2> SUFFICES ASSUME NEW c \in Counters
               PROVE  value'[c] >= value[c]
    OBVIOUS
  <2>1. CASE value'[c] = value[c]
    BY <1>5, <2>1
  <2>2. ASSUME NEW i \in DOMAIN old[1].signals, old[1].signals[i].on = c,
               value'[c] = old[1].signals[i].value
        PROVE  value'[c] >= value[c]
    <3>1. value[c] <= old[1].signals[i].value
      BY <1>3, <1>6, <2>2
    <3>2. QED
      BY <1>5, <2>2, <3>1
  <2>3. QED
    BY <1>4, <2>1, <2>2
(* The counters that the head signals now have the largest of its values.  *)
<1>8. \A i \in DOMAIN old[1].signals : value'[old[1].signals[i].on] >= old[1].signals[i].value
  <2> SUFFICES ASSUME NEW i \in DOMAIN old[1].signals
               PROVE  value'[old[1].signals[i].on] >= old[1].signals[i].value
    OBVIOUS
  <2> DEFINE c == old[1].signals[i].on
  <2>1. c \in Counters /\ i \in SignalsTo(old[1], c)
    BY <1>3, <1>6 DEF SignalsTo
  <2>2. PICK m \in DOMAIN old[1].signals :
             /\ old[1].signals[m].on = c /\ value'[c] = old[1].signals[m].value
             /\ \A n \in SignalsTo(old[1], c) : n <= m
    BY <1>4, <2>1
  <2>3. i <= m
    BY <2>1, <2>2
  <2>4. old[1].signals[i].value <= old[1].signals[m].value
    BY <1>3, <1>6, <2>2, <2>3
  <2>5. old[1].signals[i].value \in Nat /\ value'[c] \in Nat
    BY <1>3, <1>5, <2>1, SubmissionType
  <2>6. QED
    BY <2>2, <2>4, <2>5
(* They stay below what is pending behind it and touch no other queue.     *)
<1>9. ASSUME NEW j \in DOMAIN new, NEW i \in DOMAIN new[j].signals
      PROVE  value'[new[j].signals[i].on] <= new[j].signals[i].value
  <2> DEFINE c == new[j].signals[i].on
  <2>1. j + 1 \in DOMAIN old /\ new[j] = old[j + 1] /\ 1 < j + 1
    BY <1>3
  <2>2. /\ c \in Counters /\ value[c] <= new[j].signals[i].value
        /\ \A n \in DOMAIN old[1].signals :
             old[1].signals[n].on = c => old[1].signals[n].value <= new[j].signals[i].value
    BY <1>3, <1>6, <1>9, <2>1
  <2>3. QED
    BY <1>4, <2>2
<1>10. ASSUME NEW p \in Queues \ {q}, NEW c \in Counters, c \in Signalled(queue[p])
       PROVE  value'[c] = value[c]
  <2>1. c \notin Signalled(old)
    BY <1>1, <1>10 DEF PendingApart, old
  <2>2. \A i \in DOMAIN old[1].signals : old[1].signals[i].on # c
    BY <1>3, <2>1, SignalledBy
  <2>3. QED
    BY <1>4, <2>2
<1>11. PendingKept'
  <2>1. ASSUME NEW p \in Queues \ {q}
        PROVE  Kept(queue[p], value')
    <3>1. Kept(queue[p], value)
      BY <1>1 DEF PendingKept
    <3>2. ASSUME NEW j \in DOMAIN queue[p], NEW i \in DOMAIN queue[p][j].signals
          PROVE  value'[queue[p][j].signals[i].on] = value[queue[p][j].signals[i].on]
      <4>1. /\ queue[p][j].signals[i].on \in Counters
            /\ queue[p][j].signals[i].on \in Signalled(queue[p])
        BY <3>1, <3>2, SignalledBy DEF Kept
      <4>2. QED
        BY <1>10, <4>1
    <3>3. QED
      BY <3>1, <3>2 DEF Kept
  <2>2. Kept(new, value')
    <3>1. ASSUME NEW j \in DOMAIN new, NEW i \in DOMAIN new[j].signals
          PROVE  /\ new[j].signals[i].on \in Counters
                 /\ \A k \in DOMAIN new : \A n \in DOMAIN new[k].signals :
                      /\ new[k].signals[n].on = new[j].signals[i].on
                      /\ k < j \/ (k = j /\ n <= i)
                      => new[k].signals[n].value <= new[j].signals[i].value
      <4>1. j + 1 \in DOMAIN old /\ new[j] = old[j + 1]
        BY <1>3
      <4>2. ASSUME NEW k \in DOMAIN new, NEW n \in DOMAIN new[k].signals,
                   new[k].signals[n].on = new[j].signals[i].on,
                   k < j \/ (k = j /\ n <= i)
            PROVE  new[k].signals[n].value <= new[j].signals[i].value
        <5>1. /\ k + 1 \in DOMAIN old /\ new[k] = old[k + 1]
              /\ k + 1 < j + 1 \/ (k + 1 = j + 1 /\ n <= i)
          BY <1>3, <4>2
        <5>2. QED
          BY <1>6, <3>1, <4>1, <4>2, <5>1
      <4>3. new[j].signals[i].on \in Counters
        BY <1>6, <3>1, <4>1
      <4>4. QED
        BY <4>2, <4>3
    <3>2. QED
      BY <1>9, <3>1 DEF Kept
  <2>3. \A p \in Queues : Kept(queue'[p], value')
    BY <1>2, <2>1, <2>2 DEF new
  <2>4. QED
    BY <2>3 DEF PendingKept, Kept
<1>12. PendingCovered'
  <2>1. ASSUME NEW p \in Queues \ {q}
        PROVE  Covered(queue[p], value')
    <3>1. Covered(queue[p], value) /\ queue[p] \in Seq(Submissions)
      BY <1>1 DEF PendingCovered, TypeOK
    <3>2. ASSUME NEW j \in DOMAIN queue[p], NEW i \in DOMAIN queue[p][j].waits,
                 value[queue[p][j].waits[i].on] >= queue[p][j].waits[i].min
          PROVE  value'[queue[p][j].waits[i].on] >= queue[p][j].waits[i].min
      <4>1. queue[p][j].waits[i].on \in Counters
        BY <3>1, <3>2 DEF Covered, Counters
      <4>2. queue[p][j].waits[i].min \in Nat
        BY <3>1, <3>2, SubmissionType
      <4>3. QED
        BY <1>5, <1>7, <3>2, <4>1, <4>2
    <3>3. QED
      BY <3>1, <3>2 DEF Covered
  <2>2. Covered(new, value')
    <3>1. ASSUME NEW j \in DOMAIN new, NEW i \in DOMAIN new[j].waits
          PROVE  LET wait == new[j].waits[i] IN
                 /\ wait.on \in Timelines
                 /\ \/ value'[wait.on] >= wait.min
                    \/ \E k \in 1 .. j - 1 : \E n \in DOMAIN new[k].signals :
                         /\ new[k].signals[n].on = wait.on
                         /\ new[k].signals[n].value >= wait.min
      <4> DEFINE wait == new[j].waits[i]
      <4>1. /\ j + 1 \in DOMAIN old /\ new[j] = old[j + 1] /\ j \in Nat
            /\ old[j + 1] \in Submissions
        BY <1>2, <1>3
      <4>2. /\ wait.on \in Timelines
            /\ \/ value[wait.on] >= wait.min
               \/ \E k \in 1 .. (j + 1) - 1 : \E n \in DOMAIN old[k].signals :
                    /\ old[k].signals[n].on = wait.on
                    /\ old[k].signals[n].value >= wait.min
        <5>1. \A m \in DOMAIN old : \A n \in DOMAIN old[m].waits :
                /\ old[m].waits[n].on \in Timelines
                /\ \/ value[old[m].waits[n].on] >= old[m].waits[n].min
                   \/ \E k \in 1 .. m - 1 : \E o \in DOMAIN old[k].signals :
                        /\ old[k].signals[o].on = old[m].waits[n].on
                        /\ old[k].signals[o].value >= old[m].waits[n].min
          BY <1>2 DEF Covered
        <5>2. i \in DOMAIN old[j + 1].waits /\ wait = old[j + 1].waits[i]
          BY <3>1, <4>1
        <5> HIDE DEF wait
        <5>3. QED
          BY <4>1, <5>1, <5>2
      <4>3. wait.min \in Nat /\ wait.on \in Counters
        BY <3>1, <4>1, <4>2, SubmissionType DEF Counters
      <4> HIDE DEF wait
      <4>4. CASE value[wait.on] >= wait.min
        BY <1>5, <1>7, <4>2, <4>3, <4>4 DEF wait
      <4>5. ASSUME NEW k \in 1 .. (j + 1) - 1, NEW n \in DOMAIN old[k].signals,
                   old[k].signals[n].on = wait.on, old[k].signals[n].value >= wait.min
            PROVE  \/ value'[wait.on] >= wait.min
                   \/ \E m \in 1 .. j - 1 : \E o \in DOMAIN new[m].signals :
                         /\ new[m].signals[o].on = wait.on
                         /\ new[m].signals[o].value >= wait.min
        <5>1. CASE k = 1
          <6>1. value'[wait.on] >= old[1].signals[n].value
            BY <1>8, <4>5, <5>1
          <6>2. old[1].signals[n].value \in Nat
            BY <1>3, <4>5, <5>1, SubmissionType
          <6>3. QED
            BY <1>5, <4>3, <4>5, <5>1, <6>1, <6>2
        <5>2. CASE k # 1
          <6>1. /\ k - 1 \in 1 .. j - 1 /\ (k - 1) + 1 = k
                /\ k - 1 \in DOMAIN new
            BY <1>3, <4>1, <4>5, <5>2
          <6>2. new[k - 1] = old[k]
            BY <1>3, <6>1
          <6>3. QED
            BY <4>5, <6>1, <6>2
        <5>3. QED
          BY <5>1, <5>2
      <4>6. QED
        BY <4>2, <4>4, <4>5 DEF wait
    <3>2. QED
      BY <3>1 DEF Covered
  <2>3. \A p \in Queues : Covered(queue'[p], value')
    BY <1>2, <2>1, <2>2 DEF new
  <2>4. QED
    BY <2>3 DEF PendingCovered, Covered
<1>13. PendingApart'
  <2>1. Signalled(new) \subseteq Signalled(old)
    <3>1. ASSUME NEW c, c \in Signalled(new)
          PROVE  c \in Signalled(old)
      <4>1. PICK j \in DOMAIN new : \E i \in DOMAIN new[j].signals : new[j].signals[i].on = c
        BY <3>1, SignalledBy
      <4>2. j + 1 \in DOMAIN old /\ new[j] = old[j + 1]
        BY <1>3
      <4>3. QED
        BY <4>1, <4>2, SignalledBy
    <3>2. QED
      BY <3>1
  <2>2. \A p, r \in Queues : p # r => Signalled(queue'[p]) \cap Signalled(queue'[r]) = {}
    BY <1>1, <1>2, <2>1 DEF PendingApart, old, new
  <2>3. QED
    BY <2>2 DEF PendingApart, Signalled
<1>14. QED
  BY <1>7, <1>11, <1>12, <1>13

-----------------------------------------------------------------------------
(* THE SPECIFICATIONS                                                      *)

(* A batch or a submission that is refused, or a stutter, changes nothing  *)
(* but the answer.                                                         *)
LEMMA Refused ==
  ASSUME UNCHANGED <<queue, completed, value, accepted>>, answer' \in AnswerCodes
  PROVE  /\ TypeOK /\ StableOrder => (TypeOK /\ StableOrder)'
         /\ IInv => IInv'
<1>1. TypeOK /\ StableOrder => (TypeOK /\ StableOrder)'
  BY DEF TypeOK, StableOrder
<1>2. PendingKept => PendingKept'
  BY DEF PendingKept, Kept
<1>3. PendingCovered => PendingCovered'
  BY DEF PendingCovered, Covered
<1>4. PendingApart => PendingApart'
  <2> SUFFICES ASSUME PendingApart
               PROVE  PendingApart'
    OBVIOUS
  <2>1. \A p, q \in Queues :
          p # q => Signalled(queue'[p]) \cap Signalled(queue'[q]) = {}
    BY DEF PendingApart
  <2>2. QED
    BY <2>1 DEF PendingApart, Signalled
<1>5. QED
  BY <1>1, <1>2, <1>3, <1>4 DEF IInv

(* Every queue is empty in the beginning.                                  *)
LEMMA TypesInit == Init => TypeOK /\ StableOrder
<1> SUFFICES ASSUME Init
             PROVE  TypeOK /\ StableOrder
  OBVIOUS
<1>1. TypeOK
  BY DEF Init, TypeOK, AnswerCodes
<1>2. SubSeq(<<>>, 1, 0) = <<>> /\ Len(<<>>) = 0
  BY SubSeqEmpty
<1>3. StableOrder
  BY <1>2 DEF Init, StableOrder
<1>4. QED
  BY <1>1, <1>3

(* Any call of any application.                                            *)
LEMMA TypesStep == TypeOK /\ StableOrder /\ [Next]_vars => (TypeOK /\ StableOrder)'
<1> SUFFICES ASSUME TypeOK, StableOrder, [Next]_vars
             PROVE  (TypeOK /\ StableOrder)'
  OBVIOUS
<1>1. ASSUME NEW q \in Queues, NEW s \in Submissions, Submit(q, s)
      PROVE  (TypeOK /\ StableOrder)'
  <2>1. answer' \in AnswerCodes /\ <<s>> \in Seq(Submissions)
    BY <1>1, VerdictsAreCodes DEF Submit
  <2>2. CASE answer' = "Ok"
    BY <1>1, <2>1, <2>2, EnqueueTypes DEF Submit
  <2>3. CASE answer' # "Ok"
    BY <1>1, <2>1, <2>3, Refused DEF Submit, Told
  <2>4. QED
    BY <2>2, <2>3
<1>2. ASSUME NEW q \in Queues, NEW batch \in Batches, SubmitBatch(q, batch)
      PROVE  (TypeOK /\ StableOrder)'
  <2>1. answer' \in AnswerCodes /\ batch \in Seq(Submissions)
    BY <1>2, VerdictsAreCodes, QueueAssumption DEF SubmitBatch
  <2>2. CASE answer' = "Ok"
    BY <1>2, <2>1, <2>2, EnqueueTypes DEF SubmitBatch
  <2>3. CASE answer' # "Ok"
    BY <1>2, <2>1, <2>3, Refused DEF SubmitBatch, Told
  <2>4. QED
    BY <2>2, <2>3
<1>3. ASSUME NEW q \in Queues, ProcessNext(q)
      PROVE  (TypeOK /\ StableOrder)'
  BY <1>3, ProcessTypes
<1>4. CASE UNCHANGED vars
  <2>1. UNCHANGED <<queue, completed, value, accepted>> /\ answer' \in AnswerCodes
    BY <1>4 DEF vars, TypeOK
  <2>2. QED
    BY <2>1, Refused
<1>5. QED
  BY <1>1, <1>2, <1>3, <1>4 DEF Next

(* What an owning application does is what an application may do.          *)
LEMMA OwnedIsNext == [OwnedNext]_vars => [Next]_vars
BY DEF OwnedNext, Next

(* One step of an owning application: the strengthening is inductive and   *)
(* no counter is taken back.                                               *)
LEMMA OwnedStep ==
  IInv /\ [OwnedNext]_vars =>
    IInv' /\ (\A c \in Counters : value'[c] >= value[c])
<1> SUFFICES ASSUME IInv, [OwnedNext]_vars
             PROVE  IInv' /\ (\A c \in Counters : value'[c] >= value[c])
  OBVIOUS
<1>1. TypeOK' /\ StableOrder'
  BY TypesStep, OwnedIsNext DEF IInv
<1>2. \A c \in Counters : value[c] \in Nat
  BY DEF IInv, TypeOK
<1>3. ASSUME NEW q \in Queues, NEW s \in Submissions, Undisturbed(<<s>>), Submit(q, s)
      PROVE  IInv' /\ UNCHANGED value
  <2>1. answer' \in AnswerCodes /\ <<s>> \in Seq(Submissions)
    BY <1>3, VerdictsAreCodes DEF Submit
  <2>2. CASE answer' = "Ok"
    <3>1. ValidBatch(<<s>>)
      BY <1>3, <2>2, SubmissionAccepted DEF Submit
    <3>2. (PendingKept /\ PendingCovered /\ PendingApart)'
      BY <1>3, <2>1, <2>2, <3>1, EnqueueOwned DEF Submit
    <3>3. QED
      BY <1>1, <1>3, <3>2 DEF IInv, Submit
  <2>3. CASE answer' # "Ok"
    BY <1>3, <2>1, <2>3, Refused DEF Submit, Told
  <2>4. QED
    BY <2>2, <2>3
<1>4. ASSUME NEW q \in Queues, NEW batch \in Batches, Undisturbed(batch),
             SubmitBatch(q, batch)
      PROVE  IInv' /\ UNCHANGED value
  <2>1. answer' \in AnswerCodes /\ batch \in Seq(Submissions)
    BY <1>4, VerdictsAreCodes, QueueAssumption DEF SubmitBatch
  <2>2. CASE answer' = "Ok"
    <3>1. ValidBatch(batch)
      BY <1>4, <2>1, <2>2, BatchAccepted DEF SubmitBatch
    <3>2. (PendingKept /\ PendingCovered /\ PendingApart)'
      BY <1>4, <2>1, <2>2, <3>1, EnqueueOwned DEF SubmitBatch
    <3>3. QED
      BY <1>1, <1>4, <3>2 DEF IInv, SubmitBatch
  <2>3. CASE answer' # "Ok"
    BY <1>4, <2>1, <2>3, Refused DEF SubmitBatch, Told
  <2>4. QED
    BY <2>2, <2>3
<1>5. ASSUME NEW q \in Queues, ProcessNext(q)
      PROVE  IInv' /\ (\A c \in Counters : value'[c] >= value[c])
  <2>1. CASE queue[q] = <<>>
    <3>1. UNCHANGED <<queue, completed, value, accepted>> /\ answer' \in AnswerCodes
      BY <1>5, <2>1 DEF ProcessNext, AnswerCodes
    <3>2. QED
      BY <1>2, <3>1, Refused
  <2>2. CASE queue[q] # <<>>
    <3>1. /\ \A c \in Counters : value'[c] >= value[c]
          /\ (PendingKept /\ PendingCovered /\ PendingApart)'
      BY <1>5, <2>2, ProcessOwned DEF ProcessNext
    <3>2. QED
      BY <1>1, <3>1 DEF IInv
  <2>3. QED
    BY <2>1, <2>2
<1>6. CASE UNCHANGED vars
  <2>1. answer' \in AnswerCodes
    BY <1>6 DEF vars, IInv, TypeOK
  <2>2. UNCHANGED <<queue, completed, value, accepted>>
    BY <1>6 DEF vars
  <2>3. IInv'
    BY <2>1, <2>2, Refused
  <2>4. QED
    BY <1>2, <2>2, <2>3
<1>7. UNCHANGED value => \A c \in Counters : value'[c] >= value[c]
  BY <1>2
<1>8. CASE OwnedNext
  <2>1. PICK q \in Queues :
          \/ \E s \in Submissions : Undisturbed(<<s>>) /\ Submit(q, s)
          \/ \E batch \in Batches : Undisturbed(batch) /\ SubmitBatch(q, batch)
          \/ ProcessNext(q)
    BY <1>8 DEF OwnedNext
  <2>2. CASE \E s \in Submissions : Undisturbed(<<s>>) /\ Submit(q, s)
    BY <1>3, <1>7, <2>2
  <2>3. CASE \E batch \in Batches : Undisturbed(batch) /\ SubmitBatch(q, batch)
    BY <1>4, <1>7, <2>3
  <2>4. CASE ProcessNext(q)
    BY <1>5, <2>4
  <2>5. QED
    BY <2>1, <2>2, <2>3, <2>4
<1>9. QED
  BY <1>6, <1>8

(* At the start nothing is pending.                                        *)
LEMMA OwnedInit == Init => IInv
<1> SUFFICES ASSUME Init
             PROVE  IInv
  OBVIOUS
<1>1. \A q \in Queues : queue[q] = <<>>
  BY DEF Init
<1>2. Kept(<<>>, value) /\ Covered(<<>>, value) /\ Signalled(<<>>) = {}
  <2>1. DOMAIN <<>> = {}
    OBVIOUS
  <2>2. QED
    BY <2>1 DEF Kept, Covered, Signalled
<1>3. PendingKept /\ PendingCovered /\ PendingApart
  BY <1>1, <1>2 DEF PendingKept, PendingCovered, PendingApart
<1>4. QED
  BY <1>3, TypesInit DEF IInv

-----------------------------------------------------------------------------
(* Whatever the application does with its queues, and however it shares    *)
(* timelines and fences between them, every counter keeps a value of its   *)
(* width and every queue executes what it accepted, once and in order.     *)
THEOREM OrderAnyClient == Spec => [](TypeOK /\ StableOrder)
<1>1. Init => TypeOK /\ StableOrder
  BY TypesInit
<1>2. TypeOK /\ StableOrder /\ [Next]_vars => (TypeOK /\ StableOrder)'
  BY TypesStep
<1>3. QED
  BY <1>1, <1>2, PTL DEF Spec

(* With one owner at a time for each counter that is signalled, the        *)
(* strengthened invariant holds in every reachable state.                  *)
THEOREM OwnedInvariance == OwnedSpec => []IInv
<1>1. Init => IInv
  BY OwnedInit
<1>2. IInv /\ [OwnedNext]_vars => IInv'
  BY OwnedStep
<1>3. QED
  BY <1>1, <1>2, PTL DEF OwnedSpec

(* What process_next_submission executes has its waits met, though it      *)
(* checks none of them: the first pending submission has nothing before    *)
(* it, so its waits are met already.                                       *)
THEOREM OwnedReady == OwnedSpec => []HeadsReady
<1>1. IInv => HeadsReady
  <2> SUFFICES ASSUME IInv, NEW q \in Queues, queue[q] # <<>>,
                      NEW i \in DOMAIN Head(queue[q]).waits
               PROVE  value[Head(queue[q]).waits[i].on] >= Head(queue[q]).waits[i].min
    BY DEF HeadsReady
  <2>1. queue[q] \in Seq(Submissions) /\ Covered(queue[q], value)
    BY DEF IInv, TypeOK, PendingCovered
  <2>2. 1 \in DOMAIN queue[q] /\ Head(queue[q]) = queue[q][1]
    BY <2>1, HeadAndRest
  <2>3. 1 .. 1 - 1 = {}
    OBVIOUS
  <2>4. QED
    BY <2>1, <2>2, <2>3 DEF Covered
<1>2. QED
  BY <1>1, OwnedInvariance, PTL

(* No timeline and no fence takes a smaller value.                         *)
THEOREM OwnedMonotonic == OwnedSpec => NeverRegress
<1>1. IInv /\ [OwnedNext]_vars => [\A c \in Counters : value'[c] >= value[c]]_vars
  BY OwnedStep
<1>2. QED
  BY <1>1, OwnedInvariance, PTL DEF OwnedSpec, NeverRegress

-----------------------------------------------------------------------------
(* THE LOOPS OF THE VALIDATION.  What they can have come to.               *)
LoopStates == [code : AnswerCodes, projection : [Counters -> Nat]]

Waits == [on : Timelines \cup {Null}, min : Nat]
Signals == [on : Counters \cup {Null}, value : Nat]

(* What the loops over waits, signals and submissions come to.             *)
AfterWaits(st, waits) == FoldLeft(CheckWait, st, waits)
AfterSignals(st, signals) == FoldLeft(CheckSignal, st, signals)
Checked(st, batch) == FoldLeft(CheckSubmission, st, batch)

(* One round of each loop comes to such a state.                           *)
LEMMA RoundTypes ==
  ASSUME NEW st \in LoopStates
  PROVE  /\ \A wait \in Waits : CheckWait(st, wait) \in LoopStates
         /\ \A signal \in Signals : CheckSignal(st, signal) \in LoopStates
<1>1. \A code \in AnswerCodes : Reject(st, code) \in LoopStates
  BY DEF Reject, LoopStates
<1>2. "InvalidArgument" \in AnswerCodes /\ "SyncUnresolved" \in AnswerCodes
  BY DEF AnswerCodes
<1>3. \A wait \in Waits : CheckWait(st, wait) \in LoopStates
  BY <1>1, <1>2 DEF CheckWait
<1>4. ASSUME NEW signal \in Signals
      PROVE  CheckSignal(st, signal) \in LoopStates
  <2>1. signal.on \in Counters \cup {Null} /\ signal.value \in Nat
    BY DEF Signals
  <2>2. signal.on \in Counters => [st EXCEPT !.projection[signal.on] = signal.value] \in LoopStates
    BY <2>1 DEF LoopStates
  <2>3. QED
    BY <1>1, <1>2, <2>1, <2>2 DEF CheckSignal
<1>5. QED
  BY <1>3, <1>4

(* The loop over the waits of a submission, one wait at a time.            *)
LEMMA WaitWalk ==
  ASSUME NEW st \in LoopStates, NEW waits \in Seq(Waits)
  PROVE  \E g \in [0 .. Len(waits) -> LoopStates] :
           /\ g[0] = st /\ g[Len(waits)] = AfterWaits(st, waits)
           /\ \A k \in 1 .. Len(waits) : g[k] = CheckWait(g[k - 1], waits[k])
<1> DEFINE n == Len(waits)
           H == [p \in LoopStates \X (1 .. n) |-> CheckWait(p[1], waits[p[2]])]
           Body(G) == [s \in SUBSET (1 .. n) |->
                         IF s = {} THEN st
                         ELSE CheckWait(G[s \ {Max(s)}], waits[Max(s)])]
           F == CHOOSE G : G = Body(G)
<1>0. n \in Nat /\ DOMAIN waits = 1 .. n /\ \A i \in 1 .. n : waits[i] \in Waits
  BY ElementOfSeq, LenProperties
<1> HIDE DEF n
<1>1. /\ H \in [LoopStates \X (1 .. n) -> LoopStates] /\ st \in LoopStates
      /\ \A a \in LoopStates, k \in 1 .. n : H[<<a, k>>] = CheckWait(a, waits[k])
  BY <1>0, RoundTypes
<1>2. AfterWaits(st, waits) = F[1 .. n]
  BY <1>0 DEF AfterWaits, FoldLeft, MapThenFoldSet
<1> HIDE DEF H
<1>3. PICK G \in [SUBSET (1 .. n) -> LoopStates] : Folding(G, LoopStates, st, n, H)
  BY <1>0, <1>1, FoldExists
<1>4. G = Body(G)
  <2>1. \A s \in SUBSET (1 .. n) : s # {} =>
          G[s] = CheckWait(G[s \ {Max(s)}], waits[Max(s)])
    BY <1>0, <1>1, <1>3, LastOfSome DEF Folding
  <2>2. QED
    BY <1>3, <2>1 DEF Folding
<1>5. F = Body(F)
  <2> HIDE DEF Body
  <2>1. QED
    BY <1>4
<1> HIDE DEF F
<1>6. /\ F[{}] = st
      /\ \A s \in SUBSET (1 .. n) :
           s # {} => F[s] = CheckWait(F[s \ {Max(s)}], waits[Max(s)])
  BY <1>5
<1>7. Folding(F, LoopStates, st, n, H)
  BY <1>0, <1>1, <1>6, LastOfSome DEF Folding
<1>8. PICK g \in [0 .. n -> LoopStates] : Walk(g, F[1 .. n], st, n, H)
  BY <1>0, <1>1, <1>7, FoldSteps
<1>9. ASSUME NEW k \in 1 .. n
      PROVE  g[k] = CheckWait(g[k - 1], waits[k])
  <2>1. g[k - 1] \in LoopStates
    BY <1>0
  <2>2. QED
    BY <1>1, <1>8, <2>1 DEF Walk
<1>10. QED
  BY <1>2, <1>8, <1>9 DEF Walk, n

(* The loop over its signals, one signal at a time.                        *)
LEMMA SignalWalk ==
  ASSUME NEW st \in LoopStates, NEW signals \in Seq(Signals)
  PROVE  \E g \in [0 .. Len(signals) -> LoopStates] :
           /\ g[0] = st /\ g[Len(signals)] = AfterSignals(st, signals)
           /\ \A k \in 1 .. Len(signals) : g[k] = CheckSignal(g[k - 1], signals[k])
<1> DEFINE n == Len(signals)
           H == [p \in LoopStates \X (1 .. n) |-> CheckSignal(p[1], signals[p[2]])]
           Body(G) == [s \in SUBSET (1 .. n) |->
                         IF s = {} THEN st
                         ELSE CheckSignal(G[s \ {Max(s)}], signals[Max(s)])]
           F == CHOOSE G : G = Body(G)
<1>0. n \in Nat /\ DOMAIN signals = 1 .. n /\ \A i \in 1 .. n : signals[i] \in Signals
  BY ElementOfSeq, LenProperties
<1> HIDE DEF n
<1>1. /\ H \in [LoopStates \X (1 .. n) -> LoopStates] /\ st \in LoopStates
      /\ \A a \in LoopStates, k \in 1 .. n : H[<<a, k>>] = CheckSignal(a, signals[k])
  BY <1>0, RoundTypes
<1>2. AfterSignals(st, signals) = F[1 .. n]
  BY <1>0 DEF AfterSignals, FoldLeft, MapThenFoldSet
<1> HIDE DEF H
<1>3. PICK G \in [SUBSET (1 .. n) -> LoopStates] : Folding(G, LoopStates, st, n, H)
  BY <1>0, <1>1, FoldExists
<1>4. G = Body(G)
  <2>1. \A s \in SUBSET (1 .. n) : s # {} =>
          G[s] = CheckSignal(G[s \ {Max(s)}], signals[Max(s)])
    BY <1>0, <1>1, <1>3, LastOfSome DEF Folding
  <2>2. QED
    BY <1>3, <2>1 DEF Folding
<1>5. F = Body(F)
  <2> HIDE DEF Body
  <2>1. QED
    BY <1>4
<1> HIDE DEF F
<1>6. /\ F[{}] = st
      /\ \A s \in SUBSET (1 .. n) :
           s # {} => F[s] = CheckSignal(F[s \ {Max(s)}], signals[Max(s)])
  BY <1>5
<1>7. Folding(F, LoopStates, st, n, H)
  BY <1>0, <1>1, <1>6, LastOfSome DEF Folding
<1>8. PICK g \in [0 .. n -> LoopStates] : Walk(g, F[1 .. n], st, n, H)
  BY <1>0, <1>1, <1>7, FoldSteps
<1>9. ASSUME NEW k \in 1 .. n
      PROVE  g[k] = CheckSignal(g[k - 1], signals[k])
  <2>1. g[k - 1] \in LoopStates
    BY <1>0
  <2>2. QED
    BY <1>1, <1>8, <2>1 DEF Walk
<1>10. QED
  BY <1>2, <1>8, <1>9 DEF Walk, n

(* What the projection of the loops is to Visible: it has the value of     *)
(* each counter that is seen last, and none that is seen is larger.        *)
Projects(projection, before) ==
  /\ projection \in [Counters -> Nat]
  /\ \A c \in Counters :
       /\ projection[c] \in Visible(c, before)
       /\ \A v \in Visible(c, before) : v <= projection[c]

(* A wait is met if the largest visible value meets it, ...                *)
LEMMA ProjectedWait ==
  ASSUME NEW p, NEW before, Projects(p, before), NEW w \in Waits, w.on # Null,
         \A v \in Visible(w.on, before) : v \in Nat
  PROVE  WaitMet(w, before) <=> ~(p[w.on] < w.min)
<1>1. w.on \in Counters /\ w.min \in Nat
  BY DEF Waits, Counters
<1>2. p[w.on] \in Visible(w.on, before) /\ \A v \in Visible(w.on, before) : v <= p[w.on]
  BY <1>1 DEF Projects
<1>3. p[w.on] \in Nat
  BY <1>1 DEF Projects
<1>4. QED
  BY <1>1, <1>2, <1>3 DEF WaitMet

(* ... and what is visible is a number.                                    *)
LEMMA VisibleNumbers ==
  ASSUME value \in [Counters -> Nat], NEW before \in Seq(Submissions), NEW c \in Counters
  PROVE  \A v \in Visible(c, before) : v \in Nat
<1>1. \A j \in DOMAIN before : before[j] \in Submissions
  BY ElementOfSeq, LenProperties
<1>2. \A j \in DOMAIN before : \A i \in DOMAIN before[j].signals :
        before[j].signals[i].value \in Nat
  BY <1>1, SubmissionType
<1>3. value[c] \in Nat
  OBVIOUS
<1>4. QED
  BY <1>2, <1>3 DEF Visible

(* The loop over the waits leaves the projection alone and comes to the    *)
(* code of the first defect, if there is one.                              *)
LEMMA WaitLoop ==
  ASSUME value \in [Counters -> Nat], NEW s \in Submissions, NEW before \in Seq(Submissions),
         NEW p, Projects(p, before), NEW st \in LoopStates, st = [code |-> "Ok", projection |-> p]
  PROVE  /\ AfterWaits(st, s.waits) \in LoopStates
         /\ AfterWaits(st, s.waits).projection = p
         /\ AfterWaits(st, s.waits).code = "Ok" <=>
              \A i \in DOMAIN s.waits : s.waits[i].on # Null /\ WaitMet(s.waits[i], before)
         /\ AfterWaits(st, s.waits).code = "SyncUnresolved" <=>
              \E i \in DOMAIN s.waits :
                /\ s.waits[i].on # Null /\ ~WaitMet(s.waits[i], before)
                /\ \A j \in 1 .. i - 1 : s.waits[j].on # Null
<1> DEFINE waits == s.waits
           n == Len(waits)
           null(i) == waits[i].on = Null
           met(i) == WaitMet(waits[i], before)
<1>1. waits \in Seq(Waits) /\ n \in Nat /\ DOMAIN waits = 1 .. n
  BY SubmissionType, LenProperties DEF Waits
<1>2. \A i \in 1 .. n : waits[i] \in Waits
  BY <1>1, ElementOfSeq
<1>3. ASSUME NEW i \in 1 .. n, ~null(i)
      PROVE  met(i) <=> ~(p[waits[i].on] < waits[i].min)
  <2>1. waits[i] \in Waits /\ waits[i].on # Null /\ waits[i].on \in Counters
    BY <1>2, <1>3 DEF Waits, Counters
  <2>2. \A v \in Visible(waits[i].on, before) : v \in Nat
    BY <2>1, VisibleNumbers
  <2>3. QED
    BY <2>1, <2>2, ProjectedWait
<1> HIDE DEF waits, n
<1>4. PICK g \in [0 .. n -> LoopStates] :
        /\ g[0] = st /\ g[n] = AfterWaits(st, waits)
        /\ \A k \in 1 .. n : g[k] = CheckWait(g[k - 1], waits[k])
  BY <1>1, WaitWalk DEF n
<1> DEFINE Come(k) ==
             /\ g[k].projection = p
             /\ g[k].code = "Ok" <=> \A i \in 1 .. k : ~null(i) /\ met(i)
             /\ g[k].code = "SyncUnresolved" <=>
                  \E i \in 1 .. k : ~null(i) /\ ~met(i) /\ \A j \in 1 .. i - 1 : ~null(j)
           T == {k \in 0 .. n : Come(k)}
<1>5. 0 \in T
  <2>1. g[0].projection = p /\ g[0].code = "Ok" /\ 1 .. 0 = {}
    BY <1>4
  <2>2. 0 \in 0 .. n
    BY <1>1
  <2>3. QED
    BY <2>1, <2>2
<1>6. ASSUME NEW k \in 1 .. n, k - 1 \in T
      PROVE  k \in T
  <2>1. /\ k \in Nat \ {0} /\ k \in 0 .. n /\ k - 1 \in 0 .. n
        /\ 1 .. k = (1 .. k - 1) \cup {k}
    BY <1>1
  <2>2. /\ g[k - 1].projection = p
        /\ g[k - 1].code = "Ok" <=> \A i \in 1 .. k - 1 : ~null(i) /\ met(i)
        /\ g[k - 1].code = "SyncUnresolved" <=>
             \E i \in 1 .. k - 1 : ~null(i) /\ ~met(i) /\ \A j \in 1 .. i - 1 : ~null(j)
    BY <1>6
  <2>3. g[k] = CheckWait(g[k - 1], waits[k]) /\ g[k - 1] \in LoopStates
    BY <1>4, <2>1
  <2>4. /\ g[k - 1].code # "Ok" => g[k] = g[k - 1]
        /\ g[k - 1].code = "Ok" /\ null(k) =>
             g[k].code = "InvalidArgument" /\ g[k].projection = p
        /\ g[k - 1].code = "Ok" /\ ~null(k) /\ ~met(k) =>
             g[k].code = "SyncUnresolved" /\ g[k].projection = p
        /\ g[k - 1].code = "Ok" /\ ~null(k) /\ met(k) => g[k] = g[k - 1]
    <3>1. \A code : /\ Reject(g[k - 1], code).code = code
                    /\ Reject(g[k - 1], code).projection = g[k - 1].projection
      BY <2>3 DEF Reject, LoopStates
    <3>2. ~null(k) => (met(k) <=> ~(p[waits[k].on] < waits[k].min))
      BY <1>3
    <3> HIDE DEF met
    <3>3. QED
      BY <2>2, <2>3, <3>1, <3>2 DEF CheckWait
  <2> HIDE DEF null, met
  <2>5. Come(k)
    <3>1. g[k].projection = p
      BY <2>2, <2>4
    <3>2. g[k].code = "Ok" <=> \A i \in 1 .. k : ~null(i) /\ met(i)
      BY <2>1, <2>2, <2>4
    <3>3. g[k].code = "SyncUnresolved" <=>
            \E i \in 1 .. k : ~null(i) /\ ~met(i) /\ \A j \in 1 .. i - 1 : ~null(j)
      <4>1. CASE g[k - 1].code = "Ok"
        BY <2>1, <2>2, <2>4, <4>1
      <4>2. CASE g[k - 1].code # "Ok"
        <5>1. PICK i \in 1 .. k - 1 : ~(~null(i) /\ met(i))
          BY <2>2, <4>2
        <5>2. g[k].code = "SyncUnresolved" <=> g[k - 1].code = "SyncUnresolved"
          BY <2>4, <4>2
        <5>3. ASSUME ~null(k), ~met(k), \A j \in 1 .. k - 1 : ~null(j)
              PROVE  \E m \in 1 .. k - 1 : ~null(m) /\ ~met(m) /\ \A j \in 1 .. m - 1 : ~null(j)
          <6>1. ~null(i) /\ ~met(i) /\ 1 .. i - 1 \subseteq 1 .. k - 1
            BY <2>1, <5>1, <5>3
          <6>2. QED
            BY <5>3, <6>1
        <5>4. QED
          BY <2>1, <2>2, <5>2, <5>3
      <4>3. QED
        BY <4>1, <4>2
    <3>4. QED
      BY <3>1, <3>2, <3>3
  <2>6. QED
    BY <2>1, <2>5
<1>7. n \in T
  <2> HIDE DEF T
  <2>1. \A k \in 0 .. n : k \in T
    BY <1>1, <1>5, <1>6, Induct
  <2>2. n \in 0 .. n
    BY <1>1
  <2>3. QED
    BY <2>1, <2>2
<1>8. g[n] \in LoopStates
  BY <1>1, <1>4
<1>9. QED
  BY <1>1, <1>4, <1>7, <1>8 DEF waits

(* What is visible of counter c after the first k signals of submission s. *)
Seen(c, s, k, before) ==
  Visible(c, before) \cup {s.signals[j].value : j \in {m \in 1 .. k : s.signals[m].on = c}}

(* The loop over the signals comes to a projection of all of them, or to   *)
(* the code of one that is null or regresses.                              *)
LEMMA SignalLoop ==
  ASSUME value \in [Counters -> Nat], NEW s \in Submissions, NEW before \in Seq(Submissions),
         NEW p, Projects(p, before), NEW st \in LoopStates, st = [code |-> "Ok", projection |-> p]
  PROVE  LET r == AfterSignals(st, s.signals) IN
         \/ /\ r.code = "Ok" /\ r.projection \in [Counters -> Nat]
            /\ \A i \in DOMAIN s.signals : s.signals[i].on # Null /\ SignalKept(s, i, before)
            /\ \A c \in Counters :
                 /\ r.projection[c] \in Seen(c, s, Len(s.signals), before)
                 /\ \A v \in Seen(c, s, Len(s.signals), before) : v <= r.projection[c]
         \/ /\ r.code = "InvalidArgument"
            /\ \E i \in DOMAIN s.signals : s.signals[i].on = Null \/ ~SignalKept(s, i, before)
<1> DEFINE signals == s.signals
           n == Len(signals)
           good(i) == s.signals[i].on # Null /\ SignalKept(s, i, before)
<1>1. signals \in Seq(Signals) /\ n \in Nat /\ DOMAIN signals = 1 .. n
  BY SubmissionType, LenProperties DEF Signals
<1>2. \A i \in 1 .. n : signals[i] \in Signals
  BY <1>1, ElementOfSeq
<1>3. \A c \in Counters : \A v \in Visible(c, before) : v \in Nat
  BY VisibleNumbers
<1> HIDE DEF n
<1>4. PICK g \in [0 .. n -> LoopStates] :
        /\ g[0] = st /\ g[n] = AfterSignals(st, signals)
        /\ \A k \in 1 .. n : g[k] = CheckSignal(g[k - 1], signals[k])
  <2> HIDE DEF signals
  <2>1. QED
    BY <1>1, SignalWalk DEF n
<1> DEFINE Largest(k) ==
             \A c \in Counters :
               /\ g[k].projection[c] \in Seen(c, s, k, before)
               /\ \A v \in Seen(c, s, k, before) : v <= g[k].projection[c]
           Come(k) ==
             \/ g[k].code = "Ok" /\ (\A i \in 1 .. k : good(i)) /\ Largest(k)
             \/ g[k].code = "InvalidArgument" /\ \E i \in 1 .. k : ~good(i)
           T == {k \in 0 .. n : Come(k)}
<1>5. 0 \in T
  <2>1. g[0].projection = p /\ g[0].code = "Ok" /\ 1 .. 0 = {} /\ 0 \in 0 .. n
    BY <1>1, <1>4
  <2>2. \A c \in Counters : Seen(c, s, 0, before) = Visible(c, before)
    BY <2>1 DEF Seen
  <2>3. Largest(0)
    BY <2>1, <2>2 DEF Projects
  <2>4. QED
    BY <2>1, <2>3
<1>6. ASSUME NEW k \in 1 .. n, k - 1 \in T
      PROVE  k \in T
  <2>1. /\ k \in Nat \ {0} /\ k \in 0 .. n /\ k - 1 \in 0 .. n
        /\ 1 .. k = (1 .. k - 1) \cup {k} /\ k \in 1 .. k
    BY <1>1
  <2>2. g[k] = CheckSignal(g[k - 1], signals[k]) /\ g[k - 1] \in LoopStates
    BY <1>4, <2>1
  <2>3. signals[k].on \in Counters \cup {Null} /\ signals[k].value \in Nat
    BY <1>2 DEF Signals
  <2>4. \A code : Reject(g[k - 1], code).code = code
    BY <2>2 DEF Reject, LoopStates
  <2>5. CASE g[k - 1].code # "Ok"
    <3>1. g[k - 1].code = "InvalidArgument" /\ \E i \in 1 .. k - 1 : ~good(i)
      BY <1>6, <2>5
    <3>2. g[k] = g[k - 1]
      BY <2>2, <2>5 DEF CheckSignal
    <3> HIDE DEF good
    <3>3. Come(k)
      BY <2>1, <3>1, <3>2
    <3>4. QED
      BY <2>1, <3>3
  <2>6. CASE g[k - 1].code = "Ok" /\ signals[k].on = Null
    <3>1. g[k].code = "InvalidArgument"
      BY <2>2, <2>4, <2>6 DEF CheckSignal
    <3>2. ~good(k)
      BY <2>6
    <3> HIDE DEF good
    <3>3. Come(k)
      BY <2>1, <3>1, <3>2
    <3>4. QED
      BY <2>1, <3>3
  <2>7. CASE g[k - 1].code = "Ok" /\ signals[k].on # Null
    <3> DEFINE on == signals[k].on
               seen == Seen(on, s, k - 1, before)
    <3>1. on \in Counters
      BY <2>3, <2>7
    <3>2. /\ \A i \in 1 .. k - 1 : good(i)
          /\ \A c \in Counters :
               /\ g[k - 1].projection[c] \in Seen(c, s, k - 1, before)
               /\ \A v \in Seen(c, s, k - 1, before) : v <= g[k - 1].projection[c]
      BY <1>6, <2>7
    <3>3. \A c \in Counters : \A v \in Seen(c, s, k - 1, before) : v \in Nat
      <4>1. \A j \in 1 .. k - 1 : s.signals[j].value \in Nat
        <5>1. \A j \in 1 .. k - 1 : j \in 1 .. n
          BY <1>1, <2>1
        <5>2. QED
          BY <1>2, <5>1 DEF Signals
      <4>2. QED
        BY <1>3, <4>1 DEF Seen
    <3>4. SignalKept(s, k, before) <=> \A v \in seen : v <= signals[k].value
      BY DEF SignalKept, Seen
    <3>5. SignalKept(s, k, before) <=> ~(signals[k].value < g[k - 1].projection[on])
      <4>1. g[k - 1].projection[on] \in seen /\ \A v \in seen : v <= g[k - 1].projection[on]
        BY <3>1, <3>2
      <4>2. \A v \in seen : v \in Nat
        BY <3>1, <3>3
      <4> HIDE DEF seen, on
      <4>3. QED
        BY <2>3, <3>4, <4>1, <4>2
    <3>6. CASE ~SignalKept(s, k, before)
      <4>1. g[k].code = "InvalidArgument"
        BY <2>2, <2>4, <2>7, <3>5, <3>6 DEF CheckSignal
      <4>2. ~good(k)
        BY <3>6
      <4> HIDE DEF good
      <4>3. Come(k)
        BY <2>1, <4>1, <4>2
      <4>4. QED
        BY <2>1, <4>3
    <3>7. CASE SignalKept(s, k, before)
      <4>1. g[k] = [g[k - 1] EXCEPT !.projection[on] = signals[k].value]
        BY <2>2, <2>7, <3>5, <3>7 DEF CheckSignal
      <4>2. /\ g[k].code = "Ok"
            /\ \A c \in Counters :
                 g[k].projection[c] = IF c = on THEN signals[k].value ELSE g[k - 1].projection[c]
        BY <2>2, <2>7, <4>1 DEF LoopStates
      <4>3. good(k)
        BY <2>7, <3>7
      <4>4. \A c \in Counters :
              Seen(c, s, k, before) = Seen(c, s, k - 1, before)
                                        \cup (IF c = on THEN {signals[k].value} ELSE {})
        BY <2>1 DEF Seen
      <4>5. Largest(k)
        <5> SUFFICES ASSUME NEW c \in Counters
                     PROVE  /\ g[k].projection[c] \in Seen(c, s, k, before)
                            /\ \A v \in Seen(c, s, k, before) : v <= g[k].projection[c]
          OBVIOUS
        <5>1. CASE c = on
          <6>1. g[k].projection[c] = signals[k].value /\ \A v \in seen : v <= signals[k].value
            BY <3>4, <3>7, <4>2, <5>1
          <6>2. Seen(c, s, k, before) = seen \cup {signals[k].value}
            BY <4>4, <5>1
          <6> HIDE DEF seen, on, signals
          <6>3. QED
            BY <2>3, <6>1, <6>2
        <5>2. CASE c # on
          BY <3>2, <4>2, <4>4, <5>2
        <5>3. QED
          BY <5>1, <5>2
      <4> HIDE DEF good, Largest
      <4>6. Come(k)
        BY <2>1, <3>2, <4>2, <4>3, <4>5
      <4>7. QED
        BY <2>1, <4>6
    <3>8. QED
      BY <3>6, <3>7
  <2>8. QED
    BY <2>5, <2>6, <2>7
<1>7. n \in T
  <2> HIDE DEF T
  <2>1. \A k \in 0 .. n : k \in T
    BY <1>1, <1>5, <1>6, Induct
  <2>2. n \in 0 .. n
    BY <1>1
  <2>3. QED
    BY <2>1, <2>2
<1>8. g[n] \in LoopStates /\ g[n].projection \in [Counters -> Nat]
  BY <1>1, <1>4 DEF LoopStates
<1>9. Come(n) /\ n = Len(s.signals) /\ g[n] = AfterSignals(st, s.signals)
      /\ DOMAIN s.signals = 1 .. n
  BY <1>1, <1>4, <1>7 DEF n
<1>10. QED
  BY <1>8, <1>9

(* What a loop over waits or signals makes of a state.                     *)
LEMMA LoopTypes ==
  ASSUME NEW st \in LoopStates, NEW s \in Submissions
  PROVE  /\ AfterWaits(st, s.waits) \in LoopStates
         /\ AfterSignals(st, s.signals) \in LoopStates
         /\ st.code # "Ok" => AfterSignals(st, s.signals) = st
<1> DEFINE waits == s.waits
           signals == s.signals
           m == Len(waits)
           n == Len(signals)
<1>1. /\ waits \in Seq(Waits) /\ m \in Nat /\ DOMAIN waits = 1 .. m
      /\ signals \in Seq(Signals) /\ n \in Nat /\ DOMAIN signals = 1 .. n
  BY SubmissionType, LenProperties DEF Waits, Signals
<1> HIDE DEF waits, signals, m, n
<1>2. /\ \A i \in 1 .. m : waits[i] \in Waits
      /\ \A i \in 1 .. n : signals[i] \in Signals
  BY <1>1, ElementOfSeq
<1>3. AfterWaits(st, waits) \in LoopStates
  <2>1. PICK g \in [0 .. m -> LoopStates] : g[m] = AfterWaits(st, waits)
    BY <1>1, WaitWalk DEF m
  <2>2. QED
    BY <1>1, <2>1
<1>4. PICK g \in [0 .. n -> LoopStates] :
        /\ g[0] = st /\ g[n] = AfterSignals(st, signals)
        /\ \A k \in 1 .. n : g[k] = CheckSignal(g[k - 1], signals[k])
  BY <1>1, SignalWalk DEF n
<1>5. AfterSignals(st, signals) \in LoopStates
  BY <1>1, <1>4
<1>6. ASSUME st.code # "Ok"
      PROVE  AfterSignals(st, signals) = st
  <2> DEFINE T == {k \in 0 .. n : g[k] = st}
  <2>1. 0 \in T
    BY <1>1, <1>4
  <2>2. ASSUME NEW k \in 1 .. n, k - 1 \in T
        PROVE  k \in T
    <3>1. g[k] = CheckSignal(st, signals[k])
      BY <1>4, <2>2
    <3>2. k \in 0 .. n
      BY <1>1
    <3>3. QED
      BY <1>6, <3>1, <3>2 DEF CheckSignal
  <2>3. \A k \in 0 .. n : k \in T
    <3> HIDE DEF T
    <3>1. QED
      BY <1>1, <2>1, <2>2, Induct
  <2>4. n \in 0 .. n
    BY <1>1
  <2>5. QED
    BY <1>4, <2>3, <2>4
<1>7. QED
  BY <1>3, <1>5, <1>6 DEF waits, signals

(* What one more submission makes visible.                                 *)
LEMMA VisibleNext ==
  ASSUME NEW s \in Submissions, NEW before \in Seq(Submissions), NEW c
  PROVE  Visible(c, Append(before, s)) = Seen(c, s, Len(s.signals), before)
<1> DEFINE after == Append(before, s)
           n == Len(before)
<1>1. /\ n \in Nat /\ DOMAIN before = 1 .. n /\ DOMAIN after = 1 .. n + 1
      /\ after[n + 1] = s /\ \A j \in 1 .. n : after[j] = before[j]
  BY AppendProperties, LenProperties
<1>2. DOMAIN s.signals = 1 .. Len(s.signals)
  BY SubmissionType, LenProperties
<1> HIDE DEF after, n
<1>3. 1 .. n + 1 = (1 .. n) \cup {n + 1}
  BY <1>1
<1> DEFINE of(x) == {x.signals[i].value : i \in {k \in DOMAIN x.signals : x.signals[k].on = c}}
<1>4. UNION {of(after[j]) : j \in DOMAIN after}
        = (UNION {of(before[j]) : j \in DOMAIN before}) \cup of(s)
  <2> HIDE DEF of
  <2>1. \A v : v \in UNION {of(after[j]) : j \in DOMAIN after}
                 <=> \E j \in DOMAIN after : v \in of(after[j])
    OBVIOUS
  <2>2. \A v : v \in UNION {of(before[j]) : j \in DOMAIN before}
                 <=> \E j \in DOMAIN before : v \in of(before[j])
    OBVIOUS
  <2>3. \A v : (\E j \in DOMAIN after : v \in of(after[j]))
                 <=> (\E j \in DOMAIN before : v \in of(before[j])) \/ v \in of(s)
    BY <1>1, <1>3
  <2> DEFINE A == UNION {of(after[j]) : j \in DOMAIN after}
             B == (UNION {of(before[j]) : j \in DOMAIN before}) \cup of(s)
  <2>4. \A v : v \in A <=> v \in B
    BY <2>1, <2>2, <2>3
  <2> HIDE DEF A, B
  <2>5. A = B
    BY <2>4
  <2>6. QED
    BY <2>5 DEF A, B
<1>5. Visible(c, after) = {value[c]} \cup UNION {of(after[j]) : j \in DOMAIN after}
  BY DEF Visible
<1>6. Visible(c, before) = {value[c]} \cup UNION {of(before[j]) : j \in DOMAIN before}
  BY DEF Visible
<1>7. Seen(c, s, Len(s.signals), before) = Visible(c, before) \cup of(s)
  BY <1>2 DEF Seen
<1>8. QED
  BY <1>4, <1>5, <1>6, <1>7 DEF after

(* One submission: the code of the loops is the verdict, and the loops     *)
(* have projected what comes next.                                         *)
LEMMA SubmissionLoop ==
  ASSUME value \in [Counters -> Nat], NEW s \in Submissions, NEW before \in Seq(Submissions),
         NEW st \in LoopStates, st.code = "Ok", Projects(st.projection, before)
  PROVE  /\ CheckSubmission(st, s).code = Verdict(s, before)
         /\ Verdict(s, before) = "Ok" =>
              Projects(CheckSubmission(st, s).projection, Append(before, s))
<1> DEFINE p == st.projection
           waited == AfterWaits(st, s.waits)
           done == AfterSignals(waited, s.signals)
           waits == \A i \in DOMAIN s.waits :
                      s.waits[i].on # Null /\ WaitMet(s.waits[i], before)
           signals == \A i \in DOMAIN s.signals :
                        s.signals[i].on # Null /\ SignalKept(s, i, before)
<1>1. st = [code |-> "Ok", projection |-> p]
  BY DEF LoopStates
<1>2. CASE ~s.commands
  <2>1. CheckSubmission(st, s).code = "InvalidArgument"
    BY <1>1, <1>2 DEF CheckSubmission, Reject
  <2>2. Verdict(s, before) = "InvalidArgument"
    BY <1>2 DEF Verdict, Valid, Unresolved
  <2>3. QED
    BY <2>1, <2>2
<1>3. CASE s.commands
  <2>1. CheckSubmission(st, s) = done
    BY <1>3 DEF CheckSubmission, AfterWaits, AfterSignals
  <2>2. /\ waited \in LoopStates /\ waited.projection = p
        /\ waited.code = "Ok" <=> waits
        /\ waited.code = "SyncUnresolved" <=> Unresolved(s, before)
    <3>1. Unresolved(s, before) <=>
            \E i \in DOMAIN s.waits :
              /\ s.waits[i].on # Null /\ ~WaitMet(s.waits[i], before)
              /\ \A j \in 1 .. i - 1 : s.waits[j].on # Null
      BY <1>3 DEF Unresolved
    <3>2. QED
      BY <1>1, <3>1, WaitLoop
  <2>3. Valid(s, before) <=> waits /\ signals
    BY <1>3 DEF Valid
  <2>4. CASE waited.code # "Ok"
    <3>1. done = waited /\ waited.code \in AnswerCodes
      BY <2>2, <2>4, LoopTypes DEF LoopStates
    <3> HIDE DEF waited, done, waits, signals
    <3>2. QED
      BY <2>1, <2>2, <2>3, <2>4, <3>1 DEF Verdict, AnswerCodes
  <2>5. CASE waited.code = "Ok"
    <3>1. waited = [code |-> "Ok", projection |-> p]
      BY <2>2, <2>5 DEF LoopStates
    <3>2. \/ /\ done.code = "Ok" /\ done.projection \in [Counters -> Nat] /\ signals
             /\ \A c \in Counters :
                  /\ done.projection[c] \in Seen(c, s, Len(s.signals), before)
                  /\ \A v \in Seen(c, s, Len(s.signals), before) : v <= done.projection[c]
          \/ done.code = "InvalidArgument" /\ ~signals
      <4> HIDE DEF waited
      <4>1. QED
        BY <2>2, <3>1, SignalLoop
    <3>3. waits /\ ~Unresolved(s, before)
      BY <2>2, <2>5
    <3> HIDE DEF waited, done, waits, signals
    <3>4. CASE done.code = "Ok" /\ signals
      <4>1. Verdict(s, before) = "Ok"
        BY <2>3, <3>3, <3>4 DEF Verdict
      <4>2. Projects(done.projection, Append(before, s))
        BY <3>2, <3>4, VisibleNext DEF Projects
      <4>3. QED
        BY <2>1, <3>4, <4>1, <4>2
    <3>5. CASE done.code = "InvalidArgument" /\ ~signals
      <4>1. Verdict(s, before) = "InvalidArgument"
        BY <2>3, <3>3, <3>5 DEF Verdict
      <4>2. QED
        BY <2>1, <3>5, <4>1
    <3>6. QED
      BY <3>2, <3>4, <3>5
  <2>6. QED
    BY <2>4, <2>5
<1>4. s.commands \in BOOLEAN
  <2>1. s \in SubmitInfo
    BY QueueAssumption
  <2>2. QED
    BY <2>1 DEF SubmitInfo
<1>5. QED
  BY <1>2, <1>3, <1>4

(* One round of the loop over a batch.                                     *)
LEMMA SubmissionRound ==
  \A st \in LoopStates, s \in Submissions : CheckSubmission(st, s) \in LoopStates
<1> SUFFICES ASSUME NEW st \in LoopStates, NEW s \in Submissions
             PROVE  CheckSubmission(st, s) \in LoopStates
  OBVIOUS
<1>1. AfterWaits(st, s.waits) \in LoopStates
  BY LoopTypes
<1>2. AfterSignals(AfterWaits(st, s.waits), s.signals) \in LoopStates
  BY <1>1, LoopTypes
<1>3. Reject(st, "InvalidArgument") \in LoopStates
  BY DEF Reject, LoopStates, AnswerCodes
<1>4. QED
  BY <1>2, <1>3 DEF CheckSubmission, AfterWaits, AfterSignals


(* The loop over a batch, one submission at a time.                        *)
LEMMA SubmissionWalk ==
  ASSUME NEW st \in LoopStates, NEW batch \in Seq(Submissions)
  PROVE  \E g \in [0 .. Len(batch) -> LoopStates] :
           /\ g[0] = st /\ g[Len(batch)] = Checked(st, batch)
           /\ \A k \in 1 .. Len(batch) : g[k] = CheckSubmission(g[k - 1], batch[k])
<1> DEFINE n == Len(batch)
           H == [p \in LoopStates \X (1 .. n) |-> CheckSubmission(p[1], batch[p[2]])]
           Body(G) == [s \in SUBSET (1 .. n) |->
                         IF s = {} THEN st
                         ELSE CheckSubmission(G[s \ {Max(s)}], batch[Max(s)])]
           F == CHOOSE G : G = Body(G)
<1>0. n \in Nat /\ DOMAIN batch = 1 .. n /\ \A i \in 1 .. n : batch[i] \in Submissions
  BY ElementOfSeq, LenProperties
<1> HIDE DEF n
<1>1. /\ H \in [LoopStates \X (1 .. n) -> LoopStates] /\ st \in LoopStates
      /\ \A a \in LoopStates, k \in 1 .. n : H[<<a, k>>] = CheckSubmission(a, batch[k])
  BY <1>0, SubmissionRound
<1>2. Checked(st, batch) = F[1 .. n]
  BY <1>0 DEF Checked, FoldLeft, MapThenFoldSet
<1> HIDE DEF H
<1>3. PICK G \in [SUBSET (1 .. n) -> LoopStates] : Folding(G, LoopStates, st, n, H)
  BY <1>0, <1>1, FoldExists
<1>4. G = Body(G)
  <2>1. \A s \in SUBSET (1 .. n) : s # {} =>
          G[s] = CheckSubmission(G[s \ {Max(s)}], batch[Max(s)])
    BY <1>0, <1>1, <1>3, LastOfSome DEF Folding
  <2>2. QED
    BY <1>3, <2>1 DEF Folding
<1>5. F = Body(F)
  <2> HIDE DEF Body
  <2>1. QED
    BY <1>4
<1> HIDE DEF F
<1>6. /\ F[{}] = st
      /\ \A s \in SUBSET (1 .. n) :
           s # {} => F[s] = CheckSubmission(F[s \ {Max(s)}], batch[Max(s)])
  BY <1>5
<1>7. Folding(F, LoopStates, st, n, H)
  BY <1>0, <1>1, <1>6, LastOfSome DEF Folding
<1>8. PICK g \in [0 .. n -> LoopStates] : Walk(g, F[1 .. n], st, n, H)
  BY <1>0, <1>1, <1>7, FoldSteps
<1>9. ASSUME NEW k \in 1 .. n
      PROVE  g[k] = CheckSubmission(g[k - 1], batch[k])
  <2>1. g[k - 1] \in LoopStates
    BY <1>0
  <2>2. QED
    BY <1>1, <1>8, <2>1 DEF Walk
<1>10. QED
  BY <1>2, <1>8, <1>9 DEF Walk, n

(* Nothing before: the counters have what they have.                       *)
LEMMA ProjectsNow ==
  ASSUME value \in [Counters -> Nat]
  PROVE  Projects(value, <<>>)
<1>1. \A c : Visible(c, <<>>) = {value[c]}
  BY DEF Visible
<1>2. QED
  BY <1>1 DEF Projects

(* A prefix of a batch and the submission after it.                        *)
LEMMA BatchPrefix ==
  ASSUME NEW batch \in Seq(Submissions), NEW k \in 1 .. Len(batch)
  PROVE  /\ SubSeq(batch, 1, k - 1) \in Seq(Submissions)
         /\ SubSeq(batch, 1, k) = Append(SubSeq(batch, 1, k - 1), batch[k])
<1>1. /\ Len(batch) \in Nat /\ DOMAIN batch = 1 .. Len(batch) /\ k \in Nat \ {0}
      /\ k <= Len(batch) /\ k - 1 \in Nat
  OBVIOUS
<1>2. \A i \in 1 .. Len(batch) : batch[i] \in Submissions
  BY <1>1, ElementOfSeq
<1> DEFINE before == SubSeq(batch, 1, k - 1)
<1>3. before \in Seq(Submissions) /\ Len(before) = k - 1
      /\ \A i \in 1 .. k - 1 : before[i] = batch[i]
  BY <1>1, <1>2
<1>4. SubSeq(batch, 1, k) \in Seq(Submissions) /\ Len(SubSeq(batch, 1, k)) = k
      /\ \A i \in 1 .. k : SubSeq(batch, 1, k)[i] = batch[i]
  BY <1>1, <1>2
<1> HIDE DEF before
<1>5. batch[k] \in Submissions
  BY <1>2
<1> DEFINE after == Append(before, batch[k])
<1>6. /\ after \in Seq(Submissions) /\ Len(after) = k
      /\ after[k] = batch[k] /\ \A i \in 1 .. k - 1 : after[i] = batch[i]
  BY <1>1, <1>3, <1>5, AppendProperties
<1> HIDE DEF after
<1>7. \A i \in 1 .. k : after[i] = SubSeq(batch, 1, k)[i]
  <2>1. \A i \in 1 .. k : i = k \/ i \in 1 .. k - 1
    BY <1>1
  <2>2. QED
    BY <1>4, <1>6, <2>1
<1>8. after = SubSeq(batch, 1, k)
  BY <1>4, <1>6, <1>7, SeqEqual
<1>9. QED
  BY <1>3, <1>8 DEF before, after

(* The code of the batch is that of its first defective submission.        *)
LEMMA FirstDefect ==
  ASSUME NEW batch \in Seq(Submissions)
  PROVE  /\ (\A j \in DOMAIN batch : VerdictAt(batch, j) = "Ok") => BatchVerdict(batch) = "Ok"
         /\ \A k \in DOMAIN batch :
              /\ VerdictAt(batch, k) # "Ok"
              /\ \A j \in 1 .. k - 1 : VerdictAt(batch, j) = "Ok"
              => BatchVerdict(batch) = VerdictAt(batch, k)
<1> DEFINE defective == {k \in DOMAIN batch : VerdictAt(batch, k) # "Ok"}
<1>1. BatchVerdict(batch) = IF defective = {} THEN "Ok" ELSE VerdictAt(batch, Min(defective))
  BY DEF BatchVerdict
<1>2. ASSUME NEW k \in DOMAIN batch, VerdictAt(batch, k) # "Ok",
             \A j \in 1 .. k - 1 : VerdictAt(batch, j) = "Ok"
      PROVE  BatchVerdict(batch) = VerdictAt(batch, k)
  <2>1. k \in defective /\ defective \in SUBSET Nat /\ defective # {}
    BY <1>2
  <2>2. Min(defective) \in defective /\ \A i \in defective : Min(defective) <= i
    <3> HIDE DEF defective
    <3>1. QED
      BY <2>1, FirstPosition
  <2>3. Min(defective) <= k /\ Min(defective) \notin 1 .. k - 1
        /\ Min(defective) \in Nat \ {0} /\ k \in Nat \ {0}
    BY <1>2, <2>1, <2>2
  <2>4. Min(defective) = k
    BY <2>3
  <2>5. QED
    BY <1>1, <2>1, <2>4
<1>3. QED
  BY <1>1, <1>2

(* The loop over a batch comes to the code of its first defective          *)
(* submission, or to no defect and a projection of the whole batch.        *)
LEMMA BatchLoop ==
  ASSUME value \in [Counters -> Nat], NEW batch \in Seq(Submissions)
  PROVE  LoopVerdict(batch) = BatchVerdict(batch)
<1> DEFINE n == Len(batch)
           st == [code |-> "Ok", projection |-> value]
<1>1. /\ n \in Nat /\ DOMAIN batch = 1 .. n
      /\ \A i \in 1 .. n : batch[i] \in Submissions
  BY ElementOfSeq, LenProperties
<1>2. st \in LoopStates
  BY DEF LoopStates, AnswerCodes
<1>3. LoopVerdict(batch) = Checked(st, batch).code
  BY DEF LoopVerdict, Checked
<1>4. SubSeq(batch, 1, 0) = <<>>
  BY SubSeqEmpty
<1>5. \A k \in 1 .. n : /\ SubSeq(batch, 1, k - 1) \in Seq(Submissions)
                        /\ SubSeq(batch, 1, k) = Append(SubSeq(batch, 1, k - 1), batch[k])
  BY BatchPrefix
<1> HIDE DEF n
<1>6. PICK g \in [0 .. n -> LoopStates] :
        /\ g[0] = st /\ g[n] = Checked(st, batch)
        /\ \A k \in 1 .. n : g[k] = CheckSubmission(g[k - 1], batch[k])
  <2> HIDE DEF st
  <2>1. QED
    BY <1>2, SubmissionWalk DEF n
<1> DEFINE Come(k) ==
             \/ /\ g[k].code = "Ok" /\ \A j \in 1 .. k : VerdictAt(batch, j) = "Ok"
                /\ Projects(g[k].projection, SubSeq(batch, 1, k))
             \/ \E i \in 1 .. k :
                  /\ g[k].code = VerdictAt(batch, i) /\ g[k].code # "Ok"
                  /\ \A j \in 1 .. i - 1 : VerdictAt(batch, j) = "Ok"
           T == {k \in 0 .. n : Come(k)}
<1>7. 0 \in T
  <2>1. g[0].code = "Ok" /\ g[0].projection = value /\ 1 .. 0 = {} /\ 0 \in 0 .. n
    BY <1>1, <1>6
  <2>2. Projects(g[0].projection, SubSeq(batch, 1, 0))
    BY <1>4, <2>1, ProjectsNow
  <2>3. QED
    BY <2>1, <2>2
<1>8. ASSUME NEW k \in 1 .. n, k - 1 \in T
      PROVE  k \in T
  <2>1. /\ k \in Nat \ {0} /\ k \in 0 .. n /\ k - 1 \in 0 .. n
        /\ 1 .. k = (1 .. k - 1) \cup {k} /\ k \in 1 .. k
    BY <1>1
  <2>2. g[k] = CheckSubmission(g[k - 1], batch[k]) /\ g[k - 1] \in LoopStates
    BY <1>6, <2>1
  <2>3. CASE g[k - 1].code # "Ok"
    <3>1. PICK i \in 1 .. k - 1 :
            /\ g[k - 1].code = VerdictAt(batch, i)
            /\ \A j \in 1 .. i - 1 : VerdictAt(batch, j) = "Ok"
      BY <1>8, <2>3
    <3>2. g[k] = g[k - 1]
      BY <2>2, <2>3 DEF CheckSubmission
    <3>3. i \in 1 .. k
      BY <2>1
    <3>4. Come(k)
      BY <2>3, <3>1, <3>2, <3>3
    <3>5. QED
      BY <2>1, <3>4
  <2>4. CASE g[k - 1].code = "Ok"
    <3>1. /\ \A j \in 1 .. k - 1 : VerdictAt(batch, j) = "Ok"
          /\ Projects(g[k - 1].projection, SubSeq(batch, 1, k - 1))
      BY <1>8, <2>4
    <3>2. /\ batch[k] \in Submissions /\ SubSeq(batch, 1, k - 1) \in Seq(Submissions)
          /\ SubSeq(batch, 1, k) = Append(SubSeq(batch, 1, k - 1), batch[k])
      BY <1>1, <1>5
    <3>3. /\ g[k].code = VerdictAt(batch, k)
          /\ VerdictAt(batch, k) = "Ok" => Projects(g[k].projection, SubSeq(batch, 1, k))
      <4>1. VerdictAt(batch, k) = Verdict(batch[k], SubSeq(batch, 1, k - 1))
        BY DEF VerdictAt
      <4>2. /\ g[k].code = Verdict(batch[k], SubSeq(batch, 1, k - 1))
            /\ Verdict(batch[k], SubSeq(batch, 1, k - 1)) = "Ok" =>
                 Projects(g[k].projection, Append(SubSeq(batch, 1, k - 1), batch[k]))
        <5> DEFINE before == SubSeq(batch, 1, k - 1)
        <5>1. before \in Seq(Submissions) /\ Projects(g[k - 1].projection, before)
          BY <3>1, <3>2
        <5> HIDE DEF before
        <5>2. /\ CheckSubmission(g[k - 1], batch[k]).code = Verdict(batch[k], before)
              /\ Verdict(batch[k], before) = "Ok" =>
                   Projects(CheckSubmission(g[k - 1], batch[k]).projection,
                            Append(before, batch[k]))
          BY <2>2, <2>4, <3>2, <5>1, SubmissionLoop
        <5>3. QED
          BY <2>2, <5>2 DEF before
      <4>3. QED
        BY <3>2, <4>1, <4>2
    <3>4. Come(k)
      BY <2>1, <3>1, <3>3
    <3>5. QED
      BY <2>1, <3>4
  <2>5. QED
    BY <2>3, <2>4
<1>9. Come(n)
  <2> HIDE DEF T
  <2>1. \A k \in 0 .. n : k \in T
    BY <1>1, <1>7, <1>8, Induct
  <2>2. n \in 0 .. n
    BY <1>1
  <2>3. n \in T
    BY <2>1, <2>2
  <2>4. QED
    BY <2>3 DEF T
<1>10. QED
  BY <1>1, <1>3, <1>6, <1>9, FirstDefect

(* Whatever the queues hold and whatever value the timelines and fences    *)
(* have, submit and submit_batch get the code that the loops of the        *)
(* validation compute, with their projection maps and early returns.       *)
THEOREM VerdictsAreLoops == Spec => []VerdictIsLoop
<1>1. TypeOK => VerdictIsLoop
  <2> SUFFICES ASSUME TypeOK
               PROVE  VerdictIsLoop
    OBVIOUS
  <2>1. value \in [Counters -> Nat]
    BY DEF TypeOK
  <2>2. ASSUME NEW s \in Submissions
        PROVE  Verdict(s, <<>>) = LoopVerdict(<<s>>)
    <3>1. <<s>> \in Seq(Submissions) /\ DOMAIN <<s>> = {1} /\ <<s>>[1] = s
      OBVIOUS
    <3>2. SubSeq(<<s>>, 1, 1 - 1) = <<>>
      BY SubSeqEmpty
    <3>3. VerdictAt(<<s>>, 1) = Verdict(s, <<>>)
      BY <3>1, <3>2 DEF VerdictAt
    <3>4. BatchVerdict(<<s>>) = VerdictAt(<<s>>, 1)
      <4>1. 1 .. 1 - 1 = {}
        OBVIOUS
      <4>2. QED
        BY <3>1, <4>1, FirstDefect
    <3>5. LoopVerdict(<<s>>) = BatchVerdict(<<s>>)
      BY <2>1, <3>1, BatchLoop
    <3>6. QED
      BY <3>3, <3>4, <3>5
  <2>3. ASSUME NEW batch \in Batches
        PROVE  BatchVerdict(batch) = LoopVerdict(batch)
    <3>1. batch \in Seq(Submissions)
      BY QueueAssumption
    <3>2. QED
      BY <2>1, <3>1, BatchLoop
  <2>4. QED
    BY <2>2, <2>3 DEF VerdictIsLoop
<1>2. QED
  BY <1>1, OrderAnyClient, PTL
=============================================================================
