----------------------------- MODULE MCGfxQueue -----------------------------
(* Model checking of GfxQueue: two queues that share one timeline and one  *)
(* fence, values up to 2.                                                  *)
EXTENDS QueueValidation

CONSTANTS Line, Fence, MaxSubmissions

Wait(x, m) == [on |-> x, min |-> m]
Signal(x, v) == [on |-> x, value |-> v]
Info(w, g) == [commands |-> TRUE, waits |-> w, signals |-> g]

(* Waits and signals of a chain, a signal list that regresses within one   *)
(* submission and one that signals twice, and every null.                  *)
MCSubmissions ==
  {Info(w, g) : w \in {<<>>, <<Wait(Line, 2)>>},
                g \in {<<>>, <<Signal(Line, 1)>>, <<Signal(Line, 1), Signal(Line, 2)>>,
                       <<Signal(Line, 2), Signal(Fence, 1)>>}}
  \cup {Info(<<>>, <<Signal(Fence, 1)>>),
        Info(<<>>, <<Signal(Fence, 2)>>),
        Info(<<>>, <<Signal(Line, 2), Signal(Line, 1)>>),
        Info(<<>>, <<Signal(Null, 1)>>),
        Info(<<Wait(Line, 1), Wait(Null, 1)>>, <<>>),
        [Info(<<>>, <<>>) EXCEPT !.commands = FALSE]}

MCBatches == {<<>>} \cup (MCSubmissions \X MCSubmissions)

(* The bound: how many submissions the queues accept in a behaviour.       *)
InBound == MapThenSumSet(LAMBDA q : Len(accepted[q]), Queues) <= MaxSubmissions

OwnedClient == Init /\ [][OwnedNext /\ InBound']_vars
=============================================================================
