--------------------------- MODULE MCFrameRenderer ---------------------------
(* Model checking of FrameRenderer: one queue, one timeline, two encoders. *)
EXTENDS FrameRenderer

CONSTANTS Line, MaxSubmissions

(* A plain submission, which is also a frame's, one that signals and one   *)
(* that may wait in vain.                                                  *)
MCSubmissions ==
  {FrameSubmission,
   [FrameSubmission EXCEPT !.signals = <<[on |-> Line, value |-> 1]>>],
   [FrameSubmission EXCEPT !.waits = <<[on |-> Line, min |-> 1]>>]}

(* The default plan, the plan of a scene with nothing in it, and two that  *)
(* no builder makes: a last pass without material, and one without draws.  *)
Nothing == [render_background |-> FALSE, tile_batches |-> <<>>, overlay_batches |-> <<>>]
Unnamed == [pass_type |-> "Overlays", material |-> "", draw_calls |-> 1]

MCPlans ==
  {DefaultPlan, PlanOfScene(Nothing),
   <<PassDescriptor("Background", 1), Unnamed>>, <<PassDescriptor("Tiles", 0)>>}

(* The bound: the application submits nothing more once the queues have    *)
(* accepted this many; the frames, one per encoder, are not bounded.       *)
InBound == MapThenSumSet(LAMBDA q : Len(accepted[q]), Queues) <= MaxSubmissions
Bounded == Running("idle") => InBound' \/ UNCHANGED accepted

AnyClient == FrameInit /\ [][FrameNext /\ Bounded]_frameVars
=============================================================================
