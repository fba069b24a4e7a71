---------------------------- MODULE MCRenderScene ----------------------------
(* Model checking of RenderScene: layers of up to two batches whose draws  *)
(* may pass the largest count, 3.                                          *)
EXTENDS RenderScene

Draws(d) == [id |-> 1, drawable_count |-> d]
Batches == UNION { [1 .. n -> {Draws(0), Draws(1), Draws(3)}] : n \in 0 .. 2 }
SomeBatches == { <<>>, <<Draws(1)>>, <<Draws(3), Draws(1)>> }

MCSnapshots ==
  [render_background : BOOLEAN, tile_batches : SomeBatches, overlay_batches : SomeBatches]
  \cup [render_background : {TRUE}, tile_batches : Batches, overlay_batches : {<<>>}]

MCRevisions == {<<0, 0>>, <<1, 0>>, <<1, 1>>}
MCFirstRevision == <<0, 0>>
=============================================================================
