------------------------------ MODULE FramePlan ------------------------------
(***************************************************************************)
(* engine/render: the frame plans, from the default or from a snapshot of  *)
(* the tiles cache, and what run_basic_frame asks of their passes.  A      *)
(* material is its name, "" for none.                                      *)
(***************************************************************************)
EXTENDS Naturals, SequencesExt

CONSTANT DrawCounts   \* 2^32: one more than the largest std::uint32_t

ASSUME FramePlanAssumption == DrawCounts \in Nat \ {0}

Material == [Background |-> "background.base",
             Tiles      |-> "tiles.standard",
             Overlays   |-> "overlays.alpha"]

Passes == [pass_type : DOMAIN Material, material : STRING, draw_calls : 0 .. DrawCounts - 1]

PassDescriptor(type, draws) ==
  [pass_type |-> type, material |-> Material[type], draw_calls |-> draws]

IsValidPass(pass) == pass.draw_calls > 0 /\ pass.material # ""

DefaultPlan ==
  << PassDescriptor("Background", 1), PassDescriptor("Tiles", 2), PassDescriptor("Overlays", 1) >>

(* A variant of DrawCount that counts the batches.                         *)
DrawCountBatches(batches) == Len(batches) % DrawCounts

(* The draws of the batches are added in 32 bits.                          *)
DrawCount(batches) ==
  FoldLeft(LAMBDA sum, batch : (sum + batch.draw_items) % DrawCounts, 0, batches)

(* A variant of PassOf that makes a pass of nothing.                       *)
PassOfNothing(type, draws) == << PassDescriptor(type, draws) >>

PassOf(type, draws) == IF draws > 0 THEN << PassDescriptor(type, draws) >> ELSE <<>>

PlanOfScene(scene) ==
  PassOf("Background", IF scene.render_background THEN 1 ELSE 0)
    \o PassOf("Tiles", DrawCount(scene.tile_batches))
    \o PassOf("Overlays", DrawCount(scene.overlay_batches))

(* build_scene_render_data_from_tiles_snapshot keeps the batches in order  *)
(* and leaves the revisions behind.                                        *)
SceneOfSnapshot(snapshot) ==
  LET items(batches) ==
        [i \in DOMAIN batches |-> [id |-> batches[i].id, draw_items |-> batches[i].drawable_count]]
  IN  [render_background |-> snapshot.render_background,
       tile_batches      |-> items(snapshot.tile_batches),
       overlay_batches   |-> items(snapshot.overlay_batches)]
=============================================================================
