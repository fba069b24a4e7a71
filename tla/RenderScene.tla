----------------------------- MODULE RenderScene -----------------------------
(***************************************************************************)
(* engine/render and engine/tiles before the frame: the last snapshot that *)
(* the tiles put in RenderSnapshotCache, the plan made of it, and the      *)
(* SceneMaterialPipelineCache that theme events invalidate.                *)
(***************************************************************************)
EXTENDS FramePlan

CONSTANTS
  Null,          \* no snapshot
  Snapshots,     \* the MapRenderSnapshot values the tiles make
  Revisions,     \* the pairs of revisions: CacheInvalidationState
  FirstRevision, \* {0, 0}
  Keys,          \* the material names
  States,        \* what is asked of a material: blend mode and depth test
  MaxLookups     \* bound: the materials that are resolved

(* A batch of a snapshot: a tile or an overlay, and how much it draws.     *)
RenderBatches == [id : Nat, drawable_count : 0 .. DrawCounts - 1]

MapRenderSnapshots == [render_background : BOOLEAN,
                       tile_batches      : Seq(RenderBatches),
                       overlay_batches   : Seq(RenderBatches)]

ASSUME SceneAssumption ==
  /\ Snapshots \subseteq MapRenderSnapshots
  /\ Null \notin Snapshots
  /\ FirstRevision \in Revisions
  /\ MaxLookups \in Nat

VARIABLES
  latest,     \* latest_snapshot_
  plan,       \* the plan of the frame that is being made
  planned,    \* history: the snapshot that plan was made of
  materials,  \* materials_: a function on the keys in the cache
  revision,   \* current_state_
  hits,       \* cache_hits_
  misses,     \* cache_misses_
  announced,  \* history: the revisions of the last theme event
  inserted    \* history: the announced ones when each key in the cache came in

cache == <<materials, revision, hits, misses, announced, inserted>>
vars == <<latest, plan, planned, cache>>

Init ==
  /\ latest = Null
  /\ plan = <<>>
  /\ planned = Null
  /\ materials = <<>>
  /\ revision = FirstRevision
  /\ hits = 0
  /\ misses = 0
  /\ announced = FirstRevision
  /\ inserted = <<>>

PutSnapshot(snapshot) ==
  /\ latest' = snapshot
  /\ UNCHANGED <<plan, planned, cache>>

(* latest_snapshot returns a copy: later snapshots do not change the plan. *)
MakePlan ==
  /\ latest # Null
  /\ plan' = PlanOfScene(SceneOfSnapshot(latest))
  /\ planned' = latest
  /\ UNCHANGED <<latest, cache>>

InvalidateAll ==
  /\ materials' = <<>>
  /\ inserted' = <<>>
  /\ UNCHANGED <<latest, plan, planned, revision, hits, misses, announced>>

(* A variant of InvalidateIfNeeded that compares only style_revision.     *)
InvalidateForStyle(event) ==
  /\ announced' = event
  /\ IF event[1] = revision[1]
     THEN UNCHANGED <<materials, inserted, revision>>
     ELSE materials' = <<>> /\ inserted' = <<>> /\ revision' = event
  /\ UNCHANGED <<latest, plan, planned, hits, misses>>

(* A theme event: any pair of revisions, an older one too.                 *)
InvalidateIfNeeded(event) ==
  /\ announced' = event
  /\ IF event = revision
     THEN UNCHANGED <<materials, inserted, revision>>
     ELSE materials' = <<>> /\ inserted' = <<>> /\ revision' = event
  /\ UNCHANGED <<latest, plan, planned, hits, misses>>

(* A map with x at key: emplace, where key is not in the map.              *)
With(map, key, x) == [k \in DOMAIN map \cup {key} |-> IF k = key THEN x ELSE map[k]]

(* A variant of ResolveMaterial that replaces what it finds.               *)
ResolveAnew(key, state) ==
  /\ hits + misses < MaxLookups
  /\ misses' = misses + 1
  /\ materials' = With(materials, key, state)
  /\ inserted' = With(inserted, key, announced)
  /\ UNCHANGED <<latest, plan, planned, revision, hits, announced>>

(* Only the key is looked up.                                              *)
ResolveMaterial(key, state) ==
  /\ hits + misses < MaxLookups
  /\ \/ /\ key \in DOMAIN materials
        /\ hits' = hits + 1
        /\ UNCHANGED <<materials, misses, inserted>>
     \/ /\ key \notin DOMAIN materials
        /\ misses' = misses + 1
        /\ materials' = With(materials, key, state)
        /\ inserted' = With(inserted, key, announced)
        /\ UNCHANGED hits
  /\ UNCHANGED <<latest, plan, planned, revision, announced>>

Next ==
  \/ \E snapshot \in Snapshots : PutSnapshot(snapshot)
  \/ MakePlan
  \/ InvalidateAll
  \/ \E event \in Revisions : InvalidateIfNeeded(event)
  \/ \E key \in Keys, state \in States : ResolveMaterial(key, state)

Spec == Init /\ [][Next]_vars

-----------------------------------------------------------------------------
(* PROPERTIES                                                              *)

(* No plan made of a snapshot has a pass that run_basic_frame refuses, and *)
(* no pass comes twice or out of the order background, tiles, overlays,    *)
(* though the draw counts are added in 32 bits.                            *)
Layer == [Background |-> 1, Tiles |-> 2, Overlays |-> 3]

PlanRunnable ==
  /\ \A i \in DOMAIN plan : IsValidPass(plan[i])
  /\ \A i, j \in DOMAIN plan :
       i < j => Layer[plan[i].pass_type] < Layer[plan[j].pass_type]

(* As long as the draws of a layer can be counted, its pass draws all of   *)
(* them, and there is one exactly when there is something to draw.         *)
Drawables(batches) == FoldLeft(LAMBDA sum, batch : sum + batch.drawable_count, 0, batches)

Drawn(type) ==
  FoldLeft(LAMBDA sum, pass : sum + (IF pass.pass_type = type THEN pass.draw_calls ELSE 0),
           0, plan)

PlanComplete ==
  planned # Null =>
    /\ Drawables(planned.tile_batches) < DrawCounts =>
         Drawn("Tiles") = Drawables(planned.tile_batches)
    /\ Drawables(planned.overlay_batches) < DrawCounts =>
         Drawn("Overlays") = Drawables(planned.overlay_batches)
    /\ Drawn("Background") = IF planned.render_background THEN 1 ELSE 0

(* Every material in the cache came in at the revisions the last event     *)
(* announced: none outlives the event that replaced its theme or style,    *)
(* also when events come back to an earlier revision.                      *)
CacheOfRevision ==
  /\ DOMAIN inserted = DOMAIN materials
  /\ \A key \in DOMAIN inserted : inserted[key] = announced

(* Between two invalidations a material keeps what it was first resolved   *)
(* with, so a reference that resolve_material returned stays what it was.  *)
MaterialsKept ==
  [][\A key \in DOMAIN materials :
       \/ key \in DOMAIN materials' /\ materials'[key] = materials[key]
       \/ materials' = <<>>]_vars
=============================================================================
