-------------------------- MODULE RenderScene_proofs --------------------------
(***************************************************************************)
(* Theorems about RenderScene for any snapshots, materials and revisions,  *)
(* and their proofs.                                                       *)
(***************************************************************************)
EXTENDS RenderScene, PositionFacts, TLAPS

-----------------------------------------------------------------------------
(* THE CACHE.  The cache follows the last event: the revision it compares  *)
(* the next event with is the one last announced.                          *)
CacheInv == CacheOfRevision /\ announced = revision

(* Each lookup and each event keeps the cache of one revision.             *)
LEMMA CacheStep == CacheInv /\ [Next]_vars => CacheInv'
<1> SUFFICES ASSUME CacheInv, [Next]_vars
             PROVE  CacheInv'
  OBVIOUS
<1> USE DEF CacheInv, CacheOfRevision
<1>1. ASSUME UNCHANGED <<materials, inserted, announced, revision>>
      PROVE  CacheInv'
  BY <1>1
<1>2. ASSUME materials' = <<>>, inserted' = <<>>, announced' = revision'
      PROVE  CacheInv'
  BY <1>2
<1>3. CASE (\E snapshot \in Snapshots : PutSnapshot(snapshot)) \/ MakePlan \/ UNCHANGED vars
  BY <1>1, <1>3 DEF PutSnapshot, MakePlan, vars, cache
<1>4. CASE InvalidateAll
  BY <1>2, <1>4 DEF InvalidateAll
<1>5. ASSUME NEW event \in Revisions, InvalidateIfNeeded(event)
      PROVE  CacheInv'
  BY <1>1, <1>2, <1>5 DEF InvalidateIfNeeded
<1>6. ASSUME NEW key \in Keys, NEW st \in States, ResolveMaterial(key, st)
      PROVE  CacheInv'
  <2>1. CASE UNCHANGED <<materials, misses, inserted>>
    BY <1>1, <1>6, <2>1 DEF ResolveMaterial
  <2>2. CASE /\ key \notin DOMAIN materials
             /\ materials' = With(materials, key, st)
             /\ inserted' = With(inserted, key, announced)
    <3>1. announced' = announced /\ revision' = revision
      BY <1>6 DEF ResolveMaterial
    <3>2. DOMAIN materials' = {key} \cup DOMAIN materials
      BY <2>2 DEF With
    <3>3. /\ DOMAIN inserted' = {key} \cup DOMAIN inserted
          /\ inserted'[key] = announced
          /\ \A k \in DOMAIN inserted \ {key} : inserted'[k] = inserted[k]
      BY <2>2 DEF With
    <3>4. QED
      BY <3>1, <3>2, <3>3
  <2>3. QED
    BY <1>6, <2>1, <2>2 DEF ResolveMaterial
<1>7. QED
  BY <1>3, <1>4, <1>5, <1>6 DEF Next

(* No material outlives the event that replaced its theme or its style,    *)
(* whatever order the revisions are announced in.                          *)
THEOREM CacheFollowsEvents == Spec => []CacheOfRevision
<1>1. Init => CacheInv
  BY DEF Init, CacheInv, CacheOfRevision
<1>2. CacheInv => CacheOfRevision
  BY DEF CacheInv
<1>3. QED
  BY <1>1, <1>2, CacheStep, PTL DEF Spec

(* Between two invalidations nothing in the cache changes.                 *)
THEOREM ReferencesStay == Spec => MaterialsKept
<1>1. ASSUME [Next]_vars
      PROVE  \A key \in DOMAIN materials :
               \/ key \in DOMAIN materials' /\ materials'[key] = materials[key]
               \/ materials' = <<>>
  <2>1. CASE UNCHANGED materials
    BY <2>1
  <2>2. CASE materials' = <<>>
    BY <2>2
  <2>3. ASSUME NEW key \in Keys, NEW st \in States, key \notin DOMAIN materials,
               materials' = With(materials, key, st)
        PROVE  \A k \in DOMAIN materials :
                 k \in DOMAIN materials' /\ materials'[k] = materials[k]
    BY <2>3 DEF With
  <2>4. \/ UNCHANGED materials
        \/ materials' = <<>>
        \/ \E key \in Keys, st \in States :
             /\ key \notin DOMAIN materials
             /\ materials' = With(materials, key, st)
    BY <1>1 DEF Next, PutSnapshot, MakePlan, InvalidateAll, InvalidateIfNeeded,
                ResolveMaterial, vars, cache
  <2>5. QED
    BY <2>1, <2>2, <2>3, <2>4
<1>2. QED
  BY <1>1, PTL DEF Spec, MaterialsKept

-----------------------------------------------------------------------------
(* THE PLAN.  Appending one entry at a time.                               *)
LEMMA Joined ==
  ASSUME NEW a, NEW b, NEW c
  PROVE  /\ <<a>> \o <<b>> = <<a, b>> /\ <<a, b>> \o <<c>> = <<a, b, c>>
         /\ <<>> \o <<a>> = <<a>> /\ <<a>> \o <<>> = <<a>>
         /\ <<a, b>> \o <<>> = <<a, b>> /\ <<>> \o <<>> = <<>>
<1> DEFINE S == {a, b, c}
<1>1. /\ <<>> \in Seq(S) /\ <<a>> \in Seq(S) /\ <<a, b>> \in Seq(S)
      /\ b \in S /\ c \in S
  OBVIOUS
<1> HIDE DEF S
<1>2. /\ Append(<<a>>, b) = <<a>> \o <<b>>
      /\ Append(<<a, b>>, c) = <<a, b>> \o <<c>>
  BY <1>1, AppendIsConcat
<1>3. Append(<<a>>, b) = <<a, b>>
  <2> DEFINE s == Append(<<a>>, b)
             t == <<a, b>>
  <2>1. /\ s \in Seq({a, b}) /\ t \in Seq({a, b}) /\ Len(s) = 2 /\ Len(t) = 2
        /\ s[1] = t[1] /\ s[2] = t[2]
    OBVIOUS
  <2> HIDE DEF s, t
  <2>2. \A i \in 1 .. Len(s) : s[i] = t[i]
    BY <2>1
  <2>3. s = t
    BY <2>1, <2>2, SeqEqual
  <2>4. QED
    BY <2>3 DEF s, t
<1>4. Append(<<a, b>>, c) = <<a, b, c>>
  <2> DEFINE s == Append(<<a, b>>, c)
             t == <<a, b, c>>
  <2>1. /\ s \in Seq({a, b, c}) /\ t \in Seq({a, b, c}) /\ Len(s) = 3 /\ Len(t) = 3
        /\ s[1] = t[1] /\ s[2] = t[2] /\ s[3] = t[3]
    OBVIOUS
  <2> HIDE DEF s, t
  <2>2. \A i \in 1 .. Len(s) : s[i] = t[i]
    BY <2>1
  <2>3. s = t
    BY <2>1, <2>2, SeqEqual
  <2>4. QED
    BY <2>3 DEF s, t
<1>5. QED
  BY <1>1, <1>2, <1>3, <1>4, ConcatEmptySeq

(* A plan of a scene has at most one pass for each layer, in their order,  *)
(* and each of them has what was counted for the layer.                    *)
LEMMA PlanForms ==
  ASSUME NEW scene
  PROVE  LET x == IF scene.render_background THEN 1 ELSE 0
             y == DrawCount(scene.tile_batches)
             z == DrawCount(scene.overlay_batches)
             a == PassDescriptor("Background", x)
             b == PassDescriptor("Tiles", y)
             c == PassDescriptor("Overlays", z)
             p == PlanOfScene(scene)
         IN  \/ p = <<>>        /\ ~(x > 0) /\ ~(y > 0) /\ ~(z > 0)
             \/ p = <<a>>       /\ x > 0    /\ ~(y > 0) /\ ~(z > 0)
             \/ p = <<b>>       /\ ~(x > 0) /\ y > 0    /\ ~(z > 0)
             \/ p = <<c>>       /\ ~(x > 0) /\ ~(y > 0) /\ z > 0
             \/ p = <<a, b>>    /\ x > 0    /\ y > 0    /\ ~(z > 0)
             \/ p = <<a, c>>    /\ x > 0    /\ ~(y > 0) /\ z > 0
             \/ p = <<b, c>>    /\ ~(x > 0) /\ y > 0    /\ z > 0
             \/ p = <<a, b, c>> /\ x > 0    /\ y > 0    /\ z > 0
<1> DEFINE x == IF scene.render_background THEN 1 ELSE 0
           y == DrawCount(scene.tile_batches)
           z == DrawCount(scene.overlay_batches)
           a == PassDescriptor("Background", x)
           b == PassDescriptor("Tiles", y)
           c == PassDescriptor("Overlays", z)
           ps == PassOf("Background", x)
           qs == PassOf("Tiles", y)
           rs == PassOf("Overlays", z)
<1>1. /\ (ps = <<>> /\ ~(x > 0)) \/ (ps = <<a>> /\ x > 0)
      /\ (qs = <<>> /\ ~(y > 0)) \/ (qs = <<b>> /\ y > 0)
      /\ (rs = <<>> /\ ~(z > 0)) \/ (rs = <<c>> /\ z > 0)
  BY DEF PassOf
<1>2. PlanOfScene(scene) = (ps \o qs) \o rs
  BY DEF PlanOfScene
<1> DEFINE p == PlanOfScene(scene)
<1> HIDE DEF ps, qs, rs, a, b, c, x, y, z, p
<1>3. p = (ps \o qs) \o rs
  BY <1>2 DEF p
<1>4. \/ p = <<>>        /\ ~(x > 0) /\ ~(y > 0) /\ ~(z > 0)
      \/ p = <<a>>       /\ x > 0    /\ ~(y > 0) /\ ~(z > 0)
      \/ p = <<b>>       /\ ~(x > 0) /\ y > 0    /\ ~(z > 0)
      \/ p = <<c>>       /\ ~(x > 0) /\ ~(y > 0) /\ z > 0
      \/ p = <<a, b>>    /\ x > 0    /\ y > 0    /\ ~(z > 0)
      \/ p = <<a, c>>    /\ x > 0    /\ ~(y > 0) /\ z > 0
      \/ p = <<b, c>>    /\ ~(x > 0) /\ y > 0    /\ z > 0
      \/ p = <<a, b, c>> /\ x > 0    /\ y > 0    /\ z > 0
  BY <1>1, <1>3, Joined
<1>5. QED
  BY <1>4 DEF a, b, c, x, y, z, p

(* Every pass of such a plan can be run, and no layer comes twice or late. *)
LEMMA PlanStep ==
  ASSUME NEW scene
  PROVE  LET p == PlanOfScene(scene)
         IN  /\ \A i \in DOMAIN p : IsValidPass(p[i])
             /\ \A i, j \in DOMAIN p :
                  i < j => Layer[p[i].pass_type] < Layer[p[j].pass_type]
<1> DEFINE x == IF scene.render_background THEN 1 ELSE 0
           y == DrawCount(scene.tile_batches)
           z == DrawCount(scene.overlay_batches)
           a == PassDescriptor("Background", x)
           b == PassDescriptor("Tiles", y)
           c == PassDescriptor("Overlays", z)
           p == PlanOfScene(scene)
<1>1. /\ x > 0 => IsValidPass(a)
      /\ y > 0 => IsValidPass(b)
      /\ z > 0 => IsValidPass(c)
  BY DEF IsValidPass, PassDescriptor, Material
<1>2. /\ Layer[a.pass_type] = 1 /\ Layer[b.pass_type] = 2 /\ Layer[c.pass_type] = 3
  BY DEF PassDescriptor, Layer
<1>3. \/ p = <<>>
      \/ p = <<a>>       /\ x > 0
      \/ p = <<b>>       /\ y > 0
      \/ p = <<c>>       /\ z > 0
      \/ p = <<a, b>>    /\ x > 0 /\ y > 0
      \/ p = <<a, c>>    /\ x > 0 /\ z > 0
      \/ p = <<b, c>>    /\ y > 0 /\ z > 0
      \/ p = <<a, b, c>> /\ x > 0 /\ y > 0 /\ z > 0
  BY PlanForms
<1> HIDE DEF a, b, c, x, y, z, p
<1>4. QED
  BY <1>1, <1>2, <1>3 DEF p

(* Whatever the snapshots hold, also when a sum of draws wraps around, no  *)
(* plan has a pass that the frame refuses, twice or in another order.      *)
THEOREM PlansRun == Spec => []PlanRunnable
<1>1. Init => PlanRunnable
  BY DEF Init, PlanRunnable
<1>2. PlanRunnable /\ [Next]_vars => PlanRunnable'
  <2> SUFFICES ASSUME PlanRunnable, [Next]_vars
               PROVE  PlanRunnable'
    OBVIOUS
  <2>1. \/ plan' = plan
        \/ plan' = PlanOfScene(SceneOfSnapshot(latest))
    BY DEF Next, PutSnapshot, MakePlan, InvalidateAll, InvalidateIfNeeded,
           ResolveMaterial, vars, cache
  <2>2. CASE plan' = plan
    BY <2>2 DEF PlanRunnable
  <2>3. CASE plan' = PlanOfScene(SceneOfSnapshot(latest))
    BY <2>3, PlanStep DEF PlanRunnable
  <2>4. QED
    BY <2>1, <2>2, <2>3
<1>3. QED
  BY <1>1, <1>2, PTL DEF Spec

-----------------------------------------------------------------------------
(* THE DRAWS.  The three sums as walks from one entry to the next: the 32  *)
(* bits of the plan, ...                                                   *)
LEMMA DrawCountWalk ==
  ASSUME NEW batches, NEW n \in Nat, DOMAIN batches = 1 .. n,
         \A i \in 1 .. n : batches[i].draw_items \in Nat
  PROVE  \E g \in [0 .. n -> Nat] :
           /\ g[0] = 0 /\ g[n] = DrawCount(batches)
           /\ \A k \in 1 .. n : g[k] = (g[k - 1] + batches[k].draw_items) % DrawCounts
<1> DEFINE H == [p \in Nat \X (1 .. n) |-> (p[1] + batches[p[2]].draw_items) % DrawCounts]
           Body(G) == [s \in SUBSET (1 .. n) |->
                         IF s = {} THEN 0
                         ELSE (G[s \ {Max(s)}] + batches[Max(s)].draw_items) % DrawCounts]
           F == CHOOSE G : G = Body(G)
<1>1. /\ H \in [Nat \X (1 .. n) -> Nat] /\ 0 \in Nat
      /\ \A a \in Nat, k \in 1 .. n : H[<<a, k>>] = (a + batches[k].draw_items) % DrawCounts
  BY FramePlanAssumption
<1>2. DrawCount(batches) = F[1 .. n]
  BY DEF DrawCount, FoldLeft, MapThenFoldSet
<1> HIDE DEF H
<1>3. PICK G \in [SUBSET (1 .. n) -> Nat] : Folding(G, Nat, 0, n, H)
  BY <1>1, FoldExists
<1>4. G = Body(G)
  <2>1. \A s \in SUBSET (1 .. n) : s # {} =>
          G[s] = (G[s \ {Max(s)}] + batches[Max(s)].draw_items) % DrawCounts
    BY <1>1, <1>3, LastOfSome DEF Folding
  <2>2. QED
    BY <1>3, <2>1 DEF Folding
<1>5. F = Body(F)
  <2> HIDE DEF Body
  <2>1. QED
    BY <1>4
<1> HIDE DEF F
<1>6. /\ F[{}] = 0
      /\ \A s \in SUBSET (1 .. n) :
           s # {} => F[s] = (F[s \ {Max(s)}] + batches[Max(s)].draw_items) % DrawCounts
  BY <1>5
<1>7. Folding(F, Nat, 0, n, H)
  BY <1>1, <1>6, LastOfSome DEF Folding
<1>8. PICK g \in [0 .. n -> Nat] : Walk(g, F[1 .. n], 0, n, H)
  BY <1>1, <1>7, FoldSteps
<1>9. ASSUME NEW k \in 1 .. n
      PROVE  g[k] = (g[k - 1] + batches[k].draw_items) % DrawCounts
  <2>1. g[k - 1] \in Nat
    OBVIOUS
  <2>2. QED
    BY <1>1, <1>8, <2>1 DEF Walk
<1>10. QED
  BY <1>2, <1>8, <1>9 DEF Walk

(* ... what there is to draw ...                                           *)
LEMMA DrawablesWalk ==
  ASSUME NEW batches, NEW n \in Nat, DOMAIN batches = 1 .. n,
         \A i \in 1 .. n : batches[i].drawable_count \in Nat
  PROVE  \E g \in [0 .. n -> Nat] :
           /\ g[0] = 0 /\ g[n] = Drawables(batches)
           /\ \A k \in 1 .. n : g[k] = g[k - 1] + batches[k].drawable_count
<1> DEFINE H == [p \in Nat \X (1 .. n) |-> p[1] + batches[p[2]].drawable_count]
           Body(G) == [s \in SUBSET (1 .. n) |->
                         IF s = {} THEN 0
                         ELSE G[s \ {Max(s)}] + batches[Max(s)].drawable_count]
           F == CHOOSE G : G = Body(G)
<1>1. /\ H \in [Nat \X (1 .. n) -> Nat] /\ 0 \in Nat
      /\ \A a \in Nat, k \in 1 .. n : H[<<a, k>>] = a + batches[k].drawable_count
  OBVIOUS
<1>2. Drawables(batches) = F[1 .. n]
  BY DEF Drawables, FoldLeft, MapThenFoldSet
<1> HIDE DEF H
<1>3. PICK G \in [SUBSET (1 .. n) -> Nat] : Folding(G, Nat, 0, n, H)
  BY <1>1, FoldExists
<1>4. G = Body(G)
  <2>1. \A s \in SUBSET (1 .. n) : s # {} =>
          G[s] = G[s \ {Max(s)}] + batches[Max(s)].drawable_count
    BY <1>1, <1>3, LastOfSome DEF Folding
  <2>2. QED
    BY <1>3, <2>1 DEF Folding
<1>5. F = Body(F)
  <2> HIDE DEF Body
  <2>1. QED
    BY <1>4
<1> HIDE DEF F
<1>6. /\ F[{}] = 0
      /\ \A s \in SUBSET (1 .. n) :
           s # {} => F[s] = F[s \ {Max(s)}] + batches[Max(s)].drawable_count
  BY <1>5
<1>7. Folding(F, Nat, 0, n, H)
  BY <1>1, <1>6, LastOfSome DEF Folding
<1>8. PICK g \in [0 .. n -> Nat] : Walk(g, F[1 .. n], 0, n, H)
  BY <1>1, <1>7, FoldSteps
<1>9. ASSUME NEW k \in 1 .. n
      PROVE  g[k] = g[k - 1] + batches[k].drawable_count
  <2>1. g[k - 1] \in Nat
    OBVIOUS
  <2>2. QED
    BY <1>1, <1>8, <2>1 DEF Walk
<1>10. QED
  BY <1>2, <1>8, <1>9 DEF Walk

(* ... and what the plan draws of one layer.                               *)
DrawsOf(type, k) == IF plan[k].pass_type = type THEN plan[k].draw_calls ELSE 0

(* The walk over the passes of the plan.                                   *)
LEMMA DrawnWalk ==
  ASSUME NEW type \in DOMAIN Material, NEW n \in Nat, DOMAIN plan = 1 .. n,
         \A i \in 1 .. n : plan[i].draw_calls \in Nat
  PROVE  \E g \in [0 .. n -> Nat] :
           /\ g[0] = 0 /\ g[n] = Drawn(type)
           /\ \A k \in 1 .. n : g[k] = g[k - 1] + DrawsOf(type, k)
<1> DEFINE H == [p \in Nat \X (1 .. n) |-> p[1] + DrawsOf(type, p[2])]
           Body(G) == [s \in SUBSET (1 .. n) |->
                         IF s = {} THEN 0
                         ELSE G[s \ {Max(s)}] + DrawsOf(type, Max(s))]
           F == CHOOSE G : G = Body(G)
<1>1. /\ H \in [Nat \X (1 .. n) -> Nat] /\ 0 \in Nat
      /\ \A a \in Nat, k \in 1 .. n : H[<<a, k>>] = a + DrawsOf(type, k)
  BY DEF DrawsOf
<1>2. Drawn(type) = F[1 .. n]
  BY DEF Drawn, DrawsOf, FoldLeft, MapThenFoldSet
<1> HIDE DEF H
<1>3. PICK G \in [SUBSET (1 .. n) -> Nat] : Folding(G, Nat, 0, n, H)
  BY <1>1, FoldExists
<1>4. G = Body(G)
  <2>1. \A s \in SUBSET (1 .. n) : s # {} =>
          G[s] = G[s \ {Max(s)}] + DrawsOf(type, Max(s))
    BY <1>1, <1>3, LastOfSome DEF Folding
  <2>2. QED
    BY <1>3, <2>1 DEF Folding
<1>5. F = Body(F)
  <2> HIDE DEF Body
  <2>1. QED
    BY <1>4
<1> HIDE DEF F
<1>6. /\ F[{}] = 0
      /\ \A s \in SUBSET (1 .. n) :
           s # {} => F[s] = F[s \ {Max(s)}] + DrawsOf(type, Max(s))
  BY <1>5
<1>7. Folding(F, Nat, 0, n, H)
  BY <1>1, <1>6, LastOfSome DEF Folding
<1>8. PICK g \in [0 .. n -> Nat] : Walk(g, F[1 .. n], 0, n, H)
  BY <1>1, <1>7, FoldSteps
<1>9. ASSUME NEW k \in 1 .. n
      PROVE  g[k] = g[k - 1] + DrawsOf(type, k)
  <2>1. g[k - 1] \in Nat
    OBVIOUS
  <2>2. QED
    BY <1>1, <1>8, <2>1 DEF Walk
<1>10. QED
  BY <1>2, <1>8, <1>9 DEF Walk

(* A number below 2^32 is what 32 bits hold of it.                         *)
LEMMA SmallRemainder ==
  ASSUME NEW a \in 0 .. DrawCounts - 1
  PROVE  a % DrawCounts = a
BY FramePlanAssumption

(* A sum of draws below 2^32 is what there is to draw, whatever is added   *)
(* first.                                                                  *)
LEMMA CountIsSum ==
  ASSUME NEW batches, NEW items, NEW n \in Nat,
         DOMAIN batches = 1 .. n, DOMAIN items = 1 .. n,
         \A i \in 1 .. n : /\ batches[i].drawable_count \in Nat
                           /\ items[i].draw_items = batches[i].drawable_count
  PROVE  /\ DrawCount(items) \in Nat
         /\ Drawables(batches) < DrawCounts => DrawCount(items) = Drawables(batches)
<1>1. PICK g \in [0 .. n -> Nat] :
        /\ g[0] = 0 /\ g[n] = Drawables(batches)
        /\ \A k \in 1 .. n : g[k] = g[k - 1] + batches[k].drawable_count
  BY DrawablesWalk
<1>2. PICK h \in [0 .. n -> Nat] :
        /\ h[0] = 0 /\ h[n] = DrawCount(items)
        /\ \A k \in 1 .. n : h[k] = (h[k - 1] + items[k].draw_items) % DrawCounts
  BY DrawCountWalk
<1>3. \A k \in 0 .. n : g[k] <= g[n]
  <2> DEFINE T == {k \in 0 .. n : g[n - k] <= g[n]}
  <2>1. 0 \in T
    OBVIOUS
  <2>2. ASSUME NEW k \in 1 .. n, k - 1 \in T
        PROVE  k \in T
    <3>1. n - k + 1 \in 1 .. n /\ n - k \in 0 .. n /\ n - (k - 1) = n - k + 1
      OBVIOUS
    <3>2. g[n - k + 1] = g[n - k] + batches[n - k + 1].drawable_count
      BY <1>1, <3>1
    <3>3. g[n - k] \in Nat /\ g[n - k + 1] \in Nat /\ g[n] \in Nat
      BY <3>1
    <3>4. g[n - k + 1] <= g[n]
      BY <2>2, <3>1
    <3>5. g[n - k] <= g[n]
      BY <3>1, <3>2, <3>3, <3>4
    <3>6. QED
      BY <3>5
  <2>3. \A k \in 0 .. n : k \in T
    <3> HIDE DEF T
    <3>1. QED
      BY <2>1, <2>2, Induct
  <2>4. ASSUME NEW k \in 0 .. n
        PROVE  g[k] <= g[n]
    <3>1. n - k \in 0 .. n /\ n - (n - k) = k
      OBVIOUS
    <3>2. n - k \in T
      <4> HIDE DEF T
      <4>1. QED
        BY <2>3, <3>1
    <3>3. g[n - (n - k)] <= g[n]
      BY <3>2
    <3>4. QED
      BY <3>1, <3>3
  <2>5. QED
    BY <2>4
<1>4. ASSUME g[n] < DrawCounts
      PROVE  h[n] = g[n]
  <2> DEFINE T == {k \in 0 .. n : h[k] = g[k]}
  <2>1. 0 \in T
    BY <1>1, <1>2
  <2>2. ASSUME NEW k \in 1 .. n, k - 1 \in T
        PROVE  k \in T
    <3>1. g[k] \in 0 .. DrawCounts - 1
      <4>1. k \in 0 .. n /\ n \in 0 .. n
        OBVIOUS
      <4>2. g[k] \in Nat /\ g[n] \in Nat /\ g[k] <= g[n]
        BY <1>3, <4>1
      <4>3. QED
        BY <1>4, <4>2, FramePlanAssumption
    <3>2. h[k] = g[k] % DrawCounts
      BY <1>1, <1>2, <2>2
    <3>3. g[k] % DrawCounts = g[k]
      BY <3>1, SmallRemainder
    <3>4. QED
      BY <3>2, <3>3
  <2>3. \A k \in 0 .. n : k \in T
    <3> HIDE DEF T
    <3>1. QED
      BY <2>1, <2>2, Induct
  <2>4. n \in T
    BY <2>3
  <2>5. QED
    BY <2>4
<1>5. QED
  <2>1. n \in 0 .. n
    OBVIOUS
  <2>2. QED
    BY <1>1, <1>2, <1>4, <2>1

(* What a plan of up to three passes draws of a layer.                     *)
LEMMA ShortPlan ==
  ASSUME NEW type \in DOMAIN Material, NEW n \in Nat, n <= 3, DOMAIN plan = 1 .. n,
         \A i \in 1 .. n : plan[i].draw_calls \in Nat
  PROVE  /\ n = 0 => Drawn(type) = 0
         /\ n = 1 => Drawn(type) = DrawsOf(type, 1)
         /\ n = 2 => Drawn(type) = DrawsOf(type, 1) + DrawsOf(type, 2)
         /\ n = 3 => Drawn(type) = DrawsOf(type, 1) + DrawsOf(type, 2) + DrawsOf(type, 3)
<1> DEFINE w(i) == DrawsOf(type, i)
<1>1. PICK g \in [0 .. n -> Nat] :
        /\ g[0] = 0 /\ g[n] = Drawn(type)
        /\ \A k \in 1 .. n : g[k] = g[k - 1] + w(k)
  BY DrawnWalk
<1>2. \A i \in 1 .. n : w(i) \in Nat
  BY DEF DrawsOf
<1> HIDE DEF w
<1>3. /\ n >= 1 => g[1] = g[0] + w(1)
      /\ n >= 2 => g[2] = g[1] + w(2)
      /\ n >= 3 => g[3] = g[2] + w(3)
  BY <1>1
<1>4. /\ n >= 1 => w(1) \in Nat
      /\ n >= 2 => w(2) \in Nat
      /\ n >= 3 => w(3) \in Nat
  BY <1>2
<1>5. /\ n = 0 => Drawn(type) = 0
      /\ n = 1 => Drawn(type) = w(1)
      /\ n = 2 => Drawn(type) = w(1) + w(2)
      /\ n = 3 => Drawn(type) = w(1) + w(2) + w(3)
  BY <1>1, <1>3, <1>4
<1>6. QED
  BY <1>5 DEF w

(* The plan of a scene draws of each layer what was counted for it.        *)
LEMMA DrawnOfPlan ==
  ASSUME NEW scene, plan = PlanOfScene(scene),
         DrawCount(scene.tile_batches) \in Nat, DrawCount(scene.overlay_batches) \in Nat
  PROVE  /\ Drawn("Background") = IF scene.render_background THEN 1 ELSE 0
         /\ Drawn("Tiles") = DrawCount(scene.tile_batches)
         /\ Drawn("Overlays") = DrawCount(scene.overlay_batches)
<1> DEFINE x == IF scene.render_background THEN 1 ELSE 0
           y == DrawCount(scene.tile_batches)
           z == DrawCount(scene.overlay_batches)
           a == PassDescriptor("Background", x)
           b == PassDescriptor("Tiles", y)
           c == PassDescriptor("Overlays", z)
<1>1. x \in Nat /\ y \in Nat /\ z \in Nat
  OBVIOUS
<1>2. /\ a.pass_type = "Background" /\ a.draw_calls = x
      /\ b.pass_type = "Tiles" /\ b.draw_calls = y
      /\ c.pass_type = "Overlays" /\ c.draw_calls = z
  BY DEF PassDescriptor
<1>3. \/ plan = <<>>        /\ ~(x > 0) /\ ~(y > 0) /\ ~(z > 0)
      \/ plan = <<a>>       /\ x > 0    /\ ~(y > 0) /\ ~(z > 0)
      \/ plan = <<b>>       /\ ~(x > 0) /\ y > 0    /\ ~(z > 0)
      \/ plan = <<c>>       /\ ~(x > 0) /\ ~(y > 0) /\ z > 0
      \/ plan = <<a, b>>    /\ x > 0    /\ y > 0    /\ ~(z > 0)
      \/ plan = <<a, c>>    /\ x > 0    /\ ~(y > 0) /\ z > 0
      \/ plan = <<b, c>>    /\ ~(x > 0) /\ y > 0    /\ z > 0
      \/ plan = <<a, b, c>> /\ x > 0    /\ y > 0    /\ z > 0
  BY PlanForms
<1> HIDE DEF x, y, z, a, b, c
<1>4. /\ Len(plan) \in 0 .. 3 /\ DOMAIN plan = 1 .. Len(plan)
      /\ \A i \in 1 .. Len(plan) : plan[i].draw_calls \in Nat
  BY <1>1, <1>2, <1>3
<1>5. ASSUME NEW type \in DOMAIN Material
      PROVE  /\ Len(plan) = 0 => Drawn(type) = 0
             /\ Len(plan) = 1 => Drawn(type) = DrawsOf(type, 1)
             /\ Len(plan) = 2 => Drawn(type) = DrawsOf(type, 1) + DrawsOf(type, 2)
             /\ Len(plan) = 3 =>
                  Drawn(type) = DrawsOf(type, 1) + DrawsOf(type, 2) + DrawsOf(type, 3)
  <2>1. Len(plan) \in Nat /\ Len(plan) <= 3
    BY <1>4
  <2>2. QED
    BY <1>4, <2>1, ShortPlan
<1>6. {"Background", "Tiles", "Overlays"} = DOMAIN Material
  BY DEF Material
<1>7. Drawn("Background") = x
  BY <1>1, <1>2, <1>3, <1>5, <1>6 DEF DrawsOf
<1>8. Drawn("Tiles") = y
  BY <1>1, <1>2, <1>3, <1>5, <1>6 DEF DrawsOf
<1>9. Drawn("Overlays") = z
  BY <1>1, <1>2, <1>3, <1>5, <1>6 DEF DrawsOf
<1>10. QED
  BY <1>7, <1>8, <1>9 DEF x, y, z

(* A scene counts the draws of the snapshot it was made of.                *)
LEMMA SceneCounts ==
  ASSUME NEW snapshot \in MapRenderSnapshots
  PROVE  LET scene == SceneOfSnapshot(snapshot)
         IN  /\ scene.render_background = snapshot.render_background
             /\ DrawCount(scene.tile_batches) \in Nat
             /\ DrawCount(scene.overlay_batches) \in Nat
             /\ Drawables(snapshot.tile_batches) < DrawCounts =>
                  DrawCount(scene.tile_batches) = Drawables(snapshot.tile_batches)
             /\ Drawables(snapshot.overlay_batches) < DrawCounts =>
                  DrawCount(scene.overlay_batches) = Drawables(snapshot.overlay_batches)
<1> DEFINE items(batches) == [i \in DOMAIN batches |->
                                [id |-> batches[i].id, draw_items |-> batches[i].drawable_count]]
<1>1. ASSUME NEW batches \in Seq(RenderBatches)
      PROVE  /\ DrawCount(items(batches)) \in Nat
             /\ Drawables(batches) < DrawCounts =>
                  DrawCount(items(batches)) = Drawables(batches)
  <2> DEFINE n == Len(batches)
  <2>1. n \in Nat /\ DOMAIN batches = 1 .. n
    OBVIOUS
  <2>2. \A i \in 1 .. n : batches[i] \in RenderBatches
    OBVIOUS
  <2>3. \A i \in 1 .. n : batches[i].drawable_count \in Nat
    BY <2>2, FramePlanAssumption DEF RenderBatches
  <2>4. /\ DOMAIN items(batches) = 1 .. n
        /\ \A i \in 1 .. n : items(batches)[i].draw_items = batches[i].drawable_count
    BY <2>1
  <2> HIDE DEF items, n
  <2>5. QED
    BY <2>1, <2>3, <2>4, CountIsSum
<1>2. /\ snapshot.tile_batches \in Seq(RenderBatches)
      /\ snapshot.overlay_batches \in Seq(RenderBatches)
  BY DEF MapRenderSnapshots
<1>3. SceneOfSnapshot(snapshot) = [render_background |-> snapshot.render_background,
                                   tile_batches      |-> items(snapshot.tile_batches),
                                   overlay_batches   |-> items(snapshot.overlay_batches)]
  BY DEF SceneOfSnapshot
<1> HIDE DEF items
<1>4. QED
  BY <1>1, <1>2, <1>3

(* The plan is the one of the snapshot it was made of.                     *)
PlanInv ==
  /\ latest \in Snapshots \cup {Null}
  /\ planned # Null => planned \in Snapshots /\ plan = PlanOfScene(SceneOfSnapshot(planned))

(* As long as the draws of a layer can be counted in 32 bits, the plan of  *)
(* any snapshot draws all of them and has no pass for nothing.             *)
THEOREM PlansComplete == Spec => []PlanComplete
<1>1. Init => PlanInv
  BY DEF Init, PlanInv
<1>2. PlanInv /\ [Next]_vars => PlanInv'
  <2> SUFFICES ASSUME PlanInv, [Next]_vars
               PROVE  PlanInv'
    OBVIOUS
  <2>1. CASE UNCHANGED <<latest, plan, planned>>
    BY <2>1 DEF PlanInv
  <2>2. ASSUME NEW snapshot \in Snapshots, PutSnapshot(snapshot)
        PROVE  PlanInv'
    BY <2>2 DEF PutSnapshot, PlanInv
  <2>3. CASE MakePlan
    BY <2>3 DEF MakePlan, PlanInv
  <2>4. QED
    BY <2>1, <2>2, <2>3 DEF Next, InvalidateAll, InvalidateIfNeeded, ResolveMaterial, vars
<1>3. PlanInv => PlanComplete
  <2> SUFFICES ASSUME PlanInv, planned # Null
               PROVE  /\ Drawables(planned.tile_batches) < DrawCounts =>
                           Drawn("Tiles") = Drawables(planned.tile_batches)
                      /\ Drawables(planned.overlay_batches) < DrawCounts =>
                           Drawn("Overlays") = Drawables(planned.overlay_batches)
                      /\ Drawn("Background") = IF planned.render_background THEN 1 ELSE 0
    BY DEF PlanComplete
  <2>1. planned \in MapRenderSnapshots /\ plan = PlanOfScene(SceneOfSnapshot(planned))
    BY SceneAssumption DEF PlanInv
  <2> DEFINE scene == SceneOfSnapshot(planned)
  <2>2. /\ scene.render_background = planned.render_background
        /\ DrawCount(scene.tile_batches) \in Nat
        /\ DrawCount(scene.overlay_batches) \in Nat
        /\ Drawables(planned.tile_batches) < DrawCounts =>
             DrawCount(scene.tile_batches) = Drawables(planned.tile_batches)
        /\ Drawables(planned.overlay_batches) < DrawCounts =>
             DrawCount(scene.overlay_batches) = Drawables(planned.overlay_batches)
    BY <2>1, SceneCounts
  <2>3. plan = PlanOfScene(scene)
    BY <2>1
  <2> HIDE DEF scene
  <2>4. /\ Drawn("Background") = IF scene.render_background THEN 1 ELSE 0
        /\ Drawn("Tiles") = DrawCount(scene.tile_batches)
        /\ Drawn("Overlays") = DrawCount(scene.overlay_batches)
    BY <2>2, <2>3, DrawnOfPlan
  <2>5. QED
    BY <2>2, <2>4
<1>4. QED
  BY <1>1, <1>2, <1>3, PTL DEF Spec
=============================================================================
