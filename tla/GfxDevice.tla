------------------------------ MODULE GfxDevice ------------------------------
(***************************************************************************)
(* engine/gfx: what StubGfxDevice makes and keeps.  Pipelines live in two  *)
(* caches of the device; resources live as long as the application holds   *)
(* the pointer to them, and are counted by process-wide atomic counters    *)
(* that anyone may read or reset, one counter at a time, while other       *)
(* threads create and destroy.                                             *)
(*                                                                         *)
(* A refused creation changes nothing and has no action.  The caches have  *)
(* no lock: one thread uses the device.                                    *)
(***************************************************************************)
EXTENDS ResourceValidation

CONSTANTS
  Objects,        \* the pointers the application has for resources
  Null,           \* an empty one
  Hash(_),        \* what the hash makes of the fields of a pipeline descriptor
  PipelineCaps,   \* caps_
  ResourceCaps,   \* resource_caps_
  GraphicsDescs, ComputeDescs,                              \* what it asks for
  BufferDescs, TextureDescs, SamplerDescs, ShaderDescs, ViewDescs,
  MaxCreations    \* bound: the pipelines and the resources that are created

ASSUME DeviceAssumption ==
  /\ MaxCreations \in Nat
  /\ IsFiniteSet(Objects)
  /\ GraphicsDescs \cap ComputeDescs = {}
  /\ \A desc \in BufferDescs : desc.size_bytes \in Nat
  /\ \A desc \in TextureDescs : desc.mip_levels \in Nat /\ desc.depth_or_layers \in Nat
  /\ \A desc \in ViewDescs :
       /\ desc.offset \in Nat /\ desc.size \in Nat
       /\ desc.mip \in Nat /\ desc.mips \in Nat
       /\ desc.layer \in Nat /\ desc.layers \in Nat

VARIABLES
  next_pipeline_id, \* next_pipeline_id_
  graphics,         \* graphics_pipeline_cache_: a function of the hashes in it
  compute,          \* compute_pipeline_cache_
  answered,         \* history: the last id each descriptor was answered with
  resource,         \* what each pointer points to
  made,             \* history, for the bound: the resources created so far
  counters,         \* the g_..._created and g_..._destroyed of each kind
  stats,            \* lifecycle_stats: the kind being read and what was loaded
  resetting,        \* the kind that reset_lifecycle_stats has half reset
  skewed            \* history: kinds whose last reset had other threads in it

pipelines == <<next_pipeline_id, graphics, compute, answered>>
tracking == <<counters, stats, resetting, skewed>>
resources == <<resource, made>>
vars == <<pipelines, resources, tracking>>

Kinds == {"buffer", "texture", "sampler", "shader_module", "view"}
Descs == BufferDescs \cup TextureDescs \cup SamplerDescs \cup ShaderDescs \cup ViewDescs
Resource == [kind : Kinds, desc : Descs, base : Descs \cup {Null}]

ASSUME NullAssumption == Null \notin Kinds /\ Null \notin Resource

CreationsLeft == next_pipeline_id - 1 + made < MaxCreations

Init ==
  /\ next_pipeline_id = 1
  /\ graphics = <<>>
  /\ compute = <<>>
  /\ answered = <<>>
  /\ resource = [o \in Objects |-> Null]
  /\ made = 0
  /\ counters = [k \in Kinds |-> [created |-> 0, destroyed |-> 0]]
  /\ stats = Null
  /\ resetting = Null
  /\ skewed = {}

-----------------------------------------------------------------------------
(* PIPELINES                                                               *)
With(f, key, value) == [k \in DOMAIN f \cup {key} |-> IF k = key THEN value ELSE f[k]]

Answer(desc, id) ==
  /\ answered' = With(answered, desc, id)
  /\ UNCHANGED <<resources, tracking>>

(* A variant of NewId that does not count on.                              *)
NewIdKept ==
  /\ CreationsLeft
  /\ UNCHANGED next_pipeline_id

NewId ==
  /\ CreationsLeft
  /\ next_pipeline_id' = next_pipeline_id + 1

(* A variant of CreateGraphicsPipeline that looks up before it validates.  *)
CreateGraphicsUnchecked(desc) ==
  LET key == Hash(GraphicsFields(desc))
  IN  \/ /\ key \in DOMAIN graphics
         /\ Answer(desc, graphics[key])
         /\ UNCHANGED <<next_pipeline_id, graphics, compute>>
      \/ /\ key \notin DOMAIN graphics
         /\ GraphicsVerdict(desc, PipelineCaps) = "Ok"
         /\ NewId
         /\ graphics' = With(graphics, key, next_pipeline_id)
         /\ Answer(desc, next_pipeline_id)
         /\ UNCHANGED compute

CreateGraphicsPipeline(desc) ==
  LET key == Hash(GraphicsFields(desc))
  IN  /\ GraphicsVerdict(desc, PipelineCaps) = "Ok"
      /\ \/ /\ key \in DOMAIN graphics
            /\ Answer(desc, graphics[key])
            /\ UNCHANGED <<next_pipeline_id, graphics, compute>>
         \/ /\ key \notin DOMAIN graphics
            /\ NewId
            /\ graphics' = With(graphics, key, next_pipeline_id)
            /\ Answer(desc, next_pipeline_id)
            /\ UNCHANGED compute

(* A variant of CreateComputePipeline that forgets to cache.               *)
CreateComputeUncached(desc) ==
  /\ ComputeVerdict(desc, PipelineCaps) = "Ok"
  /\ NewId
  /\ Answer(desc, next_pipeline_id)
  /\ UNCHANGED <<graphics, compute>>

(* A variant of CreateComputePipeline with ids of their own.               *)
CreateComputeApart(desc) ==
  LET id == Cardinality(DOMAIN compute) + 1
  IN  /\ ComputeVerdict(desc, PipelineCaps) = "Ok"
      /\ NewId
      /\ compute' = With(compute, Hash(ComputeFields(desc)), id)
      /\ Answer(desc, id)
      /\ UNCHANGED graphics

CreateComputePipeline(desc) ==
  LET key == Hash(ComputeFields(desc))
  IN  /\ ComputeVerdict(desc, PipelineCaps) = "Ok"
      /\ \/ /\ key \in DOMAIN compute
            /\ Answer(desc, compute[key])
            /\ UNCHANGED <<next_pipeline_id, graphics, compute>>
         \/ /\ key \notin DOMAIN compute
            /\ NewId
            /\ compute' = With(compute, key, next_pipeline_id)
            /\ Answer(desc, next_pipeline_id)
            /\ UNCHANGED graphics

-----------------------------------------------------------------------------
(* RESOURCES.  The constructor and the destructor count.                   *)
Count(kind, counter) ==
  /\ counters' = [counters EXCEPT ![kind][counter] = @ + 1]
  /\ skewed' = skewed \cup ({kind} \cap {resetting})
  /\ UNCHANGED <<pipelines, stats, resetting>>

(* `base' is the descriptor of the buffer or texture a view was made of,   *)
(* which the view does not keep: a history.                                *)
Make(o, kind, desc, base) ==
  /\ resource[o] = Null
  /\ CreationsLeft
  /\ resource' = [resource EXCEPT ![o] = [kind |-> kind, desc |-> desc, base |-> base]]
  /\ made' = made + 1
  /\ Count(kind, "created")

(* Translating a buffer validates it again and refuses nothing else.       *)
CreateBuffer(o, desc) ==
  /\ BufferVerdict(desc, ResourceCaps) = "Ok"
  /\ Make(o, "buffer", desc, Null)

CreateTexture(o, desc) ==
  /\ TextureTranslation(desc, "WebGL", ResourceCaps) = "Ok"
  /\ Make(o, "texture", desc, Null)

CreateSampler(o, desc) ==
  /\ SamplerVerdict(desc, ResourceCaps) = "Ok"
  /\ Make(o, "sampler", desc, Null)

CreateShaderModule(o, desc) ==
  /\ ShaderVerdict(desc) = "Ok"
  /\ Make(o, "shader_module", desc, Null)

CreateBufferView(o, desc, buffer) ==
  /\ resource[buffer] # Null /\ resource[buffer].kind = "buffer"
  /\ BufferViewVerdict(desc, resource[buffer].desc) = "Ok"
  /\ Make(o, "view", desc, resource[buffer].desc)

CreateTextureView(o, desc, texture) ==
  /\ resource[texture] # Null /\ resource[texture].kind = "texture"
  /\ TextureViewVerdict(desc, resource[texture].desc) = "Ok"
  /\ Make(o, "view", desc, resource[texture].desc)

Destroy(o) ==
  /\ resource[o] # Null
  /\ resource' = [resource EXCEPT ![o] = Null]
  /\ UNCHANGED made
  /\ Count(resource[o].kind, "destroyed")

-----------------------------------------------------------------------------
(* THE COUNTERS.  Each kind is read and reset by itself in both functions; *)
(* what happens between two kinds concerns neither.                        *)
Living(kind) == Cardinality({o \in Objects : resource[o] # Null /\ resource[o].kind = kind})

(* A variant of LoadOrder that loads the destroyed ones first.             *)
LoadDestroyedFirst == <<"destroyed", "created">>

(* The order of the two counters of a kind in lifecycle_stats.             *)
LoadOrder == <<"created", "destroyed">>

LoadFirst(kind) ==
  /\ stats' = [kind |-> kind,
               loaded |-> With(<<>>, LoadOrder[1], counters[kind][LoadOrder[1]]),
               living |-> 0,
               alone |-> kind \notin skewed \cup {resetting}]
  /\ UNCHANGED <<pipelines, resources, counters, resetting, skewed>>

LoadSecond ==
  /\ stats # Null
  /\ LoadOrder[2] \notin DOMAIN stats.loaded
  /\ stats' =
       [stats EXCEPT !.loaded = With(@, LoadOrder[2], counters[stats.kind][LoadOrder[2]]),
                     !.living = Living(stats.kind)]
  /\ UNCHANGED <<pipelines, resources, counters, resetting, skewed>>

ResetCreated(kind) ==
  /\ resetting = Null
  /\ resetting' = kind
  /\ counters' = [counters EXCEPT ![kind].created = 0]
  /\ skewed' = skewed \ {kind}
  /\ stats' = IF stats # Null /\ stats.kind = kind THEN [stats EXCEPT !.alone = FALSE] ELSE stats
  /\ UNCHANGED <<pipelines, resources>>

ResetDestroyed ==
  /\ resetting # Null
  /\ counters' = [counters EXCEPT ![resetting].destroyed = 0]
  /\ resetting' = Null
  /\ UNCHANGED <<pipelines, resources, stats, skewed>>

Next ==
  \/ \E desc \in GraphicsDescs : CreateGraphicsPipeline(desc)
  \/ \E desc \in ComputeDescs : CreateComputePipeline(desc)
  \/ \E o \in Objects :
       \/ \E desc \in BufferDescs : CreateBuffer(o, desc)
       \/ \E desc \in TextureDescs : CreateTexture(o, desc)
       \/ \E desc \in SamplerDescs : CreateSampler(o, desc)
       \/ \E desc \in ShaderDescs : CreateShaderModule(o, desc)
       \/ \E desc \in ViewDescs, base \in Objects :
            CreateBufferView(o, desc, base) \/ CreateTextureView(o, desc, base)
       \/ Destroy(o)
  \/ \E kind \in Kinds : LoadFirst(kind) \/ ResetCreated(kind)
  \/ LoadSecond
  \/ ResetDestroyed

Spec == Init /\ [][Next]_vars

-----------------------------------------------------------------------------
(* PROPERTIES                                                              *)

(* Every variable stays in its domain.                                     *)
Ids == 1 .. next_pipeline_id - 1

TypeOK ==
  /\ next_pipeline_id \in Nat \ {0}
  /\ \A key \in DOMAIN graphics : graphics[key] \in Ids
  /\ \A key \in DOMAIN compute : compute[key] \in Ids
  /\ made \in Nat
  /\ resource \in [Objects -> Resource \cup {Null}]
  /\ counters \in [Kinds -> [created : Nat, destroyed : Nat]]
  /\ stats = Null \/ stats.kind \in Kinds
  /\ resetting \in Kinds \cup {Null}
  /\ skewed \subseteq Kinds

(* A pipeline id names one key of one cache, whoever was answered with it: *)
(* two descriptors have the same id exactly when they agree on the fields  *)
(* that are hashed, and no compute pipeline has the id of a graphics one.  *)
PipelineOf(desc) ==
  IF desc \in GraphicsDescs THEN <<"graphics", Hash(GraphicsFields(desc))>>
  ELSE <<"compute", Hash(ComputeFields(desc))>>

IdNamesKey ==
  \A d, e \in DOMAIN answered :
    answered[d] = answered[e] <=> PipelineOf(d) = PipelineOf(e)

(* No descriptor that the device refuses gets a pipeline, though one that  *)
(* shares its key is in the cache: the hash leaves the layout and the      *)
(* rasterization out, and the validation looks at both.                    *)
RefusedHaveNone ==
  \A desc \in DOMAIN answered :
    IF desc \in GraphicsDescs THEN GraphicsVerdict(desc, PipelineCaps) = "Ok"
    ELSE ComputeVerdict(desc, PipelineCaps) = "Ok"

(* "pipeline imutável após criação": a descriptor that was answered once   *)
(* gets the same pipeline ever after.                                      *)
AnswersStay ==
  [][\A desc \in DOMAIN answered :
       desc \in DOMAIN answered' /\ answered'[desc] = answered[desc]]_vars

(* The range of every view lies inside the resource it was made of, unless *)
(* the sum of its range passes the width of its fields: the checks compare *)
(* the sum that is left of it.                                             *)
Inside(first, count, size, word) == first + count <= size \/ first + count >= word

ViewsInside ==
  \A o \in Objects : resource[o] # Null /\ resource[o].kind = "view" =>
    LET desc == resource[o].desc  base == resource[o].base
    IN  IF desc.type \in BufferViews
        THEN Inside(desc.offset, desc.size, base.size_bytes, SizeWord)
        ELSE /\ Inside(desc.mip, desc.mips, base.mip_levels, CountWord)
             /\ Inside(desc.layer, desc.layers, base.depth_or_layers, CountWord)

(* A reader of the statistics sees at most as many resources of a kind     *)
(* created and not destroyed as there are, though others create and        *)
(* destroy between its two loads: it reports no leak that is none.  Not so *)
(* when a reset of the kind runs meanwhile, or ran while others created.   *)
NoFalseLeak ==
  stats # Null /\ stats.alone /\ LoadOrder[2] \in DOMAIN stats.loaded =>
    stats.loaded["created"] - stats.loaded["destroyed"] <= stats.living
=============================================================================
