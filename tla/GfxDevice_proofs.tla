--------------------------- MODULE GfxDevice_proofs ---------------------------
(***************************************************************************)
(* Theorems about GfxDevice for any descriptors, any capabilities, any     *)
(* hash of the fields and any widths, and their proofs.                    *)
(***************************************************************************)
EXTENDS GfxDevice, PositionFacts, FiniteSetTheorems, TLAPS

-----------------------------------------------------------------------------
(* RANGES                                                                  *)

(* What a validation accepts has none of the defects it looks for.         *)
LEMMA NoDefect ==
  ASSUME NEW checks, Len(checks) \in Nat,
         \A i \in 1 .. Len(checks) : checks[i][2] # "Ok",
         FirstDefect(checks) = "Ok"
  PROVE  \A i \in 1 .. Len(checks) : ~ checks[i][1]
<1> DEFINE Defects == {i \in 1 .. Len(checks) : checks[i][1]}
<1>1. CASE Defects # {}
  <2>1. Min(Defects) \in Defects
    <3>1. Defects \in SUBSET Nat
      OBVIOUS
    <3>2. QED
      <4> HIDE DEF Defects
      <4> QED BY <1>1, <3>1, FirstPosition
  <2>2. FirstDefect(checks) = checks[Min(Defects)][2]
    <3>1. Min(Defects) # 0
      BY <2>1
    <3>2. QED
      BY <1>1, <3>1 DEF FirstDefect, SelectInSeq
  <2>3. QED
    BY <2>1, <2>2
<1>2. CASE Defects = {}
  BY <1>2
<1>3. QED
  BY <1>1, <1>2

(* A range whose wrapped end is not after the size is inside it or wraps.  *)
LEMMA NotAfterIsInside ==
  ASSUME NEW first \in Nat, NEW count \in Nat, NEW size \in Nat, NEW word \in Nat \ {0},
         ~ EndsAfter(first, count, size, word)
  PROVE  Inside(first, count, size, word)
<1>1. CASE first + count < word
  <2>1. (first + count) % word = first + count
    BY <1>1
  <2>2. QED
    BY <2>1 DEF EndsAfter, Inside
<1>2. CASE first + count >= word
  BY <1>2 DEF Inside
<1>3. QED
  BY <1>1, <1>2

(* The views of a buffer that are accepted lie inside it.                  *)
LEMMA BufferViewFits ==
  ASSUME NEW desc \in ViewDescs, NEW buffer \in BufferDescs,
         BufferViewVerdict(desc, buffer) = "Ok"
  PROVE  /\ desc.type \in BufferViews
         /\ Inside(desc.offset, desc.size, buffer.size_bytes, SizeWord)
<1> DEFINE checks ==
    <<  <<desc.type \notin BufferViews \/ desc.size = 0, "InvalidArgument">>,
        <<EndsAfter(desc.offset, desc.size, buffer.size_bytes, SizeWord), "OutOfRange">>,
        <<desc.type = "BufferUniform" /\ "Uniform" \notin buffer.usage, "IncompatibleUsage">>,
        <<desc.type = "BufferStorage" /\ "Storage" \notin buffer.usage, "IncompatibleUsage">>,
        <<desc.offset % 16 # 0, "InvalidArgument">>  >>
<1>1. /\ Len(checks) = 5
      /\ \A i \in 1 .. Len(checks) : checks[i][2] # "Ok"
  OBVIOUS
<1>2. FirstDefect(checks) = "Ok"
  BY DEF BufferViewVerdict
<1>3. \A i \in 1 .. Len(checks) : ~ checks[i][1]
  <2> HIDE DEF checks
  <2>1. Len(checks) \in Nat
    BY <1>1
  <2>2. QED
    BY <1>1, <1>2, <2>1, NoDefect
<1>4. ~ checks[1][1] /\ ~ checks[2][1]
  <2> HIDE DEF checks
  <2> QED BY <1>1, <1>3
<1>5. /\ desc.type \in BufferViews
      /\ ~ EndsAfter(desc.offset, desc.size, buffer.size_bytes, SizeWord)
  BY <1>4
<1>6. QED
  BY <1>5, NotAfterIsInside, DeviceAssumption, WordAssumption

(* So do the views of a texture, in its levels and in its layers.          *)
LEMMA TextureViewFits ==
  ASSUME NEW desc \in ViewDescs, NEW texture \in TextureDescs,
         TextureViewVerdict(desc, texture) = "Ok"
  PROVE  /\ desc.type \notin BufferViews
         /\ Inside(desc.mip, desc.mips, texture.mip_levels, CountWord)
         /\ Inside(desc.layer, desc.layers, texture.depth_or_layers, CountWord)
<1> DEFINE checks ==
    <<  <<desc.type \in BufferViews, "InvalidArgument">>,
        <<desc.mip >= texture.mip_levels \/ desc.mips = 0, "OutOfRange">>,
        <<EndsAfter(desc.mip, desc.mips, texture.mip_levels, CountWord), "OutOfRange">>,
        <<desc.layer >= texture.depth_or_layers \/ desc.layers = 0, "OutOfRange">>,
        <<EndsAfter(desc.layer, desc.layers, texture.depth_or_layers, CountWord), "OutOfRange">>,
        <<desc.format \notin {"Undefined", texture.format}, "IncompatibleUsage">>,
        <<texture.usage \cap {"Sampled", "Storage"} = {}, "IncompatibleUsage">>  >>
<1>1. /\ Len(checks) = 7
      /\ \A i \in 1 .. Len(checks) : checks[i][2] # "Ok"
  OBVIOUS
<1>2. FirstDefect(checks) = "Ok"
  BY DEF TextureViewVerdict
<1>3. \A i \in 1 .. Len(checks) : ~ checks[i][1]
  <2> HIDE DEF checks
  <2>1. Len(checks) \in Nat
    BY <1>1
  <2>2. QED
    BY <1>1, <1>2, <2>1, NoDefect
<1>4. ~ checks[1][1] /\ ~ checks[3][1] /\ ~ checks[5][1]
  <2> HIDE DEF checks
  <2> QED BY <1>1, <1>3
<1>5. /\ desc.type \notin BufferViews
      /\ ~ EndsAfter(desc.mip, desc.mips, texture.mip_levels, CountWord)
      /\ ~ EndsAfter(desc.layer, desc.layers, texture.depth_or_layers, CountWord)
  BY <1>4
<1>6. QED
  BY <1>5, NotAfterIsInside, DeviceAssumption, WordAssumption

-----------------------------------------------------------------------------
(* PIPELINES                                                               *)

(* The caches share the ids without sharing one, and none is still to be   *)
(* given.                                                                  *)
CachesNumbered ==
  /\ next_pipeline_id \in Nat \ {0}
  /\ \A key \in DOMAIN graphics : graphics[key] \in Ids
  /\ \A key \in DOMAIN compute : compute[key] \in Ids
  /\ \A k, l \in DOMAIN graphics : graphics[k] = graphics[l] => k = l
  /\ \A k, l \in DOMAIN compute : compute[k] = compute[l] => k = l
  /\ \A k \in DOMAIN graphics : \A l \in DOMAIN compute : graphics[k] # compute[l]

(* Every answer is an accepted descriptor's, and is in the cache.          *)
GraphicsAnswer(desc) ==
  /\ desc \in GraphicsDescs
  /\ GraphicsVerdict(desc, PipelineCaps) = "Ok"
  /\ Hash(GraphicsFields(desc)) \in DOMAIN graphics
  /\ answered[desc] = graphics[Hash(GraphicsFields(desc))]

ComputeAnswer(desc) ==
  /\ desc \in ComputeDescs
  /\ ComputeVerdict(desc, PipelineCaps) = "Ok"
  /\ Hash(ComputeFields(desc)) \in DOMAIN compute
  /\ answered[desc] = compute[Hash(ComputeFields(desc))]

AnswersCached ==
  \A desc \in DOMAIN answered : GraphicsAnswer(desc) \/ ComputeAnswer(desc)

PipelineInv == CachesNumbered /\ AnswersCached

(* What the caches keep through every step: once a key has an id, it has   *)
(* that id.                                                                *)
CachesKept ==
  /\ \A key \in DOMAIN graphics : key \in DOMAIN graphics' /\ graphics'[key] = graphics[key]
  /\ \A key \in DOMAIN compute : key \in DOMAIN compute' /\ compute'[key] = compute[key]

(* Creating a graphics pipeline finds its key in the cache or adds it.     *)
LEMMA GraphicsStep ==
  ASSUME PipelineInv, NEW desc \in GraphicsDescs, CreateGraphicsPipeline(desc)
  PROVE  /\ CachesNumbered' /\ CachesKept
         /\ answered' = With(answered, desc, answered'[desc])
         /\ GraphicsAnswer(desc)'
<1> DEFINE key == Hash(GraphicsFields(desc))
<1>1. CASE key \in DOMAIN graphics
  <2>1. /\ UNCHANGED <<next_pipeline_id, graphics, compute>>
        /\ answered' = With(answered, desc, graphics[key])
    BY <1>1 DEF CreateGraphicsPipeline, Answer
  <2>2. answered'[desc] = graphics[key]
    BY <2>1 DEF With
  <2>3. GraphicsVerdict(desc, PipelineCaps) = "Ok"
    BY DEF CreateGraphicsPipeline
  <2>4. CachesNumbered' /\ CachesKept
    BY <2>1 DEF PipelineInv, CachesNumbered, CachesKept, Ids
  <2>5. QED
    BY <1>1, <2>1, <2>2, <2>3, <2>4 DEF GraphicsAnswer
<1>2. CASE key \notin DOMAIN graphics
  <2>1. /\ next_pipeline_id' = next_pipeline_id + 1
        /\ graphics' = With(graphics, key, next_pipeline_id)
        /\ compute' = compute
        /\ answered' = With(answered, desc, next_pipeline_id)
    BY <1>2 DEF CreateGraphicsPipeline, Answer, NewId
  <2>2. /\ DOMAIN graphics' = DOMAIN graphics \cup {key}
        /\ graphics'[key] = next_pipeline_id
        /\ \A k \in DOMAIN graphics : graphics'[k] = graphics[k]
    BY <1>2, <2>1 DEF With
  <2>3. answered'[desc] = next_pipeline_id
    BY <2>1 DEF With
  <2>4. GraphicsVerdict(desc, PipelineCaps) = "Ok"
    BY DEF CreateGraphicsPipeline
  <2>5. CachesNumbered'
    BY <1>2, <2>1, <2>2 DEF PipelineInv, CachesNumbered, Ids
  <2>6. CachesKept
    BY <2>1, <2>2 DEF CachesKept
  <2>7. QED
    BY <2>1, <2>2, <2>3, <2>4, <2>5, <2>6 DEF GraphicsAnswer
<1>3. QED
  BY <1>1, <1>2

(* Creating a compute pipeline does the same with the other cache.         *)
LEMMA ComputeStep ==
  ASSUME PipelineInv, NEW desc \in ComputeDescs, CreateComputePipeline(desc)
  PROVE  /\ CachesNumbered' /\ CachesKept
         /\ answered' = With(answered, desc, answered'[desc])
         /\ ComputeAnswer(desc)'
<1> DEFINE key == Hash(ComputeFields(desc))
<1>1. CASE key \in DOMAIN compute
  <2>1. /\ UNCHANGED <<next_pipeline_id, graphics, compute>>
        /\ answered' = With(answered, desc, compute[key])
    BY <1>1 DEF CreateComputePipeline, Answer
  <2>2. answered'[desc] = compute[key]
    BY <2>1 DEF With
  <2>3. ComputeVerdict(desc, PipelineCaps) = "Ok"
    BY DEF CreateComputePipeline
  <2>4. CachesNumbered' /\ CachesKept
    BY <2>1 DEF PipelineInv, CachesNumbered, CachesKept, Ids
  <2>5. QED
    BY <1>1, <2>1, <2>2, <2>3, <2>4 DEF ComputeAnswer
<1>2. CASE key \notin DOMAIN compute
  <2>1. /\ next_pipeline_id' = next_pipeline_id + 1
        /\ compute' = With(compute, key, next_pipeline_id)
        /\ graphics' = graphics
        /\ answered' = With(answered, desc, next_pipeline_id)
    BY <1>2 DEF CreateComputePipeline, Answer, NewId
  <2>2. /\ DOMAIN compute' = DOMAIN compute \cup {key}
        /\ compute'[key] = next_pipeline_id
        /\ \A k \in DOMAIN compute : compute'[k] = compute[k]
    BY <1>2, <2>1 DEF With
  <2>3. answered'[desc] = next_pipeline_id
    BY <2>1 DEF With
  <2>4. ComputeVerdict(desc, PipelineCaps) = "Ok"
    BY DEF CreateComputePipeline
  <2>5. CachesNumbered'
    BY <1>2, <2>1, <2>2 DEF PipelineInv, CachesNumbered, Ids
  <2>6. CachesKept
    BY <2>1, <2>2 DEF CachesKept
  <2>7. QED
    BY <2>1, <2>2, <2>3, <2>4, <2>5, <2>6 DEF ComputeAnswer
<1>3. QED
  BY <1>1, <1>2

(* The steps that leave the pipelines alone.                               *)
LEMMA OtherSteps ==
  ASSUME Next
  PROVE  \/ \E desc \in GraphicsDescs : CreateGraphicsPipeline(desc)
         \/ \E desc \in ComputeDescs : CreateComputePipeline(desc)
         \/ UNCHANGED pipelines
  BY DEF Next, CreateBuffer, CreateTexture, CreateSampler, CreateShaderModule, CreateBufferView,
         CreateTextureView, Destroy, Make, Count, LoadFirst, LoadSecond, ResetCreated, ResetDestroyed

(* An answer that was given stays what it is.                              *)
LEMMA PipelineStep ==
  ASSUME PipelineInv, [Next]_vars
  PROVE  /\ PipelineInv'
         /\ \A desc \in DOMAIN answered :
              desc \in DOMAIN answered' /\ answered'[desc] = answered[desc]
<1>1. ASSUME NEW desc \in GraphicsDescs, CreateGraphicsPipeline(desc)
      PROVE  /\ PipelineInv'
             /\ \A d \in DOMAIN answered : d \in DOMAIN answered' /\ answered'[d] = answered[d]
  <2>1. /\ CachesNumbered' /\ CachesKept
        /\ answered' = With(answered, desc, answered'[desc])
        /\ GraphicsAnswer(desc)'
    BY <1>1, GraphicsStep
  <2>2. /\ DOMAIN answered' = DOMAIN answered \cup {desc}
        /\ \A d \in DOMAIN answered : d # desc => answered'[d] = answered[d]
    BY <2>1 DEF With
  <2>3. ASSUME desc \in DOMAIN answered
        PROVE  answered'[desc] = answered[desc]
    <3>1. GraphicsAnswer(desc)
      BY <2>3, DeviceAssumption DEF PipelineInv, AnswersCached, ComputeAnswer
    <3>2. QED
      BY <2>1, <3>1 DEF GraphicsAnswer, CachesKept
  <2>4. \A d \in DOMAIN answered : answered'[d] = answered[d]
    BY <2>2, <2>3
  <2>5. ASSUME NEW d \in DOMAIN answered
        PROVE  GraphicsAnswer(d)' \/ ComputeAnswer(d)'
    <3>1. answered'[d] = answered[d]
      BY <2>4
    <3>2. CASE GraphicsAnswer(d)
      BY <2>1, <3>1, <3>2 DEF GraphicsAnswer, CachesKept
    <3>3. CASE ComputeAnswer(d)
      BY <2>1, <3>1, <3>3 DEF ComputeAnswer, CachesKept
    <3>4. QED
      BY <3>2, <3>3 DEF PipelineInv, AnswersCached
  <2>6. AnswersCached'
    BY <2>1, <2>2, <2>5 DEF AnswersCached
  <2>7. QED
    BY <2>1, <2>2, <2>4, <2>6 DEF PipelineInv
<1>2. ASSUME NEW desc \in ComputeDescs, CreateComputePipeline(desc)
      PROVE  /\ PipelineInv'
             /\ \A d \in DOMAIN answered : d \in DOMAIN answered' /\ answered'[d] = answered[d]
  <2>1. /\ CachesNumbered' /\ CachesKept
        /\ answered' = With(answered, desc, answered'[desc])
        /\ ComputeAnswer(desc)'
    BY <1>2, ComputeStep
  <2>2. /\ DOMAIN answered' = DOMAIN answered \cup {desc}
        /\ \A d \in DOMAIN answered : d # desc => answered'[d] = answered[d]
    BY <2>1 DEF With
  <2>3. ASSUME desc \in DOMAIN answered
        PROVE  answered'[desc] = answered[desc]
    <3>1. ComputeAnswer(desc)
      BY <2>3, DeviceAssumption DEF PipelineInv, AnswersCached, GraphicsAnswer
    <3>2. QED
      BY <2>1, <3>1 DEF ComputeAnswer, CachesKept
  <2>4. \A d \in DOMAIN answered : answered'[d] = answered[d]
    BY <2>2, <2>3
  <2>5. ASSUME NEW d \in DOMAIN answered
        PROVE  GraphicsAnswer(d)' \/ ComputeAnswer(d)'
    <3>1. answered'[d] = answered[d]
      BY <2>4
    <3>2. CASE GraphicsAnswer(d)
      BY <2>1, <3>1, <3>2 DEF GraphicsAnswer, CachesKept
    <3>3. CASE ComputeAnswer(d)
      BY <2>1, <3>1, <3>3 DEF ComputeAnswer, CachesKept
    <3>4. QED
      BY <3>2, <3>3 DEF PipelineInv, AnswersCached
  <2>6. AnswersCached'
    BY <2>1, <2>2, <2>5 DEF AnswersCached
  <2>7. QED
    BY <2>1, <2>2, <2>4, <2>6 DEF PipelineInv
<1>3. CASE UNCHANGED pipelines
  BY <1>3 DEF pipelines, PipelineInv, CachesNumbered, Ids, AnswersCached, GraphicsAnswer,
              ComputeAnswer
<1>4. QED
  BY <1>1, <1>2, <1>3, OtherSteps DEF vars

(* Whatever the hash makes of the fields of a descriptor, the two caches   *)
(* never share an id, and every answer is in them.                         *)
THEOREM PipelineInvariance == Spec => []PipelineInv
<1>1. Init => PipelineInv
  BY DEF Init, PipelineInv, CachesNumbered, Ids, AnswersCached
<1>2. PipelineInv /\ [Next]_vars => PipelineInv'
  BY PipelineStep
<1>3. QED
  BY <1>1, <1>2, PTL DEF Spec

(* What the invariant says of one answer: a descriptor is one of graphics  *)
(* or one of compute, and is in that cache.                                *)
LEMMA OneAnswer ==
  ASSUME PipelineInv, NEW d \in DOMAIN answered
  PROVE  \/ d \in GraphicsDescs /\ GraphicsAnswer(d)
         \/ d \notin GraphicsDescs /\ ComputeAnswer(d)
  BY DeviceAssumption DEF PipelineInv, AnswersCached, GraphicsAnswer, ComputeAnswer

(* An id names one key of one cache.                                       *)
THEOREM IdsAreNames == Spec => []IdNamesKey
<1>1. ASSUME PipelineInv, NEW d \in DOMAIN answered, NEW e \in DOMAIN answered
      PROVE  answered[d] = answered[e] <=> PipelineOf(d) = PipelineOf(e)
  BY <1>1, OneAnswer DEF PipelineInv, CachesNumbered, GraphicsAnswer, ComputeAnswer, PipelineOf
<1>2. PipelineInv => IdNamesKey
  BY <1>1 DEF IdNamesKey
<1>3. QED
  BY <1>2, PipelineInvariance, PTL

(* A descriptor that the device refuses has no pipeline.                   *)
THEOREM NoneForRefused == Spec => []RefusedHaveNone
<1>1. PipelineInv => RefusedHaveNone
  BY OneAnswer DEF RefusedHaveNone, GraphicsAnswer, ComputeAnswer
<1>2. QED
  BY <1>1, PipelineInvariance, PTL

(* A descriptor that was answered with a pipeline keeps it.                *)
THEOREM PipelinesImmutable == Spec => AnswersStay
<1>1. PipelineInv /\ [Next]_vars =>
        [\A desc \in DOMAIN answered :
           desc \in DOMAIN answered' /\ answered'[desc] = answered[desc]]_vars
  BY PipelineStep
<1>2. QED
  BY <1>1, PipelineInvariance, PTL DEF Spec, AnswersStay

-----------------------------------------------------------------------------
(* RESOURCES                                                               *)

(* What a pointer points to was accepted for what it is.                   *)
Fits(res) ==
  /\ res \in Resource
  /\ res.kind = "buffer" => res.desc \in BufferDescs
  /\ res.kind = "texture" => res.desc \in TextureDescs
  /\ res.kind = "view" =>
       IF res.desc.type \in BufferViews
       THEN Inside(res.desc.offset, res.desc.size, res.base.size_bytes, SizeWord)
       ELSE /\ Inside(res.desc.mip, res.desc.mips, res.base.mip_levels, CountWord)
            /\ Inside(res.desc.layer, res.desc.layers, res.base.depth_or_layers, CountWord)

ResourceInv ==
  /\ made \in Nat
  /\ resource \in [Objects -> Resource \cup {Null}]
  /\ \A o \in Objects : resource[o] # Null => Fits(resource[o])

(* Each of the six creations makes one resource that fits.                 *)
Creation(o, kind) ==
  \E desc, base :
    /\ Fits([kind |-> kind, desc |-> desc, base |-> base])
    /\ Make(o, kind, desc, base)

(* The six actions are creations.                                          *)
LEMMA CreationSteps ==
  ASSUME ResourceInv, NEW o \in Objects,
         \/ \E desc \in BufferDescs : CreateBuffer(o, desc)
         \/ \E desc \in TextureDescs : CreateTexture(o, desc)
         \/ \E desc \in SamplerDescs : CreateSampler(o, desc)
         \/ \E desc \in ShaderDescs : CreateShaderModule(o, desc)
         \/ \E desc \in ViewDescs, base \in Objects :
              CreateBufferView(o, desc, base) \/ CreateTextureView(o, desc, base)
  PROVE  \E kind \in Kinds : Creation(o, kind)
<1>1. ASSUME NEW desc \in BufferDescs, CreateBuffer(o, desc)
      PROVE  Creation(o, "buffer")
  BY <1>1 DEF CreateBuffer, Creation, Fits, Kinds, Resource, Descs
<1>2. ASSUME NEW desc \in TextureDescs, CreateTexture(o, desc)
      PROVE  Creation(o, "texture")
  BY <1>2 DEF CreateTexture, Creation, Fits, Kinds, Resource, Descs
<1>3. ASSUME NEW desc \in SamplerDescs, CreateSampler(o, desc)
      PROVE  Creation(o, "sampler")
  BY <1>3 DEF CreateSampler, Creation, Fits, Kinds, Resource, Descs
<1>4. ASSUME NEW desc \in ShaderDescs, CreateShaderModule(o, desc)
      PROVE  Creation(o, "shader_module")
  BY <1>4 DEF CreateShaderModule, Creation, Fits, Kinds, Resource, Descs
<1>5. ASSUME NEW desc \in ViewDescs, NEW base \in Objects, CreateBufferView(o, desc, base)
      PROVE  Creation(o, "view")
  <2>1. /\ resource[base].desc \in BufferDescs
        /\ BufferViewVerdict(desc, resource[base].desc) = "Ok"
        /\ Make(o, "view", desc, resource[base].desc)
    BY <1>5 DEF CreateBufferView, ResourceInv, Fits
  <2>2. Fits([kind |-> "view", desc |-> desc, base |-> resource[base].desc])
    BY <2>1, BufferViewFits DEF Fits, Kinds, Resource, Descs
  <2>3. QED
    BY <2>1, <2>2 DEF Creation
<1>6. ASSUME NEW desc \in ViewDescs, NEW base \in Objects, CreateTextureView(o, desc, base)
      PROVE  Creation(o, "view")
  <2>1. /\ resource[base].desc \in TextureDescs
        /\ TextureViewVerdict(desc, resource[base].desc) = "Ok"
        /\ Make(o, "view", desc, resource[base].desc)
    BY <1>6 DEF CreateTextureView, ResourceInv, Fits
  <2>2. Fits([kind |-> "view", desc |-> desc, base |-> resource[base].desc])
    BY <2>1, TextureViewFits DEF Fits, Kinds, Resource, Descs
  <2>3. QED
    BY <2>1, <2>2 DEF Creation
<1>7. QED
  BY <1>1, <1>2, <1>3, <1>4, <1>5, <1>6 DEF Kinds

(* What a step does to the resources and to their counters.                *)
LEMMA TrackingSteps ==
  ASSUME ResourceInv, Next
  PROVE  \/ UNCHANGED <<resources, tracking>>
         \/ \E o \in Objects, kind \in Kinds : Creation(o, kind)
         \/ \E o \in Objects : Destroy(o)
         \/ \E kind \in Kinds : LoadFirst(kind) \/ ResetCreated(kind)
         \/ LoadSecond
         \/ ResetDestroyed
<1>1. ASSUME NEW desc \in GraphicsDescs, CreateGraphicsPipeline(desc)
      PROVE  UNCHANGED <<resources, tracking>>
  BY <1>1 DEF CreateGraphicsPipeline, Answer
<1>2. ASSUME NEW desc \in ComputeDescs, CreateComputePipeline(desc)
      PROVE  UNCHANGED <<resources, tracking>>
  BY <1>2 DEF CreateComputePipeline, Answer
<1>3. ASSUME NEW o \in Objects
      PROVE  \/ \E desc \in BufferDescs : CreateBuffer(o, desc)
             \/ \E desc \in TextureDescs : CreateTexture(o, desc)
             \/ \E desc \in SamplerDescs : CreateSampler(o, desc)
             \/ \E desc \in ShaderDescs : CreateShaderModule(o, desc)
             \/ \E desc \in ViewDescs, base \in Objects :
                  CreateBufferView(o, desc, base) \/ CreateTextureView(o, desc, base)
             => \E kind \in Kinds : Creation(o, kind)
  BY CreationSteps
<1>4. QED
  BY <1>1, <1>2, <1>3 DEF Next

(* What the pointers point to keeps fitting.                               *)
LEMMA ResourceStep ==
  ASSUME ResourceInv, [Next]_vars
  PROVE  ResourceInv'
<1>1. ASSUME NEW o \in Objects, NEW kind \in Kinds, Creation(o, kind)
      PROVE  ResourceInv'
  <2>1. PICK desc, base : /\ Fits([kind |-> kind, desc |-> desc, base |-> base])
                          /\ Make(o, kind, desc, base)
    BY <1>1 DEF Creation
  <2>2. /\ resource' = [resource EXCEPT ![o] = [kind |-> kind, desc |-> desc, base |-> base]]
        /\ made' = made + 1
    BY <2>1 DEF Make
  <2>3. ASSUME NEW p \in Objects, resource'[p] # Null
        PROVE  Fits(resource'[p])
    BY <2>1, <2>2, <2>3 DEF ResourceInv
  <2>4. QED
    BY <2>2, <2>3 DEF ResourceInv, Fits, Inside
<1>2. ASSUME NEW o \in Objects, Destroy(o)
      PROVE  ResourceInv'
  BY <1>2 DEF Destroy, ResourceInv, Fits, Inside
<1>3. ASSUME UNCHANGED resources
      PROVE  ResourceInv'
  BY <1>3 DEF resources, ResourceInv, Fits, Inside
<1>4. QED
  BY <1>1, <1>2, <1>3, TrackingSteps
     DEF vars, LoadFirst, LoadSecond, ResetCreated, ResetDestroyed

(* The range of every view is inside its resource, or its sum has passed   *)
(* the width of its fields.                                                *)
THEOREM ViewsStayInside == Spec => []ViewsInside
<1>1. Init => ResourceInv
  BY DEF Init, ResourceInv
<1>2. ResourceInv /\ [Next]_vars => ResourceInv'
  BY ResourceStep
<1>3. ResourceInv => ViewsInside
  BY DEF ResourceInv, Fits, ViewsInside
<1>4. QED
  BY <1>1, <1>2, <1>3, PTL DEF Spec

-----------------------------------------------------------------------------
(* COUNTERS                                                                *)

Counter == [created : Nat, destroyed : Nat]

StatsTyped ==
  stats # Null =>
    /\ stats.kind \in Kinds
    /\ stats.alone \in BOOLEAN
    /\ stats.living \in Nat
    /\ DOMAIN stats.loaded \in {{"created"}, {"created", "destroyed"}}
    /\ \A c \in DOMAIN stats.loaded : stats.loaded[c] \in Nat

(* The counters of a kind that no reset has disturbed account for no more  *)
(* than the living ones; a reset in progress has nothing created yet.      *)
Balanced ==
  \A kind \in Kinds \ skewed :
    counters[kind].created
      <= IF kind = resetting THEN 0 ELSE counters[kind].destroyed + Living(kind)

(* A reader that is alone has loaded no more than was created, and at the  *)
(* end no more than was destroyed and is living.                           *)
LoadedInOrder ==
  stats # Null /\ stats.alone =>
    IF "destroyed" \in DOMAIN stats.loaded
    THEN stats.loaded["created"] <= stats.loaded["destroyed"] + stats.living
    ELSE /\ stats.kind \notin skewed \cup {resetting}
         /\ stats.loaded["created"] <= counters[stats.kind].created

CounterInv ==
  /\ ResourceInv
  /\ counters \in [Kinds -> Counter]
  /\ resetting \in Kinds \cup {Null}
  /\ skewed \subseteq Kinds
  /\ StatsTyped
  /\ Balanced
  /\ LoadedInOrder

(* The objects that Living counts.                                         *)
LivingObjects(kind) == {o \in Objects : resource[o] # Null /\ resource[o].kind = kind}

(* Their number is a number.                                               *)
LEMMA LivingIsNat ==
  ASSUME NEW kind
  PROVE  /\ IsFiniteSet(LivingObjects(kind))
         /\ Living(kind) \in Nat /\ Living(kind)' \in Nat
<1>1. IsFiniteSet(LivingObjects(kind)) /\ IsFiniteSet(LivingObjects(kind)')
  BY DeviceAssumption, FS_Subset DEF LivingObjects
<1>2. QED
  BY <1>1, FS_CardinalityType DEF Living, LivingObjects

(* A creation adds one to the living of its kind.                          *)
LEMMA LivingOfMade ==
  ASSUME ResourceInv, NEW o \in Objects, NEW kind, NEW desc, NEW base, Make(o, kind, desc, base),
         Fits([kind |-> kind, desc |-> desc, base |-> base])
  PROVE  /\ Living(kind)' = Living(kind) + 1
         /\ \A k \in Kinds : k # kind => Living(k)' = Living(k)
<1>1. /\ resource[o] = Null
      /\ resource' = [resource EXCEPT ![o] = [kind |-> kind, desc |-> desc, base |-> base]]
      /\ resource \in [Objects -> Resource \cup {Null}]
      /\ [kind |-> kind, desc |-> desc, base |-> base] # Null
  BY NullAssumption DEF Make, ResourceInv, Fits
<1>2. /\ LivingObjects(kind)' = LivingObjects(kind) \cup {o}
      /\ o \notin LivingObjects(kind)
      /\ \A k \in Kinds : k # kind => LivingObjects(k)' = LivingObjects(k)
  BY <1>1 DEF LivingObjects
<1>3. Cardinality(LivingObjects(kind) \cup {o}) = Cardinality(LivingObjects(kind)) + 1
  BY <1>2, LivingIsNat, FS_AddElement
<1>4. QED
  BY <1>2, <1>3 DEF Living, LivingObjects

(* A destruction takes one from them.                                      *)
LEMMA LivingOfDestroyed ==
  ASSUME ResourceInv, NEW o \in Objects, Destroy(o)
  PROVE  \E kind \in Kinds :
           /\ kind = resource[o].kind
           /\ Living(kind) = Living(kind)' + 1
           /\ \A k \in Kinds : k # kind => Living(k)' = Living(k)
<1>0. PICK kind \in Kinds : kind = resource[o].kind
  BY DEF Destroy, ResourceInv, Resource
<1>1. /\ resource[o] # Null
      /\ resource' = [resource EXCEPT ![o] = Null]
      /\ resource \in [Objects -> Resource \cup {Null}]
  BY DEF Destroy, ResourceInv
<1>2. /\ LivingObjects(kind) = LivingObjects(kind)' \cup {o}
      /\ o \notin LivingObjects(kind)'
      /\ \A k \in Kinds : k # kind => LivingObjects(k)' = LivingObjects(k)
  BY <1>0, <1>1 DEF LivingObjects
<1>3. IsFiniteSet(LivingObjects(kind)')
  BY <1>2, LivingIsNat, FS_Subset
<1>4. Cardinality(LivingObjects(kind)' \cup {o}) = Cardinality(LivingObjects(kind)') + 1
  BY <1>2, <1>3, FS_AddElement
<1>5. QED
  BY <1>0, <1>2, <1>4 DEF Living, LivingObjects

(* A creation keeps the balance of its kind, and what a reader has loaded. *)
LEMMA CreationCounts ==
  ASSUME CounterInv, [Next]_vars, NEW o \in Objects, NEW kind \in Kinds, Creation(o, kind)
  PROVE  CounterInv'
<1>1. PICK desc, base : /\ Fits([kind |-> kind, desc |-> desc, base |-> base])
                        /\ Make(o, kind, desc, base)
  BY DEF Creation
<1>2. /\ counters' = [counters EXCEPT ![kind].created = @ + 1]
      /\ skewed' = skewed \cup ({kind} \cap {resetting})
      /\ UNCHANGED <<stats, resetting>>
  BY <1>1 DEF Make, Count
<1>3. /\ Living(kind)' = Living(kind) + 1
      /\ \A k \in Kinds : k # kind => Living(k)' = Living(k)
  BY <1>1, LivingOfMade DEF CounterInv
<1>4. \A k \in Kinds : Living(k) \in Nat
  BY LivingIsNat
<1>5. /\ counters' \in [Kinds -> Counter]
      /\ counters'[kind].created = counters[kind].created + 1
      /\ \A k \in Kinds : counters'[k].destroyed = counters[k].destroyed
      /\ \A k \in Kinds : k # kind => counters'[k] = counters[k]
  BY <1>2 DEF CounterInv, Counter
<1>6. Balanced'
  <2> SUFFICES ASSUME NEW k \in Kinds \ skewed'
               PROVE  counters'[k].created
                        <= IF k = resetting' THEN 0 ELSE counters'[k].destroyed + Living(k)'
    BY DEF Balanced
  <2>1. /\ counters[k].created \in Nat /\ counters[k].destroyed \in Nat
        /\ counters[k].created
             <= IF k = resetting THEN 0 ELSE counters[k].destroyed + Living(k)
    <3>1. k \in Kinds \ skewed
      BY <1>2
    <3>2. counters[k] \in Counter
      BY <3>1 DEF CounterInv
    <3>3. QED
      BY <3>1, <3>2 DEF CounterInv, Balanced, Counter
  <2>2. CASE k = kind
    <3>1. k # resetting
      BY <1>2, <2>2
    <3>2. counters[k].created <= counters[k].destroyed + Living(k)
      BY <2>1, <3>1
    <3>3. counters'[k].created <= counters'[k].destroyed + (Living(k) + 1)
      BY <1>4, <1>5, <2>1, <2>2, <3>2
    <3>4. Living(k)' = Living(k) + 1
      BY <1>3, <2>2
    <3>5. QED
      BY <1>2, <3>1, <3>3, <3>4
  <2>3. CASE k # kind
    BY <1>2, <1>3, <1>5, <2>1, <2>3
  <2>4. QED
    BY <2>2, <2>3
<1>7. LoadedInOrder'
  BY <1>2, <1>5 DEF CounterInv, StatsTyped, LoadedInOrder, Counter
<1>8. ResourceInv'
  BY ResourceStep DEF CounterInv
<1>9. QED
  BY <1>2, <1>5, <1>6, <1>7, <1>8 DEF CounterInv, StatsTyped

(* So does a destruction.                                                  *)
LEMMA DestructionCounts ==
  ASSUME CounterInv, [Next]_vars, NEW o \in Objects, Destroy(o)
  PROVE  CounterInv'
<1>1. PICK kind \in Kinds : /\ kind = resource[o].kind
                            /\ Living(kind) = Living(kind)' + 1
                            /\ \A k \in Kinds : k # kind => Living(k)' = Living(k)
  BY LivingOfDestroyed DEF CounterInv
<1>2. /\ counters' = [counters EXCEPT ![kind].destroyed = @ + 1]
      /\ skewed' = skewed \cup ({kind} \cap {resetting})
      /\ UNCHANGED <<stats, resetting>>
  BY <1>1 DEF Destroy, Count
<1>3. \A k \in Kinds : Living(k) \in Nat /\ Living(k)' \in Nat
  BY LivingIsNat
<1>4. /\ counters' \in [Kinds -> Counter]
      /\ counters'[kind].destroyed = counters[kind].destroyed + 1
      /\ \A k \in Kinds : counters'[k].created = counters[k].created
      /\ \A k \in Kinds : k # kind => counters'[k] = counters[k]
  BY <1>2 DEF CounterInv, Counter
<1>5. Balanced'
  BY <1>1, <1>2, <1>3, <1>4 DEF CounterInv, Balanced, Counter
<1>6. LoadedInOrder'
  BY <1>2, <1>4 DEF CounterInv, StatsTyped, LoadedInOrder, Counter
<1>7. ResourceInv'
  BY ResourceStep DEF CounterInv
<1>8. QED
  BY <1>2, <1>4, <1>5, <1>6, <1>7 DEF CounterInv, StatsTyped

(* A reader that is alone loads in the order that keeps the sum.           *)
LEMMA ReadingCounts ==
  ASSUME CounterInv, UNCHANGED <<resources, counters, resetting, skewed>>,
         (\E kind \in Kinds : LoadFirst(kind)) \/ LoadSecond
  PROVE  CounterInv'
<1>1. ResourceInv' /\ Balanced'
  BY DEF CounterInv, resources, ResourceInv, Fits, Inside, Balanced, Living
<1>2. ASSUME NEW kind \in Kinds, LoadFirst(kind)
      PROVE  StatsTyped' /\ LoadedInOrder'
  <2>1. /\ stats'.kind = kind /\ stats'.living = 0
        /\ stats'.alone \in BOOLEAN
        /\ stats'.alone => kind \notin skewed \cup {resetting}
        /\ DOMAIN stats'.loaded = {"created"}
        /\ stats'.loaded["created"] = counters[kind].created
    <3>1. PICK loaded, alone :
            /\ loaded = With(<<>>, "created", counters[kind].created)
            /\ alone = (kind \notin skewed \cup {resetting})
      OBVIOUS
    <3>2. stats' = [kind |-> kind, loaded |-> loaded, living |-> 0, alone |-> alone]
      BY <1>2, <3>1 DEF LoadFirst, LoadOrder
    <3>3. /\ DOMAIN loaded = {"created"}
          /\ loaded["created"] = counters[kind].created
      BY <3>1 DEF With
    <3>4. alone \in BOOLEAN /\ (alone => kind \notin skewed \cup {resetting})
      BY <3>1
    <3>5. QED
      BY <3>2, <3>3, <3>4
  <2>2. counters[kind].created \in Nat
    BY DEF CounterInv, Counter
  <2>3. StatsTyped'
    BY <2>1, <2>2 DEF StatsTyped
  <2>4. LoadedInOrder'
    BY <2>1, <2>2 DEF LoadedInOrder
  <2>5. QED
    BY <2>3, <2>4
<1>3. ASSUME LoadSecond
      PROVE  StatsTyped' /\ LoadedInOrder'
  <2>1. /\ stats # Null
        /\ "destroyed" \notin DOMAIN stats.loaded
    BY <1>3 DEF LoadSecond, LoadOrder
  <2>2. PICK kind \in Kinds : kind = stats.kind
    BY <2>1 DEF CounterInv, StatsTyped
  <2>3. /\ stats'.kind = kind /\ stats'.alone = stats.alone
        /\ stats'.living = Living(kind)
        /\ DOMAIN stats'.loaded = {"created", "destroyed"}
        /\ stats'.loaded["created"] = stats.loaded["created"]
        /\ stats'.loaded["destroyed"] = counters[kind].destroyed
    BY <1>3, <2>1, <2>2 DEF LoadSecond, LoadOrder, With, CounterInv, StatsTyped
  <2>4. /\ counters[kind].created \in Nat /\ counters[kind].destroyed \in Nat
        /\ Living(kind) \in Nat
    BY LivingIsNat DEF CounterInv, Counter
  <2>5. StatsTyped'
    BY <2>1, <2>3, <2>4 DEF CounterInv, StatsTyped
  <2>6. LoadedInOrder'
    BY <2>1, <2>2, <2>3, <2>4 DEF CounterInv, StatsTyped, LoadedInOrder, Balanced
  <2>7. QED
    BY <2>5, <2>6
<1>4. QED
  BY <1>1, <1>2, <1>3 DEF CounterInv

(* A reset takes its kind out of the balance until it is through.          *)
LEMMA ResettingCounts ==
  ASSUME CounterInv, (\E kind \in Kinds : ResetCreated(kind)) \/ ResetDestroyed
  PROVE  CounterInv'
<1>1. UNCHANGED resources
  BY DEF ResetCreated, ResetDestroyed
<1>2. ResourceInv' /\ \A k \in Kinds : Living(k)' = Living(k)
  BY <1>1 DEF CounterInv, resources, ResourceInv, Fits, Inside, Living
<1>3. \A k \in Kinds : Living(k) \in Nat
  BY LivingIsNat
<1>4. ASSUME NEW kind \in Kinds, ResetCreated(kind)
      PROVE  CounterInv'
  <2>1. /\ resetting = Null /\ resetting' = kind
        /\ counters' = [counters EXCEPT ![kind].created = 0]
        /\ skewed' = skewed \ {kind}
        /\ stats' = IF stats # Null /\ stats.kind = kind THEN [stats EXCEPT !.alone = FALSE]
                    ELSE stats
    BY <1>4 DEF ResetCreated
  <2>2. /\ counters' \in [Kinds -> Counter]
        /\ counters'[kind].created = 0
        /\ \A k \in Kinds : k # kind => counters'[k] = counters[k]
    BY <2>1 DEF CounterInv, Counter
  <2>3. Balanced'
    BY <1>2, <1>3, <2>1, <2>2, NullAssumption DEF CounterInv, Balanced, Counter
  <2>4. StatsTyped' /\ LoadedInOrder'
    <3>1. CASE stats # Null /\ stats.kind = kind
      <4>1. /\ stats'.kind = stats.kind /\ stats'.loaded = stats.loaded
            /\ stats'.living = stats.living /\ stats'.alone = FALSE
        BY <2>1, <3>1
      <4>2. QED
        BY <3>1, <4>1 DEF CounterInv, StatsTyped, LoadedInOrder
    <3>2. CASE ~ (stats # Null /\ stats.kind = kind)
      <4>1. stats' = stats
        BY <2>1, <3>2
      <4>2. StatsTyped'
        BY <4>1 DEF CounterInv, StatsTyped
      <4>3. CASE stats = Null
        BY <4>1, <4>2, <4>3 DEF LoadedInOrder
      <4>4. CASE stats # Null
        <5>1. PICK k \in Kinds : k = stats.kind
          BY <4>4 DEF CounterInv, StatsTyped
        <5>2. k # kind /\ counters'[k] = counters[k]
          BY <2>2, <3>2, <4>4, <5>1
        <5>3. LoadedInOrder'
          BY <2>1, <4>1, <5>1, <5>2 DEF CounterInv, LoadedInOrder
        <5>4. QED
          BY <4>2, <5>3
      <4>5. QED
        BY <4>3, <4>4
    <3>3. QED
      BY <3>1, <3>2
  <2>5. QED
    BY <1>2, <2>1, <2>2, <2>3, <2>4 DEF CounterInv
<1>5. ASSUME ResetDestroyed
      PROVE  CounterInv'
  <2>1. /\ resetting # Null /\ resetting' = Null
        /\ counters' = [counters EXCEPT ![resetting].destroyed = 0]
        /\ UNCHANGED <<stats, skewed>>
    BY <1>5 DEF ResetDestroyed
  <2>2. PICK kind \in Kinds : kind = resetting
    BY <2>1 DEF CounterInv
  <2>3. /\ counters' \in [Kinds -> Counter]
        /\ counters'[kind].destroyed = 0
        /\ \A k \in Kinds : counters'[k].created = counters[k].created
        /\ \A k \in Kinds : k # kind => counters'[k] = counters[k]
    BY <2>1, <2>2 DEF CounterInv, Counter
  <2>4. Balanced'
    BY <1>2, <1>3, <2>1, <2>2, <2>3, NullAssumption DEF CounterInv, Balanced, Counter
  <2>5. StatsTyped' /\ LoadedInOrder'
    BY <2>1, <2>2, <2>3, NullAssumption DEF CounterInv, StatsTyped, LoadedInOrder, Counter
  <2>6. QED
    BY <1>2, <2>1, <2>3, <2>4, <2>5 DEF CounterInv
<1>6. QED
  BY <1>4, <1>5

(* Every step keeps the balance and the type of what is counted.           *)
LEMMA CounterStep ==
  ASSUME CounterInv, [Next]_vars
  PROVE  CounterInv'
<1>1. CASE UNCHANGED <<resources, tracking>>
  BY <1>1 DEF resources, tracking, CounterInv, ResourceInv, Fits, Inside, StatsTyped, Balanced,
              Living, LoadedInOrder
<1>2. CASE \/ \E kind \in Kinds : LoadFirst(kind)
           \/ LoadSecond
  <2>1. UNCHANGED <<resources, counters, resetting, skewed>>
    BY <1>2 DEF LoadFirst, LoadSecond
  <2>2. QED
    BY <1>2, <2>1, ReadingCounts
<1>3. CASE \/ \E kind \in Kinds : ResetCreated(kind)
           \/ ResetDestroyed
  BY <1>3, ResettingCounts
<1>4. QED
  BY <1>1, <1>2, <1>3, CreationCounts, DestructionCounts, TrackingSteps DEF vars, CounterInv

(* The counters account for the living resources, kind by kind, whatever  *)
(* readers and resets run in between.                                      *)
THEOREM CounterInvariance == Spec => []CounterInv
<1>1. Init => CounterInv
  <2> SUFFICES ASSUME Init PROVE CounterInv
    OBVIOUS
  <2>1. \A k \in Kinds : Living(k) \in Nat
    BY LivingIsNat
  <2>2. QED
    BY <2>1 DEF Init, CounterInv, ResourceInv, Counter, StatsTyped, Balanced, LoadedInOrder
<1>2. CounterInv /\ [Next]_vars => CounterInv'
  BY CounterStep
<1>3. QED
  BY <1>1, <1>2, PTL DEF Spec

(* Whoever reads the statistics of a kind while others create and destroy  *)
(* counts no leak that is none.                                            *)
THEOREM NoFalseLeaks == Spec => []NoFalseLeak
<1>1. CounterInv => NoFalseLeak
  BY DEF CounterInv, StatsTyped, LoadedInOrder, NoFalseLeak, LoadOrder
<1>2. QED
  BY <1>1, CounterInvariance, PTL

(* Every variable of the device stays in its domain.                       *)
THEOREM TypeCorrect == Spec => []TypeOK
<1>1. PipelineInv /\ CounterInv => TypeOK
  BY DEF PipelineInv, CachesNumbered, CounterInv, ResourceInv, StatsTyped, Counter, TypeOK
<1>2. QED
  BY <1>1, PipelineInvariance, CounterInvariance, PTL

=============================================================================
