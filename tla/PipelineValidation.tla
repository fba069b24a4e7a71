-------------------------- MODULE PipelineValidation --------------------------
(***************************************************************************)
(* engine/gfx: which pipeline descriptors a device accepts, and what of    *)
(* an accepted one the pipeline caches look at.  Of the descriptors only   *)
(* what the two ask for is kept; `state' stands for the fields that        *)
(* neither reads (topology, culling, depth and stencil, blend factors).    *)
(***************************************************************************)
EXTENDS Naturals, SequencesExt

-----------------------------------------------------------------------------
(* The checks of a validation: pairs of a defect and the code that the     *)
(* first defect found returns.                                             *)
FirstDefect(checks) ==
  LET first == SelectInSeq(checks, LAMBDA check : check[1])
  IN  IF first = 0 THEN "Ok" ELSE checks[first][2]

IsValidSampleCount(count) == count \in {1, 2, 4, 8}

LayoutBroken(layout) ==
  \/ \E i \in DOMAIN layout.resource_slots : layout.resource_slots[i] = {}
  \/ \E i \in DOMAIN layout.push_constants :
       \/ layout.push_constants[i].size_bytes = 0
       \/ layout.push_constants[i].visibility = {}

StageBroken(stage) == stage.module_name = "" \/ stage.entry_point = ""

GraphicsVerdict(desc, caps) ==
  LET Has(kind) == \E i \in DOMAIN desc.shader_stages : desc.shader_stages[i].stage = kind
  IN  FirstDefect(
        <<  <<LayoutBroken(desc.layout), "InvalidArgument">>,
            <<desc.shader_stages = <<>> \/ desc.color_attachments = <<>>, "InvalidArgument">>,
            <<Len(desc.color_attachments) > caps.max_color_attachments, "CapabilityNotSupported">>,
            <<~IsValidSampleCount(desc.sample_count), "InvalidArgument">>,
            <<desc.sample_count > caps.max_sample_count, "CapabilityNotSupported">>,
            <<desc.polygon_mode = "Line" /\ ~caps.supports_wireframe, "CapabilityNotSupported">>,
            <<desc.depth_clamp_enabled /\ ~caps.supports_depth_clamp, "CapabilityNotSupported">>,
            <<\E i \in DOMAIN desc.shader_stages : StageBroken(desc.shader_stages[i]),
              "InvalidArgument">>,
            <<Has("Compute") \/ ~Has("Vertex") \/ ~Has("Fragment"), "InvalidArgument">>  >>)

ComputeVerdict(desc, caps) ==
  FirstDefect(
    <<  <<~caps.supports_compute, "CapabilityNotSupported">>,
        <<LayoutBroken(desc.layout) \/ StageBroken(desc.stage), "InvalidArgument">>,
        <<desc.stage.stage # "Compute", "InvalidArgument">>  >>)

-----------------------------------------------------------------------------
(* What the hash of a descriptor is made of.                               *)
GraphicsFields(desc) ==
  << desc.label, desc.sample_count, desc.shader_stages,
     [i \in DOMAIN desc.color_attachments |->
        <<desc.color_attachments[i].format, desc.color_attachments[i].blend_enabled>>] >>

ComputeFields(desc) == <<desc.label, desc.stage>>
=============================================================================
