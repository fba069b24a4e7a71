----------------------------- MODULE MCGfxDevice -----------------------------
(* Model checking of GfxDevice: descriptors at the edges of the checks, on *)
(* the scale of an eight-valued count and sizes of 64 bytes.               *)
EXTENDS GfxDevice

Symmetry == Permutations(Objects)

MCHash(fields) == fields

(* The capabilities of the stub; the resources' limits are scaled down.    *)
MCPipelineCaps ==
  [supports_compute |-> TRUE, supports_wireframe |-> FALSE, supports_depth_clamp |-> FALSE,
   max_color_attachments |-> 4, max_sample_count |-> 4]

MCResourceCaps ==
  [max_buffer_size_bytes |-> 32, max_texture_dimension_1d |-> 4, max_texture_dimension_2d |-> 2,
   max_texture_dimension_3d |-> 1, max_texture_array_layers |-> 3, max_texture_mip_levels |-> 3,
   max_sampler_anisotropy |-> 8,
   supports_storage_r32_float |-> TRUE, supports_storage_rgba16_float |-> FALSE,
   sampled_formats |-> StorableFormats \cup DepthFormats,
   storage_formats |-> {"R8Unorm", "Rg8Unorm", "Rgba8Unorm", "R32Float"},
   render_target_formats |-> {"Rgba8Unorm", "Bgra8Unorm", "Rgba16Float"} \cup DepthFormats]

Stage(kind) == [stage |-> kind, module_name |-> "main", entry_point |-> "main"]
Layout == [resource_slots |-> <<{"Vertex"}>>, push_constants |-> <<>>]
Color == [format |-> "Rgba8Unorm", blend_enabled |-> FALSE]

Tiles ==
  [label |-> "tiles", layout |-> Layout, shader_stages |-> <<Stage("Vertex"), Stage("Fragment")>>,
   polygon_mode |-> "Fill", depth_clamp_enabled |-> FALSE, color_attachments |-> <<Color>>,
   sample_count |-> 1, state |-> "less"]

(* Four have the hashed fields of Tiles; two of these are refused.         *)
MCGraphicsDescs ==
  { Tiles,
    [Tiles EXCEPT !.state = "greater"],
    [Tiles EXCEPT !.polygon_mode = "Line"],
    [Tiles EXCEPT !.layout.resource_slots = <<{}>>],
    [Tiles EXCEPT !.sample_count = 4],
    [Tiles EXCEPT !.sample_count = 8],
    [Tiles EXCEPT !.shader_stages = <<Stage("Vertex")>>] }

Compute == [label |-> "tiles", layout |-> Layout, stage |-> Stage("Compute")]
MCComputeDescs == { Compute, [Compute EXCEPT !.stage.stage = "Vertex"] }

MCBufferDescs ==
  [size_bytes : {16, 32}, usage : {{"Uniform"}}]
  \cup { [size_bytes |-> 8, usage |-> {"Storage"}], [size_bytes |-> 48, usage |-> {"Index"}] }

Texture ==
  [dimension |-> "D2", format |-> "R32Float", usage |-> {"Sampled"}, width |-> 2, height |-> 1,
   depth_or_layers |-> 3, mip_levels |-> 2, sample_count |-> 1]

MCTextureDescs ==
  { Texture,
    [Texture EXCEPT !.usage = {"Storage"}, !.mip_levels = 3],
    [Texture EXCEPT !.usage = {"RenderTarget"}],
    [Texture EXCEPT !.sample_count = 2],
    [Texture EXCEPT !.dimension = "D1", !.depth_or_layers = 1] }

MCSamplerDescs ==
  [min_lod : {0, 1}, max_lod : {0}, anisotropy_enabled : {TRUE}, max_anisotropy : {8}]

MCShaderDescs == [code : {<<>>, <<0>>}, entry_point : {"main"}]

(* Ranges that begin and end inside, at the end, outside, and past the     *)
(* width of their fields.                                                  *)
MCViewDescs ==
  [type : {"BufferUniform"}, format : {"Undefined"}, offset : {0, 16, 48}, size : {16, 32},
   mip : {0}, mips : {1}, layer : {0}, layers : {1}]
  \cup
  [type : {"Texture2D"}, format : {"Undefined"}, offset : {0}, size : {0},
   mip : {0, 1}, mips : {1, 7}, layer : {0, 1}, layers : {3}]
=============================================================================
