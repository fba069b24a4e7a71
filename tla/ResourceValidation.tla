-------------------------- MODULE ResourceValidation --------------------------
(***************************************************************************)
(* engine/gfx: which buffers, textures, samplers, shader modules and views *)
(* a device accepts.  Usages are sets of flags.  The sums of a view's      *)
(* range are taken in the width of their fields.                           *)
(***************************************************************************)
EXTENDS PipelineValidation

CONSTANTS
  SizeWord,   \* 2^64: the sizes and offsets of buffers
  CountWord   \* 2^32: the levels and layers of textures

ASSUME WordAssumption ==
  /\ SizeWord \in Nat \ {0} /\ SizeWord % 16 = 0
  /\ CountWord \in Nat \ {0}

DepthFormats == {"D24UnormS8", "D32Float"}
StorableFormats == {"R8Unorm", "Rg8Unorm", "Rgba8Unorm", "Bgra8Unorm", "Rgba16Float", "R32Float"}
BufferViews == {"BufferUniform", "BufferStorage"}

-----------------------------------------------------------------------------
BufferBroken(desc) ==
  \/ desc.size_bytes = 0
  \/ desc.usage = {}
  \/ desc.usage \cap {"Uniform", "Storage"} # {} /\ desc.size_bytes % 16 # 0
  \/ "Vertex" \in desc.usage /\ desc.size_bytes % 4 # 0
  \/ "Index" \in desc.usage /\ desc.size_bytes % 2 # 0

BufferVerdict(desc, caps) ==
  FirstDefect(
    <<  <<BufferBroken(desc), "InvalidArgument">>,
        <<desc.size_bytes > caps.max_buffer_size_bytes, "CapabilityNotSupported">>  >>)

TextureBroken(desc) ==
  \/ desc.format = "Undefined"
  \/ desc.usage = {}
  \/ 0 \in {desc.width, desc.height, desc.depth_or_layers, desc.mip_levels}
  \/ ~IsValidSampleCount(desc.sample_count)
  \/ desc.dimension = "D1" /\ (desc.height # 1 \/ desc.depth_or_layers # 1)
  \/ desc.sample_count > 1 /\ (desc.dimension # "D2" \/ desc.mip_levels # 1)

TextureTooLarge(desc, caps) ==
  \/ desc.mip_levels > caps.max_texture_mip_levels
  \/ /\ desc.dimension = "D1"
     /\ desc.width > caps.max_texture_dimension_1d
  \/ /\ desc.dimension = "D2"
     /\ \/ desc.width > caps.max_texture_dimension_2d
        \/ desc.height > caps.max_texture_dimension_2d
        \/ desc.depth_or_layers > caps.max_texture_array_layers
  \/ /\ desc.dimension = "D3"
     /\ \E extent \in {desc.width, desc.height, desc.depth_or_layers} :
          extent > caps.max_texture_dimension_3d

FormatUnsupported(desc, caps) ==
  \/ /\ "Storage" \in desc.usage
     /\ \/ desc.format = "R32Float" /\ ~caps.supports_storage_r32_float
        \/ desc.format = "Rgba16Float" /\ ~caps.supports_storage_rgba16_float
        \/ desc.format \notin caps.storage_formats
  \/ "Sampled" \in desc.usage /\ desc.format \notin caps.sampled_formats
  \/ "RenderTarget" \in desc.usage /\ desc.format \notin caps.render_target_formats

TextureVerdict(desc, caps) ==
  FirstDefect(
    <<  <<TextureBroken(desc), "InvalidArgument">>,
        <<"Storage" \in desc.usage /\ desc.format \notin StorableFormats, "IncompatibleUsage">>,
        <<TextureTooLarge(desc, caps), "CapabilityNotSupported">>,
        <<FormatUnsupported(desc, caps), "CapabilityNotSupported">>  >>)

(* Translating a texture validates it again.                               *)
TextureTranslation(desc, api, caps) ==
  FirstDefect(
    <<  <<TextureVerdict(desc, caps) # "Ok", TextureVerdict(desc, caps)>>,
        <<api = "WebGL" /\ desc.dimension = "D1", "CapabilityNotSupported">>  >>)

SamplerVerdict(desc, caps) ==
  FirstDefect(
    <<  <<desc.min_lod > desc.max_lod, "InvalidArgument">>,
        <<desc.anisotropy_enabled /\ desc.max_anisotropy < 2, "InvalidArgument">>,
        <<~desc.anisotropy_enabled /\ desc.max_anisotropy # 1, "InvalidArgument">>,
        <<desc.anisotropy_enabled /\ desc.max_anisotropy > caps.max_sampler_anisotropy,
          "CapabilityNotSupported">>  >>)

ShaderVerdict(desc) ==
  FirstDefect(<<  <<desc.code = <<>> \/ desc.entry_point = "", "InvalidArgument">>  >>)

-----------------------------------------------------------------------------
(* A variant of EndsAfter that looks only where the range begins.          *)
BeginsAfter(first, count, size, word) == first > size

(* The end of a range, compared after the sum has lost its high bits.      *)
EndsAfter(first, count, size, word) == (first + count) % word > size

BufferViewVerdict(desc, buffer) ==
  FirstDefect(
    <<  <<desc.type \notin BufferViews \/ desc.size = 0, "InvalidArgument">>,
        <<EndsAfter(desc.offset, desc.size, buffer.size_bytes, SizeWord), "OutOfRange">>,
        <<desc.type = "BufferUniform" /\ "Uniform" \notin buffer.usage, "IncompatibleUsage">>,
        <<desc.type = "BufferStorage" /\ "Storage" \notin buffer.usage, "IncompatibleUsage">>,
        <<desc.offset % 16 # 0, "InvalidArgument">>  >>)

TextureViewVerdict(desc, texture) ==
  FirstDefect(
    <<  <<desc.type \in BufferViews, "InvalidArgument">>,
        <<desc.mip >= texture.mip_levels \/ desc.mips = 0, "OutOfRange">>,
        <<EndsAfter(desc.mip, desc.mips, texture.mip_levels, CountWord), "OutOfRange">>,
        <<desc.layer >= texture.depth_or_layers \/ desc.layers = 0, "OutOfRange">>,
        <<EndsAfter(desc.layer, desc.layers, texture.depth_or_layers, CountWord), "OutOfRange">>,
        <<desc.format \notin {"Undefined", texture.format}, "IncompatibleUsage">>,
        <<texture.usage \cap {"Sampled", "Storage"} = {}, "IncompatibleUsage">>  >>)
=============================================================================
