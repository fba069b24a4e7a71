CONSTANTS
  SizeWord = 64
  CountWord = 8
  Objects = {r1, r2}
  Null = Null
  Hash <- MCHash
  PipelineCaps <- MCPipelineCaps
  ResourceCaps <- MCResourceCaps
  GraphicsDescs <- MCGraphicsDescs
  ComputeDescs <- MCComputeDescs
  BufferDescs <- MCBufferDescs
  TextureDescs <- MCTextureDescs
  SamplerDescs <- MCSamplerDescs
  ShaderDescs <- MCShaderDescs
  ViewDescs <- MCViewDescs
  MaxCreations = 2
SPECIFICATION Spec
SYMMETRY Symmetry
INVARIANTS
  TypeOK
  IdNamesKey
  RefusedHaveNone
  ViewsInside
  NoFalseLeak
PROPERTY AnswersStay
