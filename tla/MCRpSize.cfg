SPECIFICATION Spec
CONSTANTS
  Sizes <- MCSizes
  Aligns = {8, 32, 256, 8192, 32768, 65536}
  Platforms <- MCPlatforms
  Null = Null
VIEW AllButMoved
INVARIANT BlockOK
PROPERTY DataKept
