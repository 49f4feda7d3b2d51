CONSTANTS
  TileWidth = 3
  Zero = 9
  NumTiles = 3
  Fills <- MCFills
  Clips <- MCClips
  Layers <- MCLayers
  GlyphRecording <- MCGlyph
  MaxDraws = 3
  MaxLayers = 2
  MaxClips = 1
  MaxCommands = 5
  Avoided = {"unpushed", "emptyRoot", "cutout"}
SPECIFICATION Spec
INVARIANTS FrameShowsPicture
CHECK_DEADLOCK FALSE
