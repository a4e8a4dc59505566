CONSTANTS
  Width = 8
  Height = 8
  PlaneScale = 32
  PositionScale = 256
  Nudge = 8
  FillUnit = 4
  Settings <- MCSettings
  Masks <- MCMasks
  Polygons <- MCPolygons
  Ends <- MCEnds
  Corners <- MCCorners
  Sides = {0, 1, 2, 4}
  Shadings <- MCShadings
SPECIFICATION RasterSpec
INVARIANTS SeamDrawnOnce ShadeInRange LineExact SpriteIsQuad CopyFaithful
CHECK_DEADLOCK FALSE
