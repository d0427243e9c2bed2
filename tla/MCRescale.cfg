\* The input has no common divisor with most of the sizes.
CONSTANTS
  SCALE = 8
  NWIDTH = 7
  NHEIGHT = 3
  Widths <- SomeWidths
  Heights <- SomeHeights
  Bytes = {0, 255}
SPECIFICATION RescaleSpec
INVARIANTS
  StaysInImage
  BetweenNeighbours
PROPERTIES
  NearExact
