SPECIFICATION Spec
CONSTANTS
  WORD = 128
  Color <- MCColor
  COLOR_TRANSPARENT = "transparent"
  Font <- MCFont
  Sessions <- OddFrames
  Ink = "ink"
  Paper = "paper"
INVARIANT RemainderHandled
