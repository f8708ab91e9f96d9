SPECIFICATION FairSpec
CONSTANTS
  WORD = 128
  Color <- MCColor
  COLOR_TRANSPARENT = "transparent"
  Font <- MCFont
  Sessions <- MCSessions
  Ink = "ink"
  Paper = "paper"
INVARIANTS StaysOnScreen RectIsExact LineIsStraight CircleIsRound DiscIsFilledInside TextIsReadable FrameIsComplete
PROPERTIES CallsReturn
