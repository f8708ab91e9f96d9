SPECIFICATION SceneSpec
CONSTANTS
  TICKS = 65536
  UINT = 65536
  DAY_TICKS = 2
  MAX_WIDGETS = 16
  Scenes <- MCScenes
  MaxLag = 2
  MaxCalls = 2
INVARIANTS Readable
PROPERTIES DateShown EnteredShown
