SPECIFICATION BootSpec
CONSTANTS
  PAGE_SIZE = 4
  TOTAL_PAGES = 10
  Maps <- MCMaps
  FALLBACK = 28
  Ranges <- MCRanges
  WORD = 64
  HUGE = 8
  ENTRIES = 2
  Loaders <- MCLoaders
  Buses <- MCBuses
  QOS_BACKBUFFER_BASE = 16
  QOS_BACKBUFFER_BYTES = 8
  QOS_DEFAULT_LFB_PHYS = 60
  DefaultMode <- MCDefaultMode
INVARIANTS PhysInv AccountingExact OwnedSafe OwnedIsRam PagingIsIdentity ShownAsDrawn BackbufferReserved
PROPERTIES ZeroMeansExhausted
