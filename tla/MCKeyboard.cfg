SPECIFICATION TypingSpec
CONSTANTS
  KBD_BUFFER_SIZE = 3
  Char <- MCChar
  Unshifted <- MCUnshifted
  Shifted <- MCShifted
  PlainKey = {30}
  ArrowKey = {72}
  ShiftsHeld = 1
  Backlog = 2
INVARIANTS TypingInv GetNeverEmpty DecodedAsTyped
PROPERTIES QueueSpec DropOnlyWhenFull
