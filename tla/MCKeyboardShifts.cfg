SPECIFICATION TypingSpec
CONSTANTS
  KBD_BUFFER_SIZE = 3
  Char <- MCChar
  Unshifted <- MCUnshifted
  Shifted <- MCShifted
  PlainKey = {30}
  ArrowKey = {72}
  ShiftsHeld = 2
  Backlog = 2
INVARIANT ShiftTracked
