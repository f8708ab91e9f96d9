SPECIFICATION Spec
CONSTANTS
  KBD_BUFFER_SIZE = 3
  Char <- MCChar
  Unshifted <- MCUnshifted
  Shifted <- MCShifted
  Machines <- Desktop
  SCREEN_W = 8
  SCREEN_H = 6
  TICKS = 2
  Keys = {30}
  MaxActs = 2
  Moves <- MCMoves
  NoisyBoot = TRUE
INVARIANT AcksAreAcks
