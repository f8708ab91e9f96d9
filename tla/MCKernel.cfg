SPECIFICATION FairSpec
CONSTANTS
  KBD_BUFFER_SIZE = 3
  Char <- MCChar
  Unshifted <- MCUnshifted
  Shifted <- MCShifted
  Machines <- MCMachines
  SCREEN_W = 8
  SCREEN_H = 6
  TICKS = 2
  Keys = {30}
  MaxActs = 2
  Moves <- MCMoves
  NoisyBoot = FALSE
INVARIANTS KernelInv KeysConserved PointerFollows BackInStep
PROPERTIES FramesForever KeysHandled CursorFollows
