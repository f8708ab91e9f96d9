SPECIFICATION Spec
CONSTANTS
  FIFO = 2
  LONG = 256
  NULL = NULL
  Letter <- MCLetter
  Formats <- MCFormats
  VGA_WIDTH = 2
  VGA_HEIGHT = 2
  Char = {10, 13, 32, 65, 200}
  Color = {7, 8}
  MaxPrints = 2
  MaxChars = 6
INVARIANTS LogAsPrinted
PROPERTIES ImplementsPaper
