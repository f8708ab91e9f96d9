SPECIFICATION Spec
CONSTANTS
  SERPENTC_MAX_VARS = 2
  SERPENTC_MAX_NAME = 3
  Name <- MCName
  Word <- MCWord
  WORD = 16
  Predefined <- MCPredefined
  Arity <- MCArity
  CONSOLE_MAX_HISTORY = 3
  CONSOLE_LINE_LEN = 5
  CONSOLE_PROMPT_MAX = 4
  Printable <- MCPrintable
  BootScript <- MCBootScript
  Keys <- MCKeys
  MaxKeys = 9
INVARIANTS ConsoleInv LineAsTyped HistoryIsTail
