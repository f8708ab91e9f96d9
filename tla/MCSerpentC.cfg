SPECIFICATION Spec
CONSTANTS
  SERPENTC_MAX_VARS = 3
  SERPENTC_MAX_NAME = 3
  Name <- MCName
  Word <- MCWord
  WORD = 256
  Predefined <- MCPredefined
  Arity <- MCArity
  Texts <- AllTexts
  Programs <- MCPrograms
  Gaps <- MCGaps
  MaxEvals = 1
INVARIANTS RunsAsWritten FailsOnlyWhenFull
PROPERTIES EvalAdvances ImplementsMap
