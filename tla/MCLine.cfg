CONSTANTS
  Space = " "
  Bang = "!"
  Minus = "-"
  Newline = "newline"
  None = None
  Rank <- MCRank
  Digit <- MCDigit
  KeyText <- MCKeyText
  Idle <- MCIdle
  ParamWord <- MCParamWord
  Views <- MCViews
  Script <- MCScript
  Piece = 2
  Slack = 10
  MaxUnsigned = 1000
  MaxLength = 3
  MaxKill = 1
  MaxEntry = 1
  MaxIndex = 2
  NoValue = NoValue
  wFlag = wFlag
  wOption = wOption
  wValid = wValid
  wBad = wBad
  vFlag = vFlag
  vOption = vOption
  vValid = vValid
  vDefault = vDefault
  Validated <- MCValidated
  ParamLists <- MCParamLists
  ArgumentLists <- MCArgumentLists
SPECIFICATION Spec
INVARIANTS LineKept ExpandsReferences CompletionsOnce PiecesMakeLines ParsesAsDeclared
PROPERTY ImplementsEditBuffer
CHECK_DEADLOCK FALSE
