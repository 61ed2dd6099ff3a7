SPECIFICATION LiveSpec
CONSTANTS
  NULL = NULL
  Char <- MCChar
  Texts <- MCTexts
  TickText <- MCTickText
  kMaxTicks = 2
  kMaxSaid = 4
INVARIANTS TypeOK ThreadOutputWhole OnlyTickTailLost
PROPERTY PrintingEnds
