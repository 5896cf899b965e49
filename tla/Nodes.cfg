SPECIFICATION MCSpec
CONSTANTS
  Num = 2
  Wrap = 4
  TxNum = 1
  TxBlocks = 1
  Blocks = 2
  Limit = 7
  Msgs = {m1, m2}
  None = None
  Adrs = {1, 2}
  All = 3
  MaxMv = 7
  Step = 2
  Full = 2
  Pins = {1, 2}
  Normal = 1
  Long = 3
  TickWrap = 8
  Most = 4
INVARIANTS InTurn ReportsPress
PROPERTIES Drains IsQueue SendsWhatWasAsked Follows
CHECK_DEADLOCK FALSE
