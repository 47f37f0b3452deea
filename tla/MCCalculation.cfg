\* Ints of two bytes of four values each: -8 to 7.  Up to three operands, among
\* them both ends of the range.
CONSTANTS
  WordSz = 2
  Base = 4
  MaxOpnds = 3
  Programs = {"fixed", "pb", "udp"}
  Operators = {"+", "-", "*", "/", "?"}
  Counts <- MCCounts
  Operands <- MCOperands
  Unwritten = Unwritten
  None = None
SPECIFICATION FairSpec
INVARIANTS
  TypeOK
  OwnResult
  TrapExplained
PROPERTIES
  CallEnds
\* The call ends.
CHECK_DEADLOCK FALSE
