SPECIFICATION Spec
CONSTANTS
  Main = Main
  Sessions = {a, b}
  MaxVersion = 2
INVARIANT AnsweredIsDurable
CHECK_DEADLOCK FALSE
