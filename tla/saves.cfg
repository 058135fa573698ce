SPECIFICATION Spec
CONSTANTS
  Main = Main
  Sessions = {a, b}
  MaxVersion = 2
INVARIANTS TypeOK DurableUnlessOverlapped StoreIsWhole
PROPERTY StoreNeverRegresses
CHECK_DEADLOCK FALSE
