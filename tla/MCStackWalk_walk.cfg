CONSTANTS
  Root = "root"
  Children = {"child", "grandchild"}
  Slots <- TreeSlots
  Child <- TreeChild
  Depths = {1, 2}
  MaxOperations = 1
  MaxErrors = 1
SPECIFICATION Spec
INVARIANTS
  TypeOK
  QuietInventoryIsExact
  CountedOnce
  EstimateCoversProposal
CHECK_DEADLOCK FALSE
