CONSTANTS
  Root = "root"
  Children = {"child", "grandchild"}
  Slots <- TreeSlots
  Child <- TreeChild
  Depths = {1, 2}
  MaxOperations = 1
  MaxErrors = 1
SPECIFICATION Spec
INVARIANT EstimateIsOfProposal
CHECK_DEADLOCK FALSE
