CONSTANTS
  MaxModels = 4
  MaxAmount = 2
  MaxTotal = 4
SPECIFICATION Spec
INVARIANTS InstructionModelsFirst AllWantedLists LowerOrdersFirst
