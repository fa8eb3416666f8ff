CONSTANTS
  Inputs <- InstructionPair
  MaxModels = 3
  MaxAmount = 3
  MaxTotal = 3
  Limit = 0
  Length = 2
  Registers = 2
  MaxExploitable = 2
  MaxCuts = 1
  MaxResults = 16
SPECIFICATION FaultsSpec
INVARIANTS ResultWithoutDuplicates
