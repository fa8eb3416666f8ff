CONSTANTS
  MaxHooks = 3
  MaxCycles = 2
SPECIFICATION CopySpec
PROPERTIES RegisteredHooksCalled
