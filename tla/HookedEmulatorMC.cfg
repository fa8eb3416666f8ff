CONSTANTS
  MaxHooks = 3
  MaxCycles = 2
SPECIFICATION Spec
INVARIANTS NoDeadCall LiveHooksRegistered StopNotLost
PROPERTIES RegisteredHooksCalled RemovalsCompleted
