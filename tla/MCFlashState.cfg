SPECIFICATION Spec
CONSTANTS
    MaxConfig = 2
    MaxInits = 2
INVARIANTS GivenBack ModesAgree
