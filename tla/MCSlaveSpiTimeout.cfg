SPECIFICATION Spec
CONSTANTS
    MaxFrames = 4
    Environments <- LateEnvironment
INVARIANT WindowSeen
