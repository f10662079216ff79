SPECIFICATION Spec
CONSTANTS
    Descs <- const_Descs
    MaxFrames = 3
    Environments <- FastEnvironment
INVARIANT ArmedMeansListening
