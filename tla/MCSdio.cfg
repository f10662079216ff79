SPECIFICATION FairSpec
CONSTANTS
    Descs <- const_Descs
    MaxFrames = 3
    Environments <- FaultyEnvironments
INVARIANTS TypeOK FrameIntact ArmedMeansListening ReplyReleased
PROPERTIES IsFrameTransport WindowReopens FrameAnswered
