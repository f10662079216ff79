SPECIFICATION FairSpec
CONSTANTS
    MaxFrames = 4
    Environments <- TestedEnvironments
INVARIANTS FrameWhole ReplyMatches WindowVisible ReplyReleased
PROPERTIES IsFrameTransport FrameAnswered
