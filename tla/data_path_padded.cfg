SPECIFICATION Spec
CONSTANTS
    ByteBits = 2
    ImageBytes = 2
    FooterSize = 2
    MinLen = 6
    Layouts <- ShortFrames
INVARIANTS FramesAccepted
