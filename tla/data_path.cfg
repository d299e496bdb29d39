SPECIFICATION Spec
CONSTANTS
    ByteBits = 2
    ImageBytes = 2
    FooterSize = 2
    MinLen = 0
    Layouts <- SmallLayouts
INVARIANTS ValueIntact FramesAccepted
PROPERTIES Untouched
