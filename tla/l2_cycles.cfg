SPECIFICATION Spec
CONSTANTS
    temperature = temperature
    valve = valve
    Streams = {valve}
    Sensors = {}
    CycleTimeNano = 200000000
    Jitter <- OneMs
    MaxJitter = 32
    StartTicks <- NearWrap
    MaxFrames = 5
    MaxResets = 0
    SeqMax = 3
INVARIANTS TypeOK NoFalseAlarm GapReported
PROPERTIES InOrder
