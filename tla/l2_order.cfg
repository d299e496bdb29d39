SPECIFICATION Spec
CONSTANTS
    temperature = temperature
    valve = valve
    Streams = {temperature, valve}
    Sensors = {temperature}
    CycleTimeNano = 200000000
    Jitter <- Exact
    MaxJitter = 0
    StartTicks <- FromZero
    MaxFrames = 3
    MaxResets = 1
    SeqMax = 10
INVARIANTS WindowBehindProducer
PROPERTIES InOrder
