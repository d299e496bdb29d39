SPECIFICATION Spec
CONSTANTS
    s1 = s1
    s2 = s2
    c1 = c1
    c2 = c2
    Master = master
    Broadcast = broadcast
    NoConfig = noConfig
    Slaves = {s1, s2}
    Configs = {c1, c2}
    Flooding = FALSE
    MaxRequests = 3
    SeqMax = 10
SYMMETRY Symmetry
INVARIANTS OkMeansApplied AnsweredOnce WindowBehindPeer
PROPERTIES ConfiguredOnce ImplementsAssignment
