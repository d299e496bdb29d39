SPECIFICATION RestartSpec
CONSTANTS
    s1 = s1
    c1 = c1
    Master = master
    Broadcast = broadcast
    NoConfig = noConfig
    Slaves = {s1}
    Configs = {c1}
    Flooding = FALSE
    MaxRequests = 3
    MaxRestarts = 1
    SeqMax = 2
INVARIANTS TypeOK AnsweredOnce OkMeansConfigured
PROPERTIES CallReturns
