SPECIFICATION Spec
CONSTANTS
    StatusCapacity = 2
    QueueCapacity = 1
    LogCapacity = 2
    PageLimit = 1
    MaxPublished = 4
    MaxSilent = 1
INVARIANTS TypeOK BoundedRegress NoEntrySkipped
PROPERTIES UpdateArrives StreamEnds
