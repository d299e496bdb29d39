SPECIFICATION Spec
CONSTANT BufferMax = 2
INVARIANTS ClosedUntilOp
PROPERTIES OpInLockstep ValveFollows MasterEnds DemoCompletes
