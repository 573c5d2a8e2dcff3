SPECIFICATION LiveSpec
CONSTANTS
    Keys = {k1, k2}
    Deletable = {k1}
    Workers = {w1, w2}
    None = None
INVARIANTS TypeOK NoMissedChange OneAtATime
PROPERTIES ChangeIsRead ImplementsFactoryQueue
