SPECIFICATION Spec
CONSTANTS
    Handlers = {h1, h2}
    Creators = {c1, c2}
    PodWorkers = {p1, p2}
    ConfigMapWorkers = {m1}
    QueueSize = 1
    MaxItems = 1
INVARIANTS TypeOK NothingRuns OnlyRequestsAreStuck
PROPERTY EndsIfRoom
CHECK_DEADLOCK FALSE
