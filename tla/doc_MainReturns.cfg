SPECIFICATION PatientSpec
CONSTANTS
    Handlers = {h1, h2}
    Creators = {c1}
    PodWorkers = {p1}
    ConfigMapWorkers = {m1}
    QueueSize = 1
    MaxItems = 0
PROPERTY MainReturns
CHECK_DEADLOCK FALSE
