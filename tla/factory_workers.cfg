SPECIFICATION Spec
CONSTANTS
    None = None
    Names = {n1}
    Odps = {o1, o2, o3}
    Uids = {u1}
    Tokens = {t1}
    Requesters = {r1}
    Creators = {}
    Workers = {w1, w2}
    QueueSize = 1
    MaxLag = 1
    MaxItems = 2
    TokenWanted <- NoTokens
    Faults <- AllFaults
    Endings <- BothEndings
SYMMETRY MCSymmetry
VIEW MCView
INVARIANTS NoAbandonedPod DroppedPodIsDeleted
PROPERTIES ImplementsLifecycle
