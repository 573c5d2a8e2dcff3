SPECIFICATION Spec
CONSTANTS
    None = None
    Names = {n1}
    Odps = {o1, o2}
    Uids = {u1}
    Tokens = {t1}
    Requesters = {r1}
    Creators = {c1}
    Workers = {w1}
    QueueSize = 1
    MaxLag = 1
    MaxItems = 1
    TokenWanted <- OnlyTokens
    Faults <- AllFaults
    Endings <- BothEndings
SYMMETRY MCSymmetry
VIEW MCView
INVARIANTS TypeOK NoLostCreate NoAbandonedPod
PROPERTIES EntryStays
