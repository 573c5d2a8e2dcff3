SPECIFICATION Spec
CONSTANTS
    None = None
    Names = {n1}
    Odps = {o1, o2, o3}
    Uids = {u1, u2}
    Tokens = {}
    Requesters = {r1}
    Creators = {c1}
    Workers = {w1}
    QueueSize = 1
    MaxLag = 1
    MaxItems = 1
    TokenWanted <- NoTokens
    Faults <- NoFaults
    Endings <- BothEndings
VIEW MCView
PROPERTY StaleEventIgnored
