SPECIFICATION Spec
CONSTANTS
    None = None
    token = token
    rest = rest
    log = log
    Users <- MCUsers
    Dirs <- MCUsers
    DirOf <- MCDirOf
    Before <- MCBefore
    MaxEvents = 2
    Certs = {token, rest}
    Mounted = {token}
    MaxVersion = 3
    Log = log
    LogMounted = TRUE
INVARIANTS TypeOK CaughtUp LevelFollowsFile
PROPERTIES NeverOlder
CHECK_DEADLOCK FALSE
