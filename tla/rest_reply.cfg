SPECIFICATION Spec
CONSTANTS
    Handlers = {h1}
    Creators = {c1, c2}
    Workers = {w1, w2}
    Earlier = Earlier
    None = None
INVARIANTS TypeOK FailedReplyHasError ReadyReplyHasToken AnswersGoForward
SYMMETRY Alike
