SPECIFICATION Spec
CONSTANTS
    None = None
    cm1 = cm1
    cm2 = cm2
    a1 = a1
    a2 = a2
    g1 = g1
    g2 = g2
    ConfigMaps = {cm1, cm2}
    Applications = {a1, a2}
    Groups = {g1, g2}
    Contents <- ContentsOfOneApplication
    MaxEvents = 1
    Creators = {c1}
    Other = Other
    BindUser = TRUE
    TokenServices <- WithAndWithout
INVARIANTS TypeOK TemplateCurrent AdmittedByItsTemplate AttemptHasOutcome TokenFollowsPod
PROPERTY ImplementsFactoryCreator
