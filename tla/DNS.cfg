\* Two connections, two loads of four configurations.
CONSTANTS
    d1 = d1  d2 = d2  s1 = s1  s2 = s2  None = None  Closed = Closed
    Clients = {h1, h2}
    Questions <- MCQuestions
    Configs <- MCConfigs
    Slots = {1, 2}
    MaxLoads = 2
    MaxAsked = 1
SPECIFICATION Spec
SYMMETRY Sym
CHECK_DEADLOCK FALSE
INVARIANTS
    NoQueryLost
    CachesFresh
    AnswerFresh
