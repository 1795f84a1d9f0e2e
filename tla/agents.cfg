CONSTANTS
    Threads = {t1, t2}
    Callers = {t1, t2}
    Fitters = {ann, bob}
    Places = {here, there}
    Phones = {caller}
    Boards = {board}
    Depot = here
    HoursAgreed = {1, 2}
    Stated = {2, 9}
    Mixes <- MCMixes
    MaxQueue = 1
    Values <- MCValues
    Nothing = Nothing
    MaxAttempts = 2
    Weeks <- MCWeeks
SPECIFICATION AgentsSpec
SYMMETRY Symmetry
CHECK_DEADLOCK FALSE
INVARIANTS
    AgreementsStand
    AnsweredAsksAreClosed
    SubscribersMissNothing
    AttemptsAreAccountedFor
    NothingDescribedIsLost
    NobodyIsLetDownQuietly
    MessagesReachTheAffected
PROPERTIES FleetStaysWhole ImplementsExtraction
