\* INIT and two more slots.
CONSTANTS
    Procs = {init, p1, p2}
    INIT_PROC_NR = init
    NONE = NONE
SPECIFICATION FairSpec
INVARIANTS
    NoPanic
    RightAnswers
PROPERTIES
    CallsAnswered
    SignalsArrive
