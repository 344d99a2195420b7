SPECIFICATION FairSpec
CONSTANTS
    m = m
    a = a
    i = i
    None = None
    Main = m
    Tasks = {m, a}
    Interrupts = {i}
    ActivateConditions <- MCActivate
    ContinueConditions <- MCContinue
    ResumeConditions <- MCResume
    Assumed = {"prompt", "tidy", "apart", "unmissed"}
CHECK_DEADLOCK FALSE
INVARIANTS
    TypeOK
    
    ActiveMeansArmed
    ListsMatch
PROPERTIES
    TimerStarts
