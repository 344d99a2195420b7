SPECIFICATION Spec
CONSTANTS
    m = m
    a = a
    i = i
    None = None
    Main = m
    Tasks = {m, a}
    Interrupts = {i}
    ActivateConditions <- MCActivate
    ContinueConditions <- MCContinue
    ResumeConditions <- MCResume
    Assumed = {"tidy", "apart", "unmissed"}
CHECK_DEADLOCK FALSE
INVARIANT
    EndsWithLastTask
