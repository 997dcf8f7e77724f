SPECIFICATION Spec
CONSTANTS
    c1 = c1
    c2 = c2
    Clients = {c1}
    MaxWorkers = 3
    Started = 2
    Counts = {1, 2}
    Room = 2
    MaxCalls = 2
    Destroyer = c1
CHECK_DEADLOCK FALSE
INVARIANTS
    WorkIsCounted
    NoWorkForgotten
    NewWorkerSurvives
PROPERTIES
    SetLeavesAtMost
    CallsReturn
