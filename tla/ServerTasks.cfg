SPECIFICATION Spec
CONSTANTS
    Workers = {w1, w2}
    Free = Free
    Orphan = Orphan
    Paths = {p1}
    MaxEvents = 4
    MaxCrashes = 1
INVARIANTS CreatedAgrees SavesAudited
PROPERTIES OperatorsDecide TasksNeverResurrect 
CHECK_DEADLOCK FALSE
