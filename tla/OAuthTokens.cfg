SPECIFICATION Spec
CONSTANTS
    a1 = a1
    a2 = a2
    b = b
    Users <- Goroutines
    Managers = {"A", "B"}
    ManagerOf <- ManagerOfEach
    Tasks <- TasksOfEach
    MaxTokens = 3
 
INVARIANT SavesAreKept
PROPERTY OperationsEnd
CHECK_DEADLOCK FALSE
