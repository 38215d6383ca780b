SPECIFICATION Spec
CONSTANTS
    NTasks = 2
    MaxRuns = 6
    Details = {"d1", "d2"}
    Scenarios <- MCScenarios
PROPERTIES
    RecordsAreBacked
    
    OperationEnds
