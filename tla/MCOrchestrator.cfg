SPECIFICATION Spec
CONSTANTS
    n1 = n1
    Runs = {n1}
    MaxFaults = 1
    MaxCrashes = 1
    Definitions <- MCDefinitions
    Compensable <- MCCompensable
INVARIANTS
    DependenciesFirst
    RollbackIsComplete
    RollbackAgainstDependencies
PROPERTIES
    SagaSpec
    RunsEnd
