CONSTANT
    Machines <- MCMachines
SPECIFICATION Spec
INVARIANTS
    ChoiceIsBest
    QueuesServe
CHECK_DEADLOCK FALSE
