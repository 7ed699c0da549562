CONSTANTS
    a = a
    b = b
    a1 = a1
    a2 = a2
    b1 = b1
    Processes <- MCProcesses
    Threads <- MCThreads
    ProcessOf <- MCProcessOf
    Tokens = {t1, t2}
    Pollers = {p1}
    Names = {n1}
    QueueLimit = 2
    ClientLimit = 1
    MailLimit = 2
    MaxRights = 4
    MaxDeaths = 1
SPECIFICATION Spec
INVARIANTS
    RightsHaveOwners
    SinkKnowsClients
    NoStrangers
PROPERTIES
    ImplementsLossyChannel
CHECK_DEADLOCK FALSE
