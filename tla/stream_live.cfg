CONSTANTS
    a = a
    b = b
    a1 = a1
    a2 = a2
    b1 = b1
    Processes <- MCOne
    Threads <- MCTwoThreads
    ProcessOf <- MCOneOf
    Tokens = {t1, t2}
    Pollers = {p1, p2}
    Names = {n1}
    QueueLimit = 1
    ClientLimit = 2
    MailLimit = 1
    MaxRights = 3
    MaxDeaths = 0
SPECIFICATION FairSpec
INVARIANTS
    OneRecordPerToken
PROPERTIES
    CallsReturn
CHECK_DEADLOCK FALSE
