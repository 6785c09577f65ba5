SPECIFICATION Spec
CONSTANTS
    A = A
    B = B
    a1 = a1
    b1 = b1
    None = None
    Unregistered = Unregistered
    Channels <- MCChannels
    Jobs <- MCJobs
    ChannelOf <- MCChannelOf
    FirstTables <- MCFirstTables
    MaxHandlers = 2
    Budgets <- MCBudgets
INVARIANTS TypeOK NeverShowsAnotherChannel SettledWorkspace OneLivePass
CHECK_DEADLOCK FALSE
SYMMETRY MCSymmetry
