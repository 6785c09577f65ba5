SPECIFICATION Spec
CONSTANTS
    None = None
    c1 = c1
    c2 = c2
    f1 = f1
    f2 = f2
    j1 = j1
    j2 = j2
    failed = failed
    slow = slow
    restart = restart
    job = job
    n1 = n1
    n2 = n2
    all = all
    broken = broken
    spaced = spaced
    v1 = v1
    v2 = v2
    MaxCalls = 2
    Channels <- MCChannels
    Seconds <- MCSeconds
    FirstServers <- MCFirstServers
    Budgets <- MCBudgets
    Folders <- MCFolders
    Ages <- MCAges
    StoragePlans <- MCStoragePlans
    Jobs <- MCJobs
    Ledgers <- MCLedgers
    KitPlans <- MCKitPlans
    Tags <- MCTags
    StatusTags <- MCStatusTags
    EventTags <- MCEventTags
    HistoryPlans <- MCHistoryPlans
    Selections <- MCSelections
    Presets <- MCPresets
    Strip <- MCStrip
    Names <- MCNames
    Bundles <- MCBundles
    Items <- MCItems
    LibraryPlans <- MCLibraryPlans
    Chosen = c1
    MaxVersions = 2
    PassLimit = 1
    Restart = restart
    MaxRows = 3
    All = all
    PageLimit = 2
INVARIANTS TypeOK NeverStuck SettledPage ReportedIsSo SidecarsKept Reviewed
CHECK_DEADLOCK FALSE
