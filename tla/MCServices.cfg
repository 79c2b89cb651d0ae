SPECIFICATION ServicesSpec
CONSTANTS
    v1 = v1
    v2 = v2
    v3 = v3
    c1 = c1
    c2 = c2
    s1 = s1
    s2 = s2
    m1 = m1
    m2 = m2
    x1 = x1
    x2 = x2
    f1 = f1
    f2 = f2
    N = 2
    Old = {1}
    Period <- Periods
    QueueJobs = {2}
    RunOnceJobs = {1}
    MaxDelay = 9
    MaxTime = 3
    MaxRequests = 2
    MaxRestarts = 1
    Exts = {"base", "app"}
    Requires <- AppNeedsBase
    PoolKind = "community"
    CrashLoopMax = 1
    MaxSpawns = 3
    MaxAdmin = 1
    Visits = {v1, v2, v3}
    MaxConcurrent = 2
    MaxChanges = 3
    Topics = {"a", "b"}
    Clients = {c1, c2}
    TopicsOf <- BothOnA
    RingSize = 1
    MaxReplayTopics = 1
    MaxPerTopic = 1
    MaxSeq = 2
    MaxHalf = 1
    MaxLives = 2
    Providers <- TwoProviders
    Callers = {s1, s2}
    MaxLeaks = 1
    McpOps = {m1, m2}
    MaxClients = 3
    MaxPatches = 3
    Boxes = {"w"}
    BoxOps = {x1, x2}
    MaxWorkspaces = 1
    MaxContainers = 2
    MaxBoxLives = 2
    Owners = {"ext"}
    FileOps = {f1, f2}
    MaxUpload = 2
    StorageQuota = 1
    MaxFiles = 2
INVARIANTS ServicesTypeOK CronInStep SettledAgrees TableSettles NothingMissed StopsInOrder ClientsAccounted BoxesMatch FilesPaired
CHECK_DEADLOCK FALSE
