SPECIFICATION FeaturesSpec
CONSTANTS
    Turns = {"t1", "t2"}
    Window = 3
    MaxRounds = 2
    MaxEmpty = 2
    MaxCalls = 2
    FlowOps = {"o1", "o2"}
    MaxEvents = 1
    MaxKeys = 2
    Channels = {"mail", "hook"}
    Driverless = {"hook"}
    Retries <- MailOnce
    Edits = {"e1", "e2"}
    Provided <- ThreeInOrder
    ModelsOf <- OneModelEach
    Asks = {"r1", "r2"}
    Wanted = {"x", "z"}
    Threshold = 1
    BaseCooldown = 2
    MaxCooldown = 3
    MaxTicks = 3
    Rooms = {"general", "other"}
    Mine = {"p1"}
    Theirs = {"p2"}
    PageSize = 1
    MaxMillis = 2
    MaxSwitches = 1
    MaxFaults = 1
    Talks = {"s"}
    Creatable = {"n"}
    Fetches = {"f1", "f2"}
    MaxPosts = 2
    MaxOpens = 2
    Accts = {"a", "b"}
    OwnerIds = {"a"}
    AuthOps = {"q1", "q2"}
    Slots = {1}
    Tickets = {1}
    MaxResets = 1
    MaxAsked = 3
    Acts = {"c1", "c2"}
    QueueLimit = 2
    MaxLaunches = 3
    Spaces = {"s"}
    CodeRuns = {"r1", "r2"}
    MaxWipes = 1
    OcrFiles <- TwoImageFiles
    Required <- OneSpeechFile
    Optional <- OneMoreFile
    Pulls = {"u1", "u2"}
    Threads = {"main", "worker"}
    Speakers = {"k1", "k2"}
    Mirrors = 2
    Readings = {"j1", "j2"}
    MaxMade = 2
    Formats = {"speech", "weak"}
    Modes = {"auto", "never"}
    LastFile = 2
    MaxGuests = 2
    MaxTroubles = 2
    Order <- TwoGuests
    MaxChanges = 2
    MaxRpcs = 3
    MaxRoots = 1
    PackOrder <- TwoPacks
    Odd = {"q"}
    Versions = {1}
    Skills = {"s", "t"}
    Clients = {"c1", "c2"}
    ChainMax = 3
    Texts = {"a", "ab"}
    Beginnings <- OneBeginning
    Adders = {"c1", "c2"}
    Limits = {1, 2}
    AddsMax = 2
    FactsMax = 2
    Servers = {"s"}
    Editors = {"e1", "e2"}
    LinesMax = 5
    FlushBatch = 2
    PruneEvery = 2
    MaxRows = 2
    QueueMax = 2
    Packages = {1, 2}
    Managers = {"a1", "a2"}
    MaxOrders = 4
    ProviderIds = {"a", "b"}
    Desks = {"d1", "d2"}
    MaxEdits = 3
    MaxScopes = 3
    Visits = {"v1"}
    MaxHops = 2
    MaxStored = 2
    Backups = {"b1"}
INVARIANTS FeaturesTypeOK TranscriptWhole FlowAgrees NoticeAccounted BreakerHolds AccountsAgree ScreensAgree EnginesAgree GuestsServed StoresKept
CHECK_DEADLOCK FALSE
