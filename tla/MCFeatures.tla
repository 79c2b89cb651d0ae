----------------------------- MODULE MCFeatures -----------------------------
(***************************************************************************)
(* The features that stand on the kernel, checked together: a behaviour    *)
(* takes the steps of the one feature that its initial state has chosen.   *)
(*                                                                         *)
(* The five features with proofs are extended, so that their assumptions   *)
(* are checked here, and keep their own variables; the others, which never *)
(* run in one state, take turns on p1, p2, ... and are instantiated with   *)
(* as many as they have.                                                   *)
(***************************************************************************)
EXTENDS Session, Flow, Notify, LlmGateway, Accounts, TLC

MailOnce      == [c \in {"mail", "hook"} |-> IF c = "mail" THEN 1 ELSE 0]
ThreeInOrder  == <<"a", "b", "c">>
OneModelEach  == [p \in {"a", "b", "c"} |-> IF p = "a" THEN {"x"} ELSE IF p = "b" THEN {"y"} ELSE {}]
TwoImageFiles == <<"det", "rec">>
OneSpeechFile == <<"model">>
OneMoreFile   == <<"vad">>
TwoGuests     == <<"a", "b">>
TwoPacks      == <<"p", "q">>
OneBeginning  == {<<"a", "ab">>}

CONSTANTS Rooms, Mine, Theirs, PageSize, MaxMillis, MaxSwitches, MaxFaults, Talks, Creatable,
          Fetches, MaxPosts, MaxOpens, Acts, QueueLimit, MaxLaunches, Spaces, CodeRuns,
          MaxWipes, OcrFiles, Required, Optional, Pulls, Threads, Speakers, Mirrors, Readings,
          MaxMade, Formats, Modes, LastFile, MaxGuests, MaxTroubles, Order, MaxChanges,
          MaxRpcs, MaxRoots, PackOrder, Odd, Versions, Skills, Clients, ChainMax, Texts,
          Beginnings, Adders, Limits, AddsMax, FactsMax, Servers, Editors, LinesMax,
          FlushBatch, PruneEvery, MaxRows, QueueMax, Packages, Managers, MaxOrders,
          ProviderIds, Desks, MaxEdits, MaxScopes, Visits, MaxHops, MaxStored, Backups

VARIABLES feature, p1, p2, p3, p4, p5, p6, p7, p8, p9, p10, p11, p12, p13

Room == INSTANCE ChatRoom WITH
    posted <- p1, post <- p2, millis <- p3, room <- p4, shown <- p5, pending <- p6,
    oldest <- p7, fetch <- p8, feed <- p9, switches <- p10, faults <- p11, excused <- p12
Page == INSTANCE AgentPage WITH
    kept <- p1, posts <- p2, active <- p3, view <- p4, panel <- p5, gen <- p6, out <- p7,
    link <- p8, wire <- p9, listing <- p10, odd <- p11
Web == INSTANCE Browser WITH
    act <- p1, line <- p2, held <- p3, browsers <- p4, launched <- p5, idleTimer <- p6,
    stopped <- p7, installer <- p8, orphans <- p9
Code == INSTANCE Coding WITH
    run <- p1, busy <- p2, folder <- p3, scripts <- p4, proc <- p5
Models == INSTANCE Downloads WITH
    final <- p1, temp <- p2, opener <- p3, loader <- p4, seq <- p5, progress <- p6,
    flight <- p7, ready <- p8, lastError <- p9, speaker <- p10, tangled <- p11, muddled <- p12
Reading == INSTANCE Recognition WITH
    job <- p1, single <- p2, made <- p3, count <- p4, owner <- p5, timer <- p6, models <- p7,
    auto <- p8, stored <- p9, shut <- p10, failing <- p11, pulledOut <- p12
Visitor == INSTANCE Guest WITH
    kernel <- p1, call <- p2, pc <- p3, seen <- p4, booked <- p5, done <- p6, loaded <- p7,
    code <- p8, timers <- p9, stray <- p10, abandoned <- p11, rows <- p12, troubles <- p13
Bus == INSTANCE Dispatch WITH
    handler <- p1, st <- p2, inside <- p3, port <- p4, jobs <- p5, chain <- p6, ran <- p7,
    left <- p8, changes <- p9
Wire == INSTANCE Calls WITH
    kind <- p1, by <- p2, st <- p3, work <- p4, answered <- p5, kpend <- p6, wpend <- p7,
    toWorker <- p8, toKernel <- p9, target <- p10, life <- p11
Shelf == INSTANCE Library WITH
    up <- p1, dir <- p2, listed <- p3, given <- p4, servers <- p5, chain <- p6, folder <- p7,
    seen <- p8, call <- p9, promised <- p10, astray <- p11
Notes == INSTANCE Memory WITH
    rows <- p1, limit <- p2, stored <- p3, clock <- p4, caller <- p5, twins <- p6, above <- p7,
    robbed <- p8
Config == INSTANCE McpConfig WITH
    cache <- p1, file <- p2, tmp <- p3, text <- p4, editor <- p5, sure <- p6, crossed <- p7,
    doubled <- p8, failed <- p9
Sink == INSTANCE LogSink WITH
    written <- p1, buffer <- p2, waiting <- p3, flush <- p4, since <- p5, tableReady <- p6,
    logs <- p7, closing <- p8, lost <- p9, owed <- p10
Installed == INSTANCE Catalog WITH
    dir <- p1, known <- p2, row <- p3, cached <- p4, active <- p5, lock <- p6, order <- p7,
    confirmed <- p8, astray <- p9, orders <- p10
Providing == INSTANCE Providers WITH
    saved <- p1, secret <- p2, shown <- p3, load <- p4, dialog <- p5, put <- p6, meant <- p7,
    astray <- p8, edits <- p9
Shared == INSTANCE Workspace WITH
    row <- p1, files <- p2, visit <- p3, tree <- p4
Archives == INSTANCE Backup WITH
    table <- p1, disk <- p2, request <- p3, job <- p4, parts <- p5, gone <- p6

ASSUME FeaturesAssumption ==
    /\ Room!ChatAssumption
    /\ Page!AgentPageAssumption
    /\ Web!BrowserAssumption
    /\ Code!CodingAssumption
    /\ Models!DownloadsAssumption
    /\ Reading!RecognitionAssumption
    /\ Visitor!GuestAssumption
    /\ Bus!DispatchAssumption
    /\ Wire!CallsAssumption
    /\ Shelf!LibraryAssumption
    /\ Notes!MemoryAssumption
    /\ Config!McpConfigAssumption
    /\ Sink!LogSinkAssumption
    /\ Installed!CatalogAssumption
    /\ Providing!ProvidersAssumption
    /\ Shared!WorkspaceAssumption
    /\ Archives!BackupAssumption

FeaturesInit ==
    /\ \/ feature \in {"session", "flow", "notify", "llm", "accounts"}
          /\ p1 = 0 /\ p2 = 0 /\ p3 = 0 /\ p4 = 0 /\ p5 = 0 /\ p6 = 0 /\ p7 = 0
          /\ p8 = 0 /\ p9 = 0 /\ p10 = 0 /\ p11 = 0 /\ p12 = 0 /\ p13 = 0
       \/ feature = "chat" /\ Room!ChatInit /\ p13 = 0 /\ p4 = "general"
       \/ feature = "page" /\ Page!AgentPageInit /\ p12 = 0 /\ p13 = 0
       \/ feature = "browser" /\ Web!BrowserInit /\ p10 = 0 /\ p11 = 0 /\ p12 = 0 /\ p13 = 0
       \/ feature = "coding" /\ Code!CodingInit /\ p6 = 0 /\ p7 = 0 /\ p8 = 0 /\ p9 = 0 /\ p10 = 0 /\ p11 = 0 /\ p12 = 0 /\ p13 = 0
       \/ feature = "images" /\ Models!DownloadsInit /\ p13 = 0
       \/ feature = "speech" /\ Models!DownloadsInit /\ p13 = 0
       \/ feature = "recog" /\ Reading!RecogInit /\ p13 = 0
       \/ feature = "guest" /\ Visitor!GuestInit
       \/ feature = "dispatch" /\ Bus!DispatchInit /\ p10 = 0 /\ p11 = 0 /\ p12 = 0 /\ p13 = 0
       \/ feature = "calls" /\ Wire!CallsInit /\ p12 = 0 /\ p13 = 0
       \/ feature = "packs" /\ Shelf!LibraryInit /\ p12 = 0 /\ p13 = 0
       \/ feature = "skills" /\ Shelf!LibraryInit /\ p12 = 0 /\ p13 = 0
       \/ feature = "memory" /\ Notes!MemoryInit /\ p9 = 0 /\ p10 = 0 /\ p11 = 0 /\ p12 = 0 /\ p13 = 0
       \/ feature = "mcpfile" /\ Config!McpConfigInit /\ p10 = 0 /\ p11 = 0 /\ p12 = 0 /\ p13 = 0
       \/ feature = "logs" /\ Sink!LogSinkInit /\ p11 = 0 /\ p12 = 0 /\ p13 = 0
       \/ feature = "catalog" /\ Installed!CatalogInit /\ p11 = 0 /\ p12 = 0 /\ p13 = 0
       \/ feature = "providers" /\ Providing!ProvidersInit /\ p10 = 0 /\ p11 = 0 /\ p12 = 0 /\ p13 = 0
       \/ feature = "space" /\ Shared!WorkspaceInit /\ p5 = 0 /\ p6 = 0 /\ p7 = 0 /\ p8 = 0 /\ p9 = 0 /\ p10 = 0 /\ p11 = 0 /\ p12 = 0 /\ p13 = 0
       \/ feature = "backup" /\ Archives!BackupInit /\ p7 = 0 /\ p8 = 0 /\ p9 = 0 /\ p10 = 0 /\ p11 = 0 /\ p12 = 0 /\ p13 = 0
    /\ SessionInit /\ FlowInit /\ NotifyInit /\ LlmInit /\ AccountsInit
    /\ feature # "notify" => configs = Nothing
    /\ feature # "accounts" => Present = {}

\* The variables of the features that are instantiated.
shared == <<p1, p2, p3, p4, p5, p6, p7, p8, p9, p10, p11, p12, p13>>

SessionTurn ==
    /\ feature = "session" /\ SessionNext
    /\ UNCHANGED <<feature, flowVars, notifyVars, llmVars, accountsVars, shared>>
FlowTurn ==
    /\ feature = "flow" /\ FlowNext
    /\ UNCHANGED <<feature, sessionVars, notifyVars, llmVars, accountsVars, shared>>
NotifyTurn ==
    /\ feature = "notify" /\ NotifyNext
    /\ UNCHANGED <<feature, sessionVars, flowVars, llmVars, accountsVars, shared>>
LlmTurn ==
    /\ feature = "llm" /\ LlmNext
    /\ UNCHANGED <<feature, sessionVars, flowVars, notifyVars, accountsVars, shared>>
AccountsTurn ==
    /\ feature = "accounts" /\ AccountsNext
    /\ UNCHANGED <<feature, sessionVars, flowVars, notifyVars, llmVars, shared>>

extended == <<sessionVars, flowVars, notifyVars, llmVars, accountsVars>>

ChatTurn == feature = "chat" /\ Room!ChatNext /\ UNCHANGED <<feature, extended, p13>>
AgentPageTurn == feature = "page" /\ Page!AgentPageNext /\ UNCHANGED <<feature, extended, p12, p13>>
BrowserTurn == feature = "browser" /\ Web!BrowserNext /\ UNCHANGED <<feature, extended, p10, p11, p12, p13>>
CodingTurn == feature = "coding" /\ Code!CodingNext /\ UNCHANGED <<feature, extended, p6, p7, p8, p9, p10, p11, p12, p13>>
ImagesTurn == feature = "images" /\ Models!ImagesNext /\ UNCHANGED <<feature, extended, p13>>
SpeechesTurn == feature = "speech" /\ Models!SpeechesNext /\ UNCHANGED <<feature, extended, p13>>
RecogTurn == feature = "recog" /\ Reading!RecogNext /\ UNCHANGED <<feature, extended, p13>>
GuestTurn == feature = "guest" /\ Visitor!GuestNext /\ UNCHANGED <<feature, extended>>
DispatchTurn == feature = "dispatch" /\ Bus!DispatchNext /\ UNCHANGED <<feature, extended, p10, p11, p12, p13>>
CallsTurn == feature = "calls" /\ Wire!CallsNext /\ UNCHANGED <<feature, extended, p12, p13>>
PacksTurn == feature = "packs" /\ Shelf!PacksNext /\ UNCHANGED <<feature, extended, p12, p13>>
SkillsTurn == feature = "skills" /\ Shelf!SkillsNext /\ UNCHANGED <<feature, extended, p12, p13>>
MemoryTurn == feature = "memory" /\ Notes!MemoryNext /\ UNCHANGED <<feature, extended, p9, p10, p11, p12, p13>>
McpConfigTurn == feature = "mcpfile" /\ Config!McpConfigNext /\ UNCHANGED <<feature, extended, p10, p11, p12, p13>>
LogSinkTurn == feature = "logs" /\ Sink!LogSinkNext /\ UNCHANGED <<feature, extended, p11, p12, p13>>
CatalogTurn == feature = "catalog" /\ Installed!CatalogNext /\ UNCHANGED <<feature, extended, p11, p12, p13>>
ProvidersTurn == feature = "providers" /\ Providing!ProvidersNext /\ UNCHANGED <<feature, extended, p10, p11, p12, p13>>
WorkspaceTurn == feature = "space" /\ Shared!WorkspaceNext /\ UNCHANGED <<feature, extended, p5, p6, p7, p8, p9, p10, p11, p12, p13>>
BackupTurn == feature = "backup" /\ Archives!BackupNext /\ UNCHANGED <<feature, extended, p7, p8, p9, p10, p11, p12, p13>>

FeaturesNext ==
    \/ SessionTurn \/ FlowTurn \/ NotifyTurn \/ LlmTurn \/ ChatTurn
    \/ AgentPageTurn \/ AccountsTurn \/ BrowserTurn \/ CodingTurn \/ ImagesTurn
    \/ SpeechesTurn \/ RecogTurn \/ GuestTurn \/ DispatchTurn \/ CallsTurn
    \/ PacksTurn \/ SkillsTurn \/ MemoryTurn \/ McpConfigTurn \/ LogSinkTurn
    \/ CatalogTurn \/ ProvidersTurn \/ WorkspaceTurn \/ BackupTurn

featuresVars == <<feature, extended, shared>>

FeaturesSpec == FeaturesInit /\ [][FeaturesNext]_featuresVars

\* Every variable of the feature in turn stays within its type, and what is
\* counted within its limit: rounds of a loop, deliveries of a notification, calls
\* in a queue.
FeaturesTypeOK ==
    /\ feature = "session"   => SessionTypeOK
    /\ feature = "flow"      => FlowTypeOK
    /\ feature = "notify"    => NotifyTypeOK
    /\ feature = "llm"       => LlmTypeOK
    /\ feature = "chat"      => Room!ChatTypeOK
    /\ feature = "page"      => Page!AgentPageTypeOK
    /\ feature = "accounts"  => AccountsTypeOK
    /\ feature = "browser"   => Web!BrowserTypeOK
    /\ feature = "coding"    => Code!CodingTypeOK
    /\ feature = "images"    => Models!DownloadsTypeOK
    /\ feature = "speech"    => Models!DownloadsTypeOK
    /\ feature = "recog"     => Reading!RecogTypeOK
    /\ feature = "guest"     => Visitor!GuestTypeOK
    /\ feature = "dispatch"  => Bus!DispatchTypeOK
    /\ feature = "calls"     => Wire!CallsTypeOK
    /\ feature = "packs"     => Shelf!LibraryTypeOK
    /\ feature = "skills"    => Shelf!LibraryTypeOK
    /\ feature = "memory"    => Notes!MemoryTypeOK
    /\ feature = "mcpfile"   => Config!McpConfigTypeOK
    /\ feature = "logs"      => Sink!LogSinkTypeOK
    /\ feature = "catalog"   => Installed!CatalogTypeOK
    /\ feature = "providers" => Providing!ProvidersTypeOK
    /\ feature = "space"     => Shared!WorkspaceTypeOK
    /\ feature = "backup"    => Archives!BackupTypeOK

\* What the console shows is what was said, and what it saves is what was meant: a
\* channel, the page of a session, which also sends a message once, and the list of
\* providers, edited whole: see ChatRoom, AgentPage and Providers.
ScreensAgree ==
    /\ feature = "chat" => Room!ViewAgrees
    /\ feature = "page" => Page!PageAgrees
    /\ feature = "providers" => Providing!ProvidersKept

\* What the engines hold is what is there: a browser, processes of runs and engines
\* that recognise are each known, alone and given up when nobody uses them, and a file
\* of a model under its own name is whole: see Browser, Coding, Recognition and
\* Downloads.
EnginesAgree ==
    /\ feature = "browser" => Web!OneBrowser
    /\ feature = "coding"  => Code!OneProcess
    /\ feature = "recog"   => Reading!ReadingsAgree
    /\ feature \in {"images", "speech"} => Models!ModelsWhole

\* Extensions are loaded with all their migrations, lose their timers, none is passed
\* over by an event or a hook, every call of theirs ends once, and what runs is what is
\* installed, confirmed and enabled: see Guest, Dispatch, Calls and Catalog.
GuestsServed ==
    /\ feature = "guest"    => Visitor!GuestKept
    /\ feature = "dispatch" => Bus!DispatchKept
    /\ feature = "calls"    => Wire!CallsKept
    /\ feature = "catalog"  => Installed!CatalogAgrees

\* What is kept is what was given to keep, where it was to go: packages and skills,
\* memories, the servers of the MCP file, log lines, files of workspaces and backups:
\* see Library, Memory, McpConfig, LogSink, Workspace and Backup.
StoresKept ==
    /\ feature \in {"packs", "skills"} => Shelf!LibraryAgrees
    /\ feature = "memory"  => Notes!MemoryKept
    /\ feature = "mcpfile" => Config!McpConfigKept
    /\ feature = "logs"    => Sink!LinesKept
    /\ feature = "space"   => Shared!WorkspaceKept
    /\ feature = "backup"  => Archives!BackupWhole

=============================================================================
