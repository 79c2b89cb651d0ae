------------------------------- MODULE Library -------------------------------
(***************************************************************************)
(* Plugin packages and skills on disk and what the kernel shows of them    *)
(* (kernel/plugins/registry.ts and installer.ts, api/plugins.ts,           *)
(* kernel/skills/registry.ts, loader.ts and writer.ts, api/skills.ts, the  *)
(* adapter for MCP servers in kernel/providers/core-services.ts).          *)
(*                                                                         *)
(* Every request changes the disk first and scans it afterwards; a scan    *)
(* reads one directory after the other and replaces the view in one step.  *)
(* Nothing keeps two requests apart.  A package has one skill and one MCP  *)
(* server and is known by its version; a kernel that refuses to start is   *)
(* not up.                                                                 *)
(***************************************************************************)
EXTENDS Naturals, Sequences, FiniteSets, SequencesExt

CONSTANTS
    PackOrder,    \* plugin ids in the order of their names
    Odd,          \* those with a skill id that the skill registry refuses
    Versions,
    Skills,       \* ids under <dataDir>/skills
    Clients,      \* requests to the API, one after the other
    ChainMax      \* bound on the servers waiting to be added or removed

Packs == ToSet(PackOrder)

LibraryAssumption ==
    /\ IsInjective(PackOrder) /\ Odd \subseteq Packs
    /\ Versions \subseteq Nat \ {0} /\ ChainMax \in Nat

VARIABLES
    up,          \* the kernel has started
    dir,         \* the version under plugins/<id>, 0 if none
    listed,      \* #plugins
    given,       \* #contributing, and what the skill registry has of plugins
    servers,     \* MCP configurations of plugins on disk
    chain,       \* mcpAdapterChain
    folder,      \* skills/<id>: none, empty, whole
    seen,        \* diskEntries of the skill registry
    call,        \* the request of a client
    promised,    \* history: skills whose creation succeeded, not to be deleted
    astray       \* history: what a scan and a change in each other's way have spoilt

libraryVars == <<up, dir, listed, given, servers, chain, folder, seen, call, promised, astray>>

Nothing == [p \in Packs |-> 0]
AtRest  == [pc |-> "idle"]
OfPacks  == <<up, dir, listed, given, servers, chain>>
OfSkills == <<folder, seen, promised>>

LibraryInit ==
    /\ up = TRUE /\ dir = Nothing /\ listed = Nothing /\ given = Nothing
    /\ servers = Nothing /\ chain = <<>>
    /\ folder = [s \in Skills |-> "none"] /\ seen = {} /\ promised = {}
    /\ call = [c \in Clients |-> AtRest]
    /\ astray = {}

At(c, pc)     == up /\ call[c].pc = pc
Go(c, rec)    == [call EXCEPT ![c] = rec]
To(c, pc)     == Go(c, [call[c] EXCEPT !.pc = pc])
\* A scan under way that has missed a change.
Missed(calls, pc) ==
    [d \in Clients |-> IF calls[d].pc = pc THEN [calls[d] EXCEPT !.clean = FALSE] ELSE calls[d]]
Marked(mark, spoilt) == IF spoilt THEN astray \union {mark} ELSE astray \ {mark}

-----------------------------------------------------------------------------
(* installing: finalizeInstall, POST /api/v1/plugins/install *)

\* stat, and the refusal of a package that is there already; what is not refused
\* is unpacked next to it.
InstallBegins(c, p, v, overwrite) ==
    /\ At(c, "idle") /\ (dir[p] = 0 \/ overwrite)
    /\ call' = Go(c, [pc |-> "staged", p |-> p, v |-> v, over |-> dir[p] # 0])
    /\ UNCHANGED <<OfPacks, OfSkills, astray>>

InstallFails(c) ==
    /\ At(c, "staged")
    /\ call' = Go(c, AtRest)
    /\ UNCHANGED <<OfPacks, OfSkills, astray>>

InstallClears(c) ==
    /\ At(c, "staged") /\ call[c].over
    /\ dir'  = [dir EXCEPT ![call[c].p] = 0]
    /\ call' = Missed(Go(c, [call[c] EXCEPT !.pc = "cleared"]), "scan")
    /\ UNCHANGED <<up, listed, given, servers, chain, OfSkills, astray>>

\* A directory that another request has put there in the meantime is in the way.
InstallRenames(c) ==
    /\ At(c, "cleared") \/ (At(c, "staged") /\ ~call[c].over)
    /\ IF dir[call[c].p] = 0
       THEN /\ dir'  = [dir EXCEPT ![call[c].p] = call[c].v]
            /\ call' = Missed(Go(c, [pc |-> "list"]), "scan")
       ELSE /\ call' = Go(c, AtRest)
            /\ UNCHANGED dir
    /\ UNCHANGED <<up, listed, given, servers, chain, OfSkills, astray>>

-----------------------------------------------------------------------------
(* PluginRegistry.refresh *)

\* readdir; a refresh of its own or the end of an install.
ScanBegins(c) ==
    /\ At(c, "idle") \/ At(c, "list")
    /\ call' = Go(c, [pc |-> "scan", todo |-> {p \in Packs : dir[p] # 0}, got |-> Nothing,
                      clean |-> TRUE])
    /\ UNCHANGED <<OfPacks, OfSkills, astray>>

\* #loadEntry: a directory that is gone by now is skipped.
ScanReads(c, p) ==
    /\ At(c, "scan") /\ p \in call[c].todo
    /\ call' = Go(c, [call[c] EXCEPT !.todo = @ \ {p}, !.got[p] = dir[p]])
    /\ UNCHANGED <<OfPacks, OfSkills, astray>>

\* What of a scan comes before the first package that the skill registry refuses:
\* its exception ends the loop.
Accepted(got) ==
    LET Before(p) == {PackOrder[i] : i \in 1 .. CHOOSE i \in DOMAIN PackOrder : PackOrder[i] = p}
    IN  [p \in Packs |-> IF \E q \in Odd \intersect Before(p) : got[q] # 0 THEN 0 ELSE got[p]]
Refused(got) == \E p \in Odd : got[p] # 0

Having(f)          == SelectSeq(PackOrder, LAMBDA p : f[p] # 0)
Jobs(op, f)        == LET s == Having(f) IN [i \in DOMAIN s |-> [op |-> op, p |-> s[i], v |-> f[s[i]]]]

\* Slip: the contributions of the round before stay.
InjectsOver(c) ==
    /\ At(c, "scan") /\ call[c].todo = {}
    /\ LET got == call[c].got
       IN  /\ Len(chain \o Jobs("add", got)) <= ChainMax
           /\ chain'  = chain \o Jobs("add", Accepted(got))
           /\ given'  = Accepted(got)
           /\ listed' = IF Refused(got) THEN listed ELSE got
           /\ astray' = Marked("packs", Refused(got) \/ ~call[c].clean)
    /\ call' = Go(c, AtRest)
    /\ UNCHANGED <<up, dir, servers, OfSkills>>

\* #detachAll, #inject for each, and the new #plugins, which an exception leaves as
\* they were.
Injects(c) ==
    /\ At(c, "scan") /\ call[c].todo = {}
    /\ LET got == call[c].got
       IN  /\ Len(chain \o Jobs("remove", given) \o Jobs("add", got)) <= ChainMax
           /\ chain'  = chain \o Jobs("remove", given) \o Jobs("add", Accepted(got))
           /\ given'  = Accepted(got)
           /\ listed' = IF Refused(got) THEN listed ELSE got
           /\ astray' = Marked("packs", Refused(got) \/ ~call[c].clean)
    /\ call' = Go(c, AtRest)
    /\ UNCHANGED <<up, dir, servers, OfSkills>>

-----------------------------------------------------------------------------
(* PluginRegistry.remove *)

RemoveBegins(c, p) ==
    /\ At(c, "idle") /\ dir[p] # 0
    /\ call' = Go(c, [pc |-> "remove", p |-> p])
    /\ UNCHANGED <<OfPacks, OfSkills, astray>>

RemoveForbidden(c) ==
    /\ At(c, "remove") /\ given[call[c].p] # 0
    /\ call' = Go(c, AtRest)
    /\ UNCHANGED <<OfPacks, OfSkills, astray>>

RemoveDetaches(c) ==
    /\ At(c, "remove")
    /\ LET p == call[c].p
       IN  /\ Len(chain) < ChainMax
           /\ chain'  = IF given[p] = 0 THEN chain
                        ELSE Append(chain, [op |-> "remove", p |-> p, v |-> given[p]])
           /\ given'  = [given EXCEPT ![p] = 0]
           /\ listed' = [listed EXCEPT ![p] = 0]
           /\ call'   = Missed(To(c, "rm"), "scan")
    /\ UNCHANGED <<up, dir, servers, OfSkills, astray>>

RemoveEnds(c) ==
    /\ At(c, "rm")
    /\ LET p == call[c].p
       IN  /\ dir'    = [dir EXCEPT ![p] = 0]
           /\ astray' = IF listed[p] # 0 THEN astray \union {"packs"} ELSE astray
    /\ call' = Missed(Go(c, AtRest), "scan")
    /\ UNCHANGED <<up, listed, given, servers, chain, OfSkills>>

-----------------------------------------------------------------------------
(* mcpRegistryAdapter: one after the other; a configuration that is there is kept *)

ServerJob ==
    /\ up /\ chain # <<>>
    /\ LET j == Head(chain)
       IN  servers' = [servers EXCEPT ![j.p] =
                          IF j.op = "remove" THEN 0 ELSE IF @ = 0 THEN j.v ELSE @]
    /\ chain' = Tail(chain)
    /\ UNCHANGED <<up, dir, listed, given, OfSkills, call, astray>>

-----------------------------------------------------------------------------
(* writeSkill, deleteSkill, POST and DELETE /api/v1/skills *)

\* Slip: a directory that is there already does.
CreateBeginsAnyway(c, s) ==
    /\ At(c, "idle")
    /\ folder' = [folder EXCEPT ![s] = IF @ = "none" THEN "empty" ELSE @]
    /\ call'   = Missed(Go(c, [pc |-> "write", s |-> s]), "look")
    /\ UNCHANGED <<OfPacks, seen, promised, astray>>

\* mkdir, which says whether it made the directory.
CreateBegins(c, s) ==
    /\ At(c, "idle") /\ folder[s] = "none"
    /\ folder' = [folder EXCEPT ![s] = "empty"]
    /\ call'   = Missed(Go(c, [pc |-> "write", s |-> s]), "look")
    /\ UNCHANGED <<OfPacks, seen, promised, astray>>

CreateWrites(c) ==
    /\ At(c, "write") /\ folder[call[c].s] # "none"
    /\ folder'   = [folder EXCEPT ![call[c].s] = "whole"]
    /\ promised' = promised \union {call[c].s}
    /\ call'     = Missed(Go(c, [pc |-> "again"]), "look")
    /\ UNCHANGED <<OfPacks, seen, astray>>

CreateFails(c) ==
    /\ At(c, "write")
    /\ call' = To(c, "undo")
    /\ UNCHANGED <<OfPacks, OfSkills, astray>>

CreateUndoes(c) ==
    /\ At(c, "undo")
    /\ folder' = [folder EXCEPT ![call[c].s] = "none"]
    /\ call'   = Missed(Go(c, AtRest), "look")
    /\ astray' = IF folder[call[c].s] = "whole" THEN astray \union {"skills"} ELSE astray
    /\ UNCHANGED <<OfPacks, seen, promised>>

\* The registry knows it as a skill on disk and can read it.
DeleteBegins(c, s) ==
    /\ At(c, "idle") /\ s \in seen /\ folder[s] = "whole"
    /\ call'     = Go(c, [pc |-> "erase", s |-> s])
    /\ promised' = promised \ {s}
    /\ UNCHANGED <<OfPacks, folder, seen, astray>>

Creating(s) == \E d \in Clients : call[d].pc \in {"write", "undo"} /\ call[d].s = s

\* A directory that is gone is an error to the client.
DeleteErases(c) ==
    /\ At(c, "erase")
    /\ LET s == call[c].s
       IN  /\ folder'   = [folder EXCEPT ![s] = "none"]
           /\ promised' = promised \ {s}
           /\ astray'   = IF Creating(s) THEN astray \union {"robbed"} ELSE astray
           /\ call'     = IF folder[s] = "none" THEN Go(c, AtRest)
                          ELSE Missed(Go(c, [pc |-> "again"]), "look")
    /\ UNCHANGED <<OfPacks, seen>>

-----------------------------------------------------------------------------
(* SkillRegistry.refresh, scanSkillDir *)

LookBegins(c) ==
    /\ At(c, "idle") \/ At(c, "again")
    /\ call' = Go(c, [pc |-> "look", todo |-> {s \in Skills : folder[s] # "none"}, got |-> {},
                      clean |-> TRUE])
    /\ UNCHANGED <<OfPacks, OfSkills, astray>>

LookReads(c, s) ==
    /\ At(c, "look") /\ s \in call[c].todo
    /\ call' = Go(c, [call[c] EXCEPT !.todo = @ \ {s},
                                     !.got = IF folder[s] = "whole" THEN @ \union {s} ELSE @])
    /\ UNCHANGED <<OfPacks, OfSkills, astray>>

LookEnds(c) ==
    /\ At(c, "look") /\ call[c].todo = {}
    /\ seen'   = call[c].got
    /\ astray' = Marked("skills", ~call[c].clean)
    /\ call'   = Go(c, AtRest)
    /\ UNCHANGED <<OfPacks, folder, promised>>

-----------------------------------------------------------------------------
\* The process dies and starts again: both registries scan before requests are
\* served, and a package that the skill registry refuses keeps the kernel from
\* starting.
Restart ==
    /\ call' = [c \in Clients |-> AtRest]
    /\ up'     = ~Refused(dir)
    /\ given'  = Accepted(dir)
    /\ listed' = IF Refused(dir) THEN Nothing ELSE dir
    /\ chain'  = Jobs("add", Accepted(dir))
    /\ seen'   = {s \in Skills : folder[s] = "whole"}
    /\ astray' = {"restarted"}
    /\ promised' = {s \in promised : folder[s] = "whole"}
    /\ UNCHANGED <<dir, servers, folder>>

PacksNext ==
    \/ \E c \in Clients :
        \/ \E p \in Packs : RemoveBegins(c, p) \/ ScanReads(c, p)
                            \/ \E v \in Versions, o \in BOOLEAN : InstallBegins(c, p, v, o)
        \/ InstallFails(c) \/ InstallClears(c) \/ InstallRenames(c)
        \/ ScanBegins(c) \/ Injects(c)
        \/ RemoveForbidden(c) \/ RemoveDetaches(c) \/ RemoveEnds(c)
    \/ ServerJob
    \/ Restart

SkillsNext ==
    \/ \E c \in Clients :
        \/ \E s \in Skills : CreateBegins(c, s) \/ DeleteBegins(c, s) \/ LookReads(c, s)
        \/ CreateWrites(c) \/ CreateFails(c) \/ CreateUndoes(c)
        \/ DeleteErases(c)
        \/ LookBegins(c) \/ LookEnds(c)
    \/ Restart

LibraryNext == PacksNext \/ SkillsNext

LibrarySpec == LibraryInit /\ [][LibraryNext]_libraryVars

-----------------------------------------------------------------------------
\* Every variable stays within its type.
LibraryTypeOK ==
    /\ up \in BOOLEAN
    /\ {dir, listed, given, servers} \subseteq [Packs -> Versions \union {0}]
    /\ Len(chain) <= ChainMax
    /\ folder \in [Skills -> {"none", "empty", "whole"}]
    /\ seen \subseteq Skills /\ promised \subseteq Skills
    /\ \A c \in Clients : call[c].pc \in {"idle", "staged", "cleared", "list", "scan", "remove", "rm",
                                          "write", "undo", "erase", "again", "look"}
    /\ astray \subseteq {"packs", "skills", "robbed", "restarted"}

Packing  == \E c \in Clients : call[c].pc \in {"staged", "cleared", "list", "scan", "remove", "rm"}
Skilling == \E c \in Clients : call[c].pc \in {"write", "undo", "erase", "again", "look"}

\* Once no request is under way, what the kernel lists and contributes is what is on
\* disk, if the last scan saw the disk at rest; the MCP configurations of plugins are
\* those contributed as soon as the adapter is done, whatever the order of refreshes
\* and removals, until a restart; and a skill reported as created is there until a
\* deletion of it is asked for, if no deletion took the directory of one being made.
LibraryAgrees ==
    /\ up /\ ~Packing /\ "packs" \notin astray => listed = dir /\ given = dir
    /\ chain = <<>> /\ "restarted" \notin astray => servers = given
    /\ up \/ \E p \in Odd : dir[p] # 0
    /\ ~Skilling /\ "skills" \notin astray => seen = {s \in Skills : folder[s] = "whole"}
    /\ "robbed" \notin astray => \A s \in promised : folder[s] = "whole"
=============================================================================
