------------------------------ MODULE McpConfig ------------------------------
(***************************************************************************)
(* The file of MCP servers and its copy in memory                          *)
(* (kernel/mcp/config-store.ts): read once, written whole under a          *)
(* temporary name and renamed.                                             *)
(*                                                                         *)
(* All writers use one temporary name.  What a name points to is a node: a *)
(* writer keeps its node when the name moves on.                           *)
(***************************************************************************)
EXTENDS Naturals, FiniteSets

CONSTANTS
    Servers,
    Editors     \* callers: requests, the adapter for plugins, the reconnection at start

McpConfigAssumption == IsFiniteSet(Servers) /\ IsFiniteSet(Editors)

VARIABLES
    cache,      \* #cache: [known, list]
    file,       \* the node named config.json, 0 if none
    tmp,        \* the node named config.json.tmp
    text,       \* what a node holds: [list, whole, blank]
    editor,     \* callers
    sure,       \* history: servers whose add succeeded, not to be removed
    crossed,    \* history: a change began while another was being written
    doubled,    \* history: a second reading has replaced the copy
    failed      \* history: a write has failed since the last that succeeded

mcpConfigVars == <<cache, file, tmp, text, editor, sure, crossed, doubled, failed>>

Nodes   == 1 .. Cardinality(Editors) + 2
Blank   == [list |-> {}, whole |-> FALSE, blank |-> TRUE]
Unknown == [known |-> FALSE, list |-> {}]
AtRest  == [pc |-> "idle"]
OnDisk  == IF file = 0 THEN {} ELSE text[file].list
Legible == file # 0 => text[file].whole

McpConfigInit ==
    /\ cache = Unknown /\ file = 0 /\ tmp = 0
    /\ text = [n \in Nodes |-> Blank]
    /\ editor = [e \in Editors |-> AtRest]
    /\ sure = {} /\ crossed = FALSE /\ doubled = FALSE /\ failed = FALSE

At(e, pc)    == editor[e].pc = pc
Go(e, rec)   == editor' = [editor EXCEPT ![e] = rec]
Disk         == <<file, tmp, text>>
Histories    == <<sure, crossed, doubled, failed>>
Held         == {editor[e].node : e \in {d \in Editors : At(d, "write")}}
InUse        == {file, tmp} \union Held
Writers      == {e \in Editors : editor[e].pc \in {"open", "write", "rename"}}

-----------------------------------------------------------------------------
(* #hydrate *)

\* A call that finds no copy reads the file, whoever reads it already.
HydrateReads(e) ==
    /\ At(e, "idle") /\ ~cache.known /\ Legible
    /\ Go(e, [pc |-> "read", list |-> OnDisk])
    /\ UNCHANGED <<cache, Disk, Histories>>

-----------------------------------------------------------------------------
(* add, remove, update, load *)

\* The copy in memory changes at once, the file is to follow.
Changes(e, list, next, did) ==
    /\ cache' = [known |-> TRUE, list |-> next]
    /\ Go(e, [pc |-> "open", list |-> next, did |-> did])
    /\ crossed' = (crossed \/ Writers # {})
    /\ sure' = sure \cap next
    /\ UNCHANGED <<Disk, failed>>

\* What a caller does with the list it finds: a server that is there cannot be
\* added, nor one that is not be removed; an update leaves the servers as they are.
Applies(e, list) ==
    \/ \E s \in Servers \ list : Changes(e, list, list \union {s}, {s})
    \/ \E s \in list : Changes(e, list, list \ {s}, {}) \/ Changes(e, list, list, {})

ActsOnCopy(e) ==
    /\ At(e, "idle") /\ cache.known
    /\ Applies(e, cache.list)
    /\ UNCHANGED doubled

\* The reading ends; a load, or a call that is refused, is over with it.
ActsOnRead(e) ==
    /\ At(e, "read")
    /\ doubled' = (doubled \/ cache.known)
    /\ \/ Applies(e, editor[e].list)
       \/ /\ cache' = [known |-> TRUE, list |-> editor[e].list]
          /\ Go(e, AtRest)
          /\ UNCHANGED <<Disk, sure, crossed, failed>>

-----------------------------------------------------------------------------
(* #writeThrough *)

\* Slip: the file is written under its own name.
OpensInPlace(e) ==
    /\ At(e, "open")
    /\ LET n == IF file # 0 THEN file ELSE CHOOSE m \in Nodes \ InUse : TRUE
       IN  /\ tmp'  = n /\ file' = n
           /\ text' = [text EXCEPT ![n] = Blank]
           /\ Go(e, [pc |-> "write", list |-> editor[e].list, did |-> editor[e].did, node |-> n])
    /\ UNCHANGED <<cache, Histories>>

\* A temporary file that is there is emptied, whoever writes it.
Opens(e) ==
    /\ At(e, "open")
    /\ LET n == IF tmp # 0 THEN tmp ELSE CHOOSE m \in Nodes \ InUse : TRUE
       IN  /\ tmp'  = n
           /\ text' = [m \in Nodes |-> IF m \in InUse \ {n} THEN text[m] ELSE Blank]
           /\ Go(e, [pc |-> "write", list |-> editor[e].list, did |-> editor[e].did, node |-> n])
    /\ UNCHANGED <<cache, file, Histories>>

\* A text over a longer one leaves the end of that.
Writes(e) ==
    /\ At(e, "write")
    /\ LET old == text[editor[e].node]
           new == editor[e].list
       IN  text' = [text EXCEPT ![editor[e].node] =
                       [list |-> new, blank |-> FALSE,
                        whole |-> old.blank \/ Cardinality(old.list) <= Cardinality(new)]]
    /\ Go(e, [pc |-> "rename", did |-> editor[e].did])
    /\ UNCHANGED <<cache, file, tmp, Histories>>

\* The disk is full; the copy in memory stays changed.
WriteFails(e) ==
    /\ At(e, "write")
    /\ failed' = TRUE
    /\ Go(e, AtRest)
    /\ UNCHANGED <<cache, Disk, sure, crossed, doubled>>

Renames(e) ==
    /\ At(e, "rename") /\ tmp # 0
    /\ file' = tmp /\ tmp' = 0
    /\ text' = [n \in Nodes |-> IF n \in {tmp} \union Held THEN text[n] ELSE Blank]
    /\ sure' = sure \union (editor[e].did \cap cache.list)
    /\ failed' = FALSE
    /\ Go(e, AtRest)
    /\ UNCHANGED <<cache, crossed, doubled>>

\* Another writer has renamed it already: chmod or rename reports an error.
RenameFails(e) ==
    /\ At(e, "rename") /\ tmp = 0
    /\ failed' = TRUE
    /\ Go(e, AtRest)
    /\ UNCHANGED <<cache, Disk, sure, crossed, doubled>>

\* The process dies with its copy and starts again.
Restart ==
    /\ cache' = Unknown
    /\ editor' = [e \in Editors |-> AtRest]
    /\ doubled' = FALSE /\ failed' = FALSE
    /\ UNCHANGED <<Disk, sure, crossed>>

McpConfigNext ==
    \/ \E e \in Editors :
        \/ HydrateReads(e) \/ ActsOnRead(e) \/ ActsOnCopy(e)
        \/ Opens(e) \/ Writes(e) \/ WriteFails(e) \/ Renames(e) \/ RenameFails(e)
    \/ Restart

McpConfigSpec == McpConfigInit /\ [][McpConfigNext]_mcpConfigVars

-----------------------------------------------------------------------------
\* Every variable stays within its type.
McpConfigTypeOK ==
    /\ cache.known \in BOOLEAN /\ cache.list \subseteq Servers
    /\ {file, tmp} \subseteq Nodes \union {0}
    /\ \A n \in Nodes : text[n].list \subseteq Servers
    /\ \A e \in Editors : editor[e].pc \in {"idle", "read", "open", "write", "rename"}
    /\ sure \subseteq Servers /\ {crossed, doubled, failed} \subseteq BOOLEAN

\* As long as no two changes were written at once, the file is whole in every state, so
\* also after the process has died; a server whose addition succeeded is in it, unless
\* two first readings ran at once; and with nothing to write it is the copy in memory.
McpConfigKept ==
    \/ crossed
    \/ /\ Legible
       /\ doubled \/ sure \subseteq OnDisk
       /\ cache.known /\ Writers = {} /\ ~failed /\ ~doubled => cache.list = OnDisk
=============================================================================
