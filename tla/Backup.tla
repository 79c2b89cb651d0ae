------------------------------- MODULE Backup -------------------------------
(***************************************************************************)
(* A backup beside uploads and deletions (kernel/storage/backup.ts         *)
(* createBackup, with the steps of kernel/files/service.ts that it meets). *)
(*                                                                         *)
(* The database is copied first, then the directories are listed, then the *)
(* listed files are read one by one into the archive, while files come and *)
(* go.  Each file is in a directory of its own (they are those of months), *)
(* listed in its turn.                                                     *)
(***************************************************************************)
EXTENDS Naturals, FiniteSetsExt

CONSTANTS
    MaxStored,  \* bound on the files ever uploaded
    Backups     \* backups, each run once: of an administrator, or before an update

BackupAssumption == MaxStored \in Nat

Stored == 1 .. MaxStored

VARIABLES
    table,      \* rows of files
    disk,       \* files under uploads
    request,    \* the upload or the deletion of each file
    job,        \* backups
    parts,      \* files under backups that are no whole archives
    gone        \* history: files whose deletion has begun, and of which one was given up

backupVars == <<table, disk, request, job, parts, gone>>

BackupInit ==
    /\ table = {} /\ disk = [f \in Stored |-> "none"]
    /\ request = [f \in Stored |-> "none"]
    /\ job = [b \in Backups |-> [pc |-> "none"]]
    /\ parts = {} /\ gone = {}

Requests(f, from, to) == request[f] = from /\ request' = [request EXCEPT ![f] = to]
OnDisk(f, what)       == disk' = [disk EXCEPT ![f] = what]
Runs(b, rec)          == job' = [job EXCEPT ![b] = rec]

-----------------------------------------------------------------------------
(* the file service *)

Puts(f) ==
    /\ Requests(f, "none", "put") /\ OnDisk(f, "half")
    /\ UNCHANGED <<table, job, parts, gone>>

PutEnds(f) ==
    /\ Requests(f, "put", "insert") /\ OnDisk(f, "whole")
    /\ UNCHANGED <<table, job, parts, gone>>

Inserts(f) ==
    /\ Requests(f, "insert", "done") /\ table' = table \union {f}
    /\ UNCHANGED <<disk, job, parts, gone>>

\* A row that cannot be inserted takes its file with it.
Undoes(f) ==
    /\ Requests(f, "insert", "done") /\ OnDisk(f, "none") /\ gone' = gone \union {f}
    /\ UNCHANGED <<table, job, parts>>

Removes(f) ==
    /\ f \in table /\ Requests(f, "done", "unlink") /\ gone' = gone \union {f}
    /\ UNCHANGED <<table, disk, job, parts>>

Unlinks(f) ==
    /\ Requests(f, "unlink", "delete") /\ OnDisk(f, "none")
    /\ UNCHANGED <<table, job, parts, gone>>

DeletesRow(f) ==
    /\ Requests(f, "delete", "done") /\ table' = table \ {f}
    /\ UNCHANGED <<disk, job, parts, gone>>

-----------------------------------------------------------------------------
(* createBackup *)

\* Slip: the directories are listed before the database is copied.
SnapshotsLast(b) ==
    /\ \/ /\ job[b].pc = "none"
          /\ Runs(b, [pc |-> "list", rows |-> {}, list |-> {}, turn |-> 1])
          /\ parts' = parts \union {<<b, "snapshot">>}
       \/ /\ job[b].pc = "read" /\ job[b].got = <<>>
          /\ Runs(b, [job[b] EXCEPT !.rows = table])
          /\ UNCHANGED parts
    /\ UNCHANGED <<table, disk, request, gone>>

\* VACUUM INTO copies the table as it is at one moment.
Snapshots(b) ==
    /\ job[b].pc = "none"
    /\ Runs(b, [pc |-> "list", rows |-> table, list |-> {}, turn |-> 1])
    /\ parts' = parts \union {<<b, "snapshot">>}
    /\ UNCHANGED <<table, disk, request, gone>>

\* collectDir
Lists(b) ==
    /\ job[b].pc = "list" /\ job[b].turn \in Stored
    /\ LET f == job[b].turn IN
       Runs(b, [job[b] EXCEPT !.turn = f + 1, !.list = IF disk[f] = "none" THEN @ ELSE @ \union {f}])
    /\ UNCHANGED <<table, disk, request, parts, gone>>

\* The manifest is written, with the names of what follows.
WritesManifest(b) ==
    /\ job[b].pc = "list" /\ job[b].turn \notin Stored
    /\ Runs(b, [pc |-> "read", rows |-> job[b].rows, list |-> job[b].list, got |-> <<>>])
    /\ parts' = parts \union {<<b, "archive">>}
    /\ UNCHANGED <<table, disk, request, gone>>

Unread(b) == {f \in job[b].list : f \notin DOMAIN job[b].got}

Reads(b) ==
    /\ job[b].pc = "read" /\ Unread(b) # {}
    /\ LET f == Min(Unread(b)) IN
       /\ disk[f] # "none"
       /\ Runs(b, [job[b] EXCEPT !.got = [g \in DOMAIN @ \union {f} |-> IF g = f THEN disk[f] ELSE @[g]]])
    /\ UNCHANGED <<table, disk, request, parts, gone>>

\* The archive is ready; the copy of the database is removed, if it can be.
Finishes(b, tidy) ==
    /\ job[b].pc = "read" /\ Unread(b) = {}
    /\ Runs(b, [pc |-> "made", rows |-> job[b].rows, list |-> job[b].list, got |-> job[b].got, gone |-> gone])
    /\ parts' = (IF tidy THEN parts \ {<<b, "snapshot">>} ELSE parts) \ {<<b, "archive">>}
    /\ UNCHANGED <<table, disk, request, gone>>

\* A listed file that has gone ends the backup, and so may the disk.
Misses(b) == job[b].pc = "read" /\ Unread(b) # {} /\ disk[Min(Unread(b))] = "none"

Fails(b, tidy) ==
    /\ job[b].pc \in {"list", "read"}
    /\ Runs(b, [pc |-> "failed", list |-> job[b].list, fault |-> ~Misses(b), tidy |-> tidy])
    /\ parts' = IF tidy THEN parts \ ({b} \X {"snapshot", "archive"}) ELSE parts
    /\ UNCHANGED <<table, disk, request, gone>>

\* The kernel dies and starts again.  What it was doing stays half done.
Dies ==
    /\ request' = [f \in Stored |-> IF request[f] = "none" THEN "none" ELSE "done"]
    /\ job' = [b \in Backups |-> IF job[b].pc \in {"list", "read"} THEN [pc |-> "cut"] ELSE job[b]]
    /\ UNCHANGED <<table, disk, parts, gone>>

BackupNext ==
    \/ \E f \in Stored : Puts(f) \/ PutEnds(f) \/ Inserts(f) \/ Undoes(f)
                         \/ Removes(f) \/ Unlinks(f) \/ DeletesRow(f)
    \/ \E b \in Backups : \/ Snapshots(b) \/ Lists(b) \/ WritesManifest(b) \/ Reads(b)
                          \/ \E tidy \in BOOLEAN : Finishes(b, tidy) \/ Fails(b, tidy)
    \/ Dies

BackupSpec == BackupInit /\ [][BackupNext]_backupVars

-----------------------------------------------------------------------------
\* Every variable stays within its type.
BackupTypeOK ==
    /\ table \subseteq Stored /\ gone \subseteq Stored
    /\ disk \in [Stored -> {"none", "half", "whole"}]
    /\ request \in [Stored -> {"none", "put", "insert", "done", "unlink", "delete"}]
    /\ \A b \in Backups : job[b].pc \in {"none", "list", "read", "made", "failed", "cut"}
    /\ parts \subseteq Backups \X {"snapshot", "archive"}

\* An archive that createBackup has answered for holds what its manifest names, and of
\* every row of its database the whole file, unless the file was being deleted by then;
\* a backup fails for a fault of the disk or for a file that was deleted under it; and
\* what is no archive lies among the backups only during one, or where the kernel died
\* or could not remove it.
BackupWhole ==
    \A b \in Backups :
        /\ job[b].pc = "made" =>
               /\ DOMAIN job[b].got = job[b].list
               /\ \A f \in job[b].rows : \/ f \in job[b].list /\ job[b].got[f] = "whole"
                                         \/ f \in job[b].gone
        /\ job[b].pc = "failed" => job[b].fault \/ gone \cap job[b].list # {}
        /\ <<b, "archive">> \in parts =>
               job[b].pc \in {"read", "cut"} \/ (job[b].pc = "failed" /\ ~job[b].tidy)
=============================================================================
