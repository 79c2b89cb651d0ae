-------------------------------- MODULE Files --------------------------------
(***************************************************************************)
(* The file service (src/kernel/files/service.ts): an uploaded file is     *)
(* checked, handed to a hook, written to the disk and then entered in the  *)
(* table files; it is deleted in the same order.  A step is a method up to *)
(* its next await; requests overlap.                                       *)
(***************************************************************************)
EXTENDS Integers, FiniteSets, Functions

CONSTANTS
    Owners,        \* extensions; Kernel stands for ext_id NULL
    FileOps,       \* requests under way at a time
    MaxUpload, StorageQuota,  \* maxUploadBytes, maxExtStorageBytes
    MaxFiles       \* bound: files ever stored

Kernel == "kernel"

ASSUME FilesAssumption ==
    /\ IsFiniteSet(FileOps) /\ FileOps # {} /\ Kernel \notin Owners
    /\ MaxUpload \in Nat /\ StorageQuota \in Nat /\ MaxFiles \in Nat

Sizes == 1..MaxUpload

VARIABLES
    fileRows,   \* table files: a function on the ids it holds
    onDisk,     \* ids of the files on the disk
    fileOp,     \* the requests
    lastFile,   \* ids given out
    (* history *)
    litter,     \* files on the disk that were given up
    hollow,     \* rows whose file was deleted although they stay
    grown       \* grown[e]: bytes that hooks have added to the uploads of e

filesVars == <<fileRows, onDisk, fileOp, lastFile, litter, hollow, grown>>

FileRequest(pc, owner, size, file) == [pc |-> pc, owner |-> owner, size |-> size, file |-> file]
NoFileOp == FileRequest("idle", Kernel, 0, 0)

FilesInit ==
    /\ fileRows = [f \in {} |-> 0]
    /\ onDisk   = {}
    /\ fileOp   = [o \in FileOps |-> NoFileOp]
    /\ lastFile = 0
    /\ litter   = {}
    /\ hollow   = {}
    /\ grown    = [e \in Owners |-> 0]

UsedBytes(e) ==
    SumFunctionOnSet([f \in DOMAIN fileRows |-> fileRows[f].size],
                     {f \in DOMAIN fileRows : fileRows[f].owner = e})

FileGo(o, op) == fileOp' = [fileOp EXCEPT ![o] = op]
FileAt(o, pc) == fileOp[o].pc = pc

-----------------------------------------------------------------------------
(* store *)

\* A file of the kernel has no quota to wait for.
Store(o, e, size) ==
    /\ FileAt(o, "idle")
    /\ FileGo(o, FileRequest(IF e = Kernel THEN "hook" ELSE "quota", e, size, 0))
    /\ UNCHANGED <<fileRows, onDisk, lastFile, litter, hollow, grown>>

Fits(op) == UsedBytes(op.owner) + op.size <= StorageQuota

QuotaRead(o) ==
    /\ FileAt(o, "quota")
    /\ FileGo(o, IF Fits(fileOp[o]) THEN [fileOp[o] EXCEPT !.pc = "hook"] ELSE NoFileOp)
    /\ UNCHANGED <<fileRows, onDisk, lastFile, litter, hollow, grown>>

\* file.beforeStore refuses the file, keeps it or writes it anew, with an owner
\* and a size of its own.  The quota is not looked at again.
Hooked(o) ==
    /\ FileAt(o, "hook")
    /\ \/ FileGo(o, NoFileOp) /\ UNCHANGED <<lastFile, grown>>
       \/ /\ lastFile < MaxFiles
          /\ lastFile' = lastFile + 1
          /\ \E e \in Owners \union {Kernel}, size \in Sizes :
                /\ FileGo(o, FileRequest("put", e, size, lastFile + 1))
                /\ grown' = IF e = Kernel \/ (e = fileOp[o].owner /\ size <= fileOp[o].size) THEN grown
                            ELSE [grown EXCEPT ![e] = @ + size - (IF e = fileOp[o].owner THEN fileOp[o].size ELSE 0)]
    /\ UNCHANGED <<fileRows, onDisk, litter, hollow>>

\* A file that could not be written to its end is left there.
PutFile(o) ==
    /\ FileAt(o, "put")
    /\ \/ /\ onDisk' = onDisk \union {fileOp[o].file}
          /\ FileGo(o, [fileOp[o] EXCEPT !.pc = "insert"])
          /\ UNCHANGED litter
       \/ /\ onDisk' = onDisk \union {fileOp[o].file}
          /\ litter' = litter \union {fileOp[o].file}
          /\ FileGo(o, NoFileOp)
       \/ FileGo(o, NoFileOp) /\ UNCHANGED <<onDisk, litter>>
    /\ UNCHANGED <<fileRows, lastFile, hollow, grown>>

Entered(o) ==
    fileRows' = [f \in DOMAIN fileRows \union {fileOp[o].file} |->
                    IF f = fileOp[o].file THEN [owner |-> fileOp[o].owner, size |-> fileOp[o].size] ELSE fileRows[f]]

\* Slip: a file whose row cannot be inserted stays on the disk.
InsertNoUndo(o) ==
    /\ FileAt(o, "insert")
    /\ Entered(o) \/ UNCHANGED fileRows
    /\ FileGo(o, NoFileOp)
    /\ UNCHANGED <<onDisk, lastFile, litter, hollow, grown>>

Insert(o) ==
    /\ FileAt(o, "insert")
    /\ \/ Entered(o) /\ FileGo(o, NoFileOp)
       \/ FileGo(o, [fileOp[o] EXCEPT !.pc = "undo"]) /\ UNCHANGED fileRows
    /\ UNCHANGED <<onDisk, lastFile, litter, hollow, grown>>

Undo(o) ==
    /\ FileAt(o, "undo")
    /\ \/ onDisk' = onDisk \ {fileOp[o].file} /\ UNCHANGED litter
       \/ litter' = litter \union {fileOp[o].file} /\ UNCHANGED onDisk
    /\ FileGo(o, NoFileOp)
    /\ UNCHANGED <<fileRows, lastFile, hollow, grown>>

-----------------------------------------------------------------------------
(* remove *)

RemoveFile(o, f) ==
    /\ FileAt(o, "idle") /\ f \in DOMAIN fileRows
    /\ FileGo(o, FileRequest("unlink", Kernel, 0, f))
    /\ UNCHANGED <<fileRows, onDisk, lastFile, litter, hollow, grown>>

\* A file that is missing is no failure.
Unlink(o) ==
    /\ FileAt(o, "unlink")
    /\ \/ onDisk' = onDisk \ {fileOp[o].file} /\ FileGo(o, [fileOp[o] EXCEPT !.pc = "delete"])
       \/ FileGo(o, NoFileOp) /\ UNCHANGED onDisk
    /\ UNCHANGED <<fileRows, lastFile, litter, hollow, grown>>

Delete(o) ==
    /\ FileAt(o, "delete")
    /\ \/ fileRows' = [f \in DOMAIN fileRows \ {fileOp[o].file} |-> fileRows[f]] /\ UNCHANGED hollow
       \/ hollow' = hollow \union {fileOp[o].file} /\ UNCHANGED fileRows
    /\ FileGo(o, NoFileOp)
    /\ UNCHANGED <<onDisk, lastFile, litter, grown>>

\* The process ends with everything that is under way.
FilesCrash ==
    /\ \E o \in FileOps : fileOp[o].pc # "idle"
    /\ fileOp' = [o \in FileOps |-> NoFileOp]
    /\ litter' = litter \union (onDisk \ DOMAIN fileRows)
    /\ hollow' = hollow \union (DOMAIN fileRows \ onDisk)
    /\ UNCHANGED <<fileRows, onDisk, lastFile, grown>>

FilesNext ==
    \/ \E o \in FileOps :
         \/ \E e \in Owners \union {Kernel}, size \in Sizes : Store(o, e, size)
         \/ QuotaRead(o) \/ Hooked(o) \/ PutFile(o) \/ Insert(o) \/ Undo(o)
         \/ \E f \in 1..lastFile : RemoveFile(o, f)
         \/ Unlink(o) \/ Delete(o)
    \/ FilesCrash

FilesSpec == FilesInit /\ [][FilesNext]_filesVars

-----------------------------------------------------------------------------
(* Properties *)

\* Every variable keeps its type, and a row is about a file that was given out.
FilesTypeOK ==
    /\ lastFile \in 0..MaxFiles
    /\ DOMAIN fileRows \subseteq 1..lastFile
    /\ \A f \in DOMAIN fileRows : fileRows[f] \in [owner : Owners \union {Kernel}, size : Sizes]
    /\ onDisk \subseteq 1..lastFile /\ litter \subseteq 1..lastFile /\ hollow \subseteq 1..lastFile
    /\ fileOp \in [FileOps ->
         [pc : {"idle", "quota", "hook", "put", "insert", "undo", "unlink", "delete"},
          owner : Owners \union {Kernel}, size : 0..MaxUpload, file : 0..lastFile]]
    /\ grown \in [Owners -> Nat]

FileInHand(f, pcs) == \E o \in FileOps : fileOp[o].pc \in pcs /\ fileOp[o].file = f

\* However uploads and deletions overlap, fail and end: a file on the disk has
\* its row and a row its file, while no request is between the two, but for
\* what the code is known to leave.
\* The quota is read before the hook and the disk, so that uploads that overlap all
\* pass it: together they exceed it by no more than one upload for each of the
\* others, and what the hooks have added.
FilesPaired ==
    /\ \A f \in onDisk : f \in DOMAIN fileRows \/ f \in litter \/ FileInHand(f, {"insert", "undo"})
    /\ \A f \in DOMAIN fileRows : f \in onDisk \/ f \in hollow \/ FileInHand(f, {"delete"})
    /\ \A e \in Owners : UsedBytes(e) <= StorageQuota + (Cardinality(FileOps) - 1) * MaxUpload + grown[e]

=============================================================================
