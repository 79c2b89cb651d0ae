------------------------------ MODULE Downloads ------------------------------
(***************************************************************************)
(* The files of the models for reading images and for speech               *)
(* (kernel/fileextract/model-downloader.ts, kernel/asr/downloader.ts,      *)
(* kernel/asr/manager.ts): who fetches them, from which mirror, and when   *)
(* they count as there.                                                    *)
(*                                                                         *)
(* Both write to a temporary name next to the file and rename it.  For     *)
(* speech all callers share one flight; for images a newer call makes the  *)
(* older ones stop at their next file, and every thread that extracts has  *)
(* a state of its own.  What a name points to is a node: a writer keeps    *)
(* its node when the name moves on.                                        *)
(***************************************************************************)
EXTENDS Naturals, Sequences, FiniteSets, SequencesExt

CONSTANTS
    OcrFiles, Required, Optional,   \* sequences of files
    Pulls,      \* calls of ensureOcrModelsDownloaded
    Threads,    \* the kernel's and those of the pool
    Speakers,   \* callers of ensureReady
    Mirrors     \* how many sources a file has

DownloadsAssumption ==
    /\ {OcrFiles, Required, Optional} \subseteq Seq(STRING)
    /\ IsFiniteSet(Pulls) /\ IsFiniteSet(Speakers) /\ Mirrors \in Nat \ {0}

VARIABLES
    final,      \* the node a file has under its own name, 0 if none
    temp,       \* the node under the temporary name
    opener,     \* of a node: who opened it last, or what came of that: "done", "cut"
    loader,     \* the pulls, and the flight for speech
    seq,        \* downloadSeq of a thread
    progress,      \* downloadState of a thread
    flight,     \* #inFlight
    ready,      \* #ready
    lastError,  \* #lastError
    speaker,    \* callers
    tangled,    \* history: files two loaders had open at once
    muddled     \* history: threads where an outrun pull reported

downloadsVars == <<final, temp, opener, loader, seq, progress, flight, ready, lastError, speaker,
                   tangled, muddled>>

Speech   == "asr"
Loaders  == Pulls \union {Speech}
AsrFiles == ToSet(Required \o Optional)
Models   == ToSet(OcrFiles) \union AsrFiles
Nodes    == 1 .. 2 * Cardinality(Models) + Cardinality(Loaders)
AtRest   == [pc |-> "idle"]

DownloadsInit ==
    /\ final     = [f \in Models |-> 0]
    /\ temp      = [f \in Models |-> 0]
    /\ opener    = [n \in Nodes |-> "done"]
    /\ loader    = [l \in Loaders |-> AtRest]
    /\ seq       = [t \in Threads |-> 0]
    /\ progress     = [t \in Threads |-> "not-downloaded"]
    /\ flight    = FALSE /\ ready = FALSE /\ lastError = FALSE
    /\ speaker   = [c \in Speakers |-> "idle"]
    /\ tangled   = {} /\ muddled = {}

LoaderGo(l, rec)  == loader' = [loader EXCEPT ![l] = rec]
LoaderAt(l, pc)   == loader[l].pc = pc
LoaderTo(l, pc)       == LoaderGo(l, [loader[l] EXCEPT !.pc = pc])
Fetched(l)        == Head(loader[l].todo)
Skips(l)          == LoaderGo(l, [loader[l] EXCEPT !.pc = "next", !.todo = Tail(@)])
OcrMissing        == {f \in ToSet(OcrFiles) : final[f] = 0}
Cached            == \A f \in ToSet(Required) : final[f] # 0

Names     == <<final, temp, opener, tangled>>
OfOcr     == <<seq, progress, muddled>>
OfSpeech  == <<flight, ready, lastError, speaker>>

-----------------------------------------------------------------------------
(* one file from one mirror: downloadToFile, downloadFileFromSource *)

Writing(n)  == {l \in Loaders : loader[l].pc \in {"write", "rename"} /\ loader[l].node = n}
Unused      == {n \in Nodes : Writing(n) = {} /\ \A f \in Models : n \notin {final[f], temp[f]}}

\* Slip: the file is written under its own name.
OpensInPlace(l) ==
    /\ LoaderAt(l, "fetch")
    /\ LET n == CHOOSE m \in Unused : \A k \in Unused : m <= k
       IN  /\ temp'   = [temp EXCEPT ![Fetched(l)] = n]
           /\ final'  = [final EXCEPT ![Fetched(l)] = n]
           /\ opener' = [opener EXCEPT ![n] = l]
           /\ LoaderGo(l, [loader[l] EXCEPT !.pc = "write", !.node = n])
    /\ UNCHANGED <<tangled, OfOcr, OfSpeech>>

\* The temporary file is truncated if it is there, whoever made it.
Opens(l) ==
    /\ LoaderAt(l, "fetch")
    /\ LET f == Fetched(l)
           n == IF temp[f] # 0 THEN temp[f] ELSE CHOOSE m \in Unused : \A k \in Unused : m <= k
       IN  /\ temp'    = [temp EXCEPT ![f] = n]
           /\ opener'  = [opener EXCEPT ![n] = l]
           /\ tangled' = IF Writing(n) # {} THEN tangled \union {f} ELSE tangled
           /\ LoaderGo(l, [loader[l] EXCEPT !.pc = "write", !.node = n])
    /\ UNCHANGED <<final, OfOcr, OfSpeech>>

StreamEnds(l) ==
    /\ LoaderAt(l, "write")
    /\ opener' = [opener EXCEPT ![loader[l].node] = IF @ = l THEN "done" ELSE @]
    /\ LoaderTo(l, "rename")
    /\ UNCHANGED <<final, temp, tangled, OfOcr, OfSpeech>>

\* The rename takes what is under the temporary name now.
Renames(l) ==
    /\ LoaderAt(l, "rename") /\ temp[Fetched(l)] # 0
    /\ final' = [final EXCEPT ![Fetched(l)] = temp[Fetched(l)]]
    /\ temp'  = [temp EXCEPT ![Fetched(l)] = 0]
    /\ Skips(l)
    /\ UNCHANGED <<opener, tangled, OfOcr, OfSpeech>>

\* Another mirror, or none is left.
TriesNext(l, pc) ==
    IF loader[l].mirror < Mirrors
    THEN LoaderGo(l, [loader[l] EXCEPT !.pc = "fetch", !.mirror = @ + 1])
    ELSE LoaderTo(l, pc)

\* No answer, an error, a page of HTML: nothing was opened.
MirrorRefuses(l) ==
    /\ LoaderAt(l, "fetch")
    /\ TriesNext(l, "lacks")
    /\ UNCHANGED <<Names, OfOcr, OfSpeech>>

\* The stream breaks off, or there is nothing to rename: the temporary name goes.
FileBreaks(l) ==
    /\ LoaderAt(l, "write") \/ (LoaderAt(l, "rename") /\ temp[Fetched(l)] = 0)
    /\ opener' = [opener EXCEPT ![loader[l].node] = IF @ = l THEN "cut" ELSE @]
    /\ temp'   = [temp EXCEPT ![Fetched(l)] = 0]
    /\ TriesNext(l, "lacks")
    /\ UNCHANGED <<final, tangled, OfOcr, OfSpeech>>

-----------------------------------------------------------------------------
(* images: ensureOcrModelsDownloaded *)

Shows(t, s) == progress' = [progress EXCEPT ![t] = s]

PullBegins(p, t) ==
    /\ LoaderAt(p, "idle")
    /\ seq' = [seq EXCEPT ![t] = @ + 1]
    /\ IF OcrMissing = {}
       THEN Shows(t, "downloaded") /\ LoaderGo(p, [pc |-> "over"])
       ELSE /\ Shows(t, "downloading")
            /\ LoaderGo(p, [pc |-> "mkdir", at |-> t, seq |-> seq[t] + 1, todo |-> <<>>,
                            mirror |-> 1, node |-> 0])
    /\ UNCHANGED <<Names, muddled, OfSpeech>>

PullLists(p) ==
    /\ LoaderAt(p, "mkdir")
    /\ LoaderGo(p, [loader[p] EXCEPT !.pc = "next",
                       !.todo = SelectSeq(OcrFiles, LAMBDA f : final[f] = 0)])
    /\ UNCHANGED <<Names, OfOcr, OfSpeech>>

Outrun(p) == loader[p].seq # seq[loader[p].at]

PullNext(p) ==
    /\ LoaderAt(p, "next") /\ loader[p].todo # <<>>
    /\ IF Outrun(p) THEN LoaderGo(p, [pc |-> "over"])
       ELSE IF final[Fetched(p)] # 0 THEN Skips(p)
       ELSE LoaderGo(p, [loader[p] EXCEPT !.pc = "fetch", !.mirror = 1])
    /\ UNCHANGED <<Names, OfOcr, OfSpeech>>

\* Every piece that arrives is reported, by whichever pull.
PullReports(p) ==
    /\ LoaderAt(p, "write")
    /\ Shows(loader[p].at, "downloading")
    /\ muddled' = IF Outrun(p) THEN muddled \union {loader[p].at} ELSE muddled
    /\ UNCHANGED <<Names, loader, seq, OfSpeech>>

\* After the last file, or the first that no mirror gave.
PullEnds(p) ==
    /\ LoaderAt(p, "lacks") \/ (LoaderAt(p, "next") /\ loader[p].todo = <<>>)
    /\ Shows(loader[p].at, IF OcrMissing = {} THEN "downloaded" ELSE "error")
    /\ LoaderGo(p, [pc |-> "over"])
    /\ UNCHANGED <<Names, seq, muddled, OfSpeech>>

-----------------------------------------------------------------------------
(* speech: ensureReady and the one flight of ensureModel *)

EnsureReady(c) ==
    /\ speaker[c] # "waits"
    /\ IF ~flight /\ (ready \/ Cached)
       THEN /\ ready' = TRUE
            /\ speaker' = [speaker EXCEPT ![c] = "served"]
            /\ UNCHANGED <<flight, loader>>
       ELSE /\ speaker' = [speaker EXCEPT ![c] = "waits"]
            /\ flight' = TRUE
            /\ IF flight THEN UNCHANGED loader
               ELSE LoaderGo(Speech, [pc |-> "next", todo |-> Required \o Optional,
                                      mirror |-> 1, node |-> 0])
            /\ UNCHANGED ready
    /\ UNCHANGED <<Names, OfOcr, lastError>>

SpeechNext ==
    /\ LoaderAt(Speech, "next") /\ loader[Speech].todo # <<>>
    /\ IF final[Fetched(Speech)] # 0 THEN Skips(Speech)
       ELSE LoaderGo(Speech, [loader[Speech] EXCEPT !.pc = "fetch", !.mirror = 1])
    /\ UNCHANGED <<Names, OfOcr, OfSpeech>>

SpeechGoesWithout ==
    /\ LoaderAt(Speech, "lacks") /\ Fetched(Speech) \in ToSet(Optional)
    /\ Skips(Speech)
    /\ UNCHANGED <<Names, OfOcr, OfSpeech>>

\* All who wait are answered, and each takes the flight down, before anyone else runs.
FlightEnds(ok) ==
    /\ flight'  = FALSE
    /\ speaker' = [c \in Speakers |->
                      IF speaker[c] # "waits" THEN speaker[c] ELSE IF ok THEN "served" ELSE "failed"]
    /\ ready'   = (ready \/ ok)
    /\ lastError' = ~ok
    /\ LoaderGo(Speech, AtRest)
    /\ UNCHANGED <<Names, OfOcr>>

SpeechArrives == LoaderAt(Speech, "next") /\ loader[Speech].todo = <<>> /\ FlightEnds(TRUE)

SpeechFails ==
    /\ LoaderAt(Speech, "lacks") /\ Fetched(Speech) \in ToSet(Required)
    /\ FlightEnds(FALSE)

-----------------------------------------------------------------------------

\* The process ends: what is on the disk stays.
ProcessEnds ==
    /\ \E l \in Loaders : loader[l].pc \notin {"idle", "over"}
    /\ loader' = [l \in Loaders |-> IF loader[l].pc = "idle" \/ l = Speech THEN AtRest ELSE [pc |-> "over"]]
    /\ opener' = [n \in Nodes |-> IF opener[n] \in Loaders THEN "cut" ELSE opener[n]]
    /\ seq'    = [t \in Threads |-> 0]
    /\ progress'  = [t \in Threads |-> "not-downloaded"]
    /\ flight' = FALSE /\ ready' = FALSE /\ lastError' = FALSE
    /\ speaker' = [c \in Speakers |-> "idle"]
    /\ muddled' = {}
    /\ UNCHANGED <<final, temp, tangled>>

FetchesFile(l) == Opens(l) \/ StreamEnds(l) \/ Renames(l) \/ MirrorRefuses(l) \/ FileBreaks(l)

\* The two do not touch each other's files.
ImagesNext ==
    \/ \E p \in Pulls :
          \/ \E t \in Threads : PullBegins(p, t)
          \/ PullLists(p) \/ PullNext(p) \/ PullReports(p) \/ PullEnds(p) \/ FetchesFile(p)
    \/ ProcessEnds

SpeechesNext ==
    \/ \E c \in Speakers : EnsureReady(c)
    \/ SpeechNext \/ SpeechGoesWithout \/ SpeechArrives \/ SpeechFails \/ FetchesFile(Speech)
    \/ ProcessEnds

DownloadsNext == ImagesNext \/ SpeechesNext

DownloadsSpec == DownloadsInit /\ [][DownloadsNext]_downloadsVars

-----------------------------------------------------------------------------
\* What a variable may hold.
DownloadsTypeOK ==
    /\ {final, temp} \subseteq [Models -> Nodes \union {0}]
    /\ opener \in [Nodes -> Loaders \union {"done", "cut"}]
    /\ progress \in [Threads -> {"not-downloaded", "downloading", "downloaded", "error"}]
    /\ speaker \in [Speakers -> {"idle", "waits", "served", "failed"}]
    /\ {flight, ready, lastError} \subseteq BOOLEAN

\* A file under its own name is whole, whatever failed or ended before, unless two
\* loaders had it open at once: which cannot be for speech, and for images only when
\* two calls overlap.  Who waits for speech waits for a flight that is under way, and
\* what is ready has every required file whole.  A thread that pulls nothing does not
\* say it is downloading, unless a pull that was outrun had reported.
\* (downloadToFile, downloadFileFromSource, ensureOcrModelsDownloaded, ensureReady)
ModelsWhole ==
    /\ \A f \in Models : final[f] # 0 /\ f \notin tangled => opener[final[f]] = "done"
    /\ tangled \intersect AsrFiles = {}
    /\ flight = (loader[Speech] # AtRest)
    /\ (\E c \in Speakers : speaker[c] = "waits") = flight
    /\ ready => \A f \in ToSet(Required) : final[f] # 0
    /\ \A t \in Threads : progress[t] = "downloading" =>
          t \in muddled \/ \E p \in Pulls : loader[p].pc \notin {"idle", "over"} /\ loader[p].at = t

=============================================================================
