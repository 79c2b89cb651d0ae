----------------------------- MODULE Recognition -----------------------------
(***************************************************************************)
(* What is done with the models: texts taken from files                    *)
(* (kernel/fileextract/service.ts, engines/ocr.ts) and from speech         *)
(* (kernel/asr/engine.ts).                                                 *)
(*                                                                         *)
(* An engine is made at its first use, kept, and given up when it has not  *)
(* been used for a while; the timer does not know of uses under way.  An   *)
(* extraction runs in a thread of the pool, or on the main thread when the *)
(* pool fails it; each thread has an engine of its own.                    *)
(***************************************************************************)
EXTENDS Naturals, FiniteSets

CONSTANTS
    Readings,  \* extractions and transcriptions
    MaxMade,   \* bound: engines ever made
    Formats,   \* of what is given: "speech", "plain" (text, office), "image", "weak" and "good" PDFs
    Modes      \* option ocr: "auto", "always", "never"

RecognitionAssumption == IsFiniteSet(Readings) /\ MaxMade \in Nat

VARIABLES
    job,       \* the work
    single,      \* the singleton of an engine: ocrSingleton, loadPromise and pipeline
    made,      \* engines: "none", "making", "up", "gone"
    count,     \* how many
    owner,     \* the engine they were made for
    timer,     \* the idle timer of an engine
    models,    \* the files for reading images are there
    auto,      \* HARNESS_OCR_AUTO_DOWNLOAD
    stored,    \* file_extracts of one file: the job the row is of
    shut,      \* history: engines closed with the kernel
    failing,   \* history: engines whose last use failed
    pulledOut  \* history: engines given up although another job used them

recogVars == <<job, single, made, count, owner, timer, models, auto, stored, shut, failing, pulledOut>>

Engines == {"asr", "ocr"}
Nobody  == "nobody"

RecogInit ==
    /\ job     = [j \in Readings |-> [pc |-> "new"]]
    /\ single    = [e \in Engines |-> 0]
    /\ made    = [i \in 1 .. MaxMade |-> "none"]
    /\ count   = 0
    /\ owner   = [i \in 1 .. MaxMade |-> "asr"]
    /\ timer   = [e \in Engines |-> FALSE]
    /\ models \in BOOLEAN /\ auto \in BOOLEAN
    /\ stored  = Nobody
    /\ shut = {} /\ failing = {} /\ pulledOut = {}

JobGo(j, rec)   == job' = [job EXCEPT ![j] = rec]
JobAt(j, pc)    == job[j].pc = pc
JobTo(j, pc)    == JobGo(j, [job[j] EXCEPT !.pc = pc])
With(j, i)      == job[j].pc = "uses" /\ job[j].made = i
EngineParts     == <<single, made, count, owner, timer>>
Asides          == <<shut, failing, pulledOut>>

-----------------------------------------------------------------------------
(* engines: getOcrInstance, releaseOcrInstance; load, unload, transcribe *)

\* A use takes what is held, be it still in the making, or has another one made.
Takes(j) ==
    /\ JobAt(j, "engine") /\ job[j].at # "pool"
    /\ LET e == job[j].at IN
       IF single[e] # 0
       THEN JobGo(j, [job[j] EXCEPT !.pc = "waits", !.made = single[e]]) /\ UNCHANGED EngineParts
       ELSE /\ count < MaxMade
            /\ count' = count + 1
            /\ owner' = [owner EXCEPT ![count + 1] = e]
            /\ single'  = [single EXCEPT ![e] = count + 1]
            /\ made'  = [made EXCEPT ![count + 1] = "making"]
            /\ JobGo(j, [job[j] EXCEPT !.pc = "waits", !.made = count + 1])
            /\ UNCHANGED timer
    /\ UNCHANGED <<models, auto, stored, Asides>>

\* Speech takes up what was made although it was given up meanwhile; reading
\* images has it disposed of by who gave it up.
Made(i) ==
    /\ made[i] = "making"
    /\ LET e == owner[i] IN
       /\ made' = [made EXCEPT ![i] = IF e # "asr" /\ single[e] # i THEN "gone" ELSE "up"]
       /\ single' = IF e = "asr" THEN [single EXCEPT ![e] = i] ELSE single
    /\ UNCHANGED <<job, count, owner, timer, models, auto, stored, Asides>>

\* The promise of what could not be made is forgotten; the users fail.
MakingFails(i) ==
    /\ made[i] = "making"
    /\ made' = [made EXCEPT ![i] = "gone"]
    /\ LET e == owner[i] IN
       single' = [single EXCEPT ![e] = IF @ = i \/ (e = "asr" /\ @ # 0 /\ made[@] # "up") THEN 0 ELSE @]
    /\ job' = [j \in Readings |-> IF job[j].pc = "waits" /\ job[j].made = i
                              THEN [job[j] EXCEPT !.pc = "read", !.got = FALSE] ELSE job[j]]
    /\ UNCHANGED <<count, owner, timer, models, auto, stored, Asides>>

\* Speech puts its timer off while it works, what reads images does not.
Uses(j) ==
    /\ JobAt(j, "waits") /\ made[job[j].made] # "making"
    /\ JobTo(j, "uses")
    /\ timer' = IF job[j].at = "asr" THEN [timer EXCEPT !["asr"] = FALSE] ELSE timer
    /\ UNCHANGED <<single, made, count, owner, models, auto, stored, Asides>>

\* A use that ends winds up the timer, also when it is ended by its time limit; one
\* that throws does not.
Used(j, ok) ==
    /\ JobAt(j, "uses")
    /\ timer'   = [timer EXCEPT ![job[j].at] = TRUE]
    /\ failing' = failing \ {job[j].at}
    /\ JobGo(j, [job[j] EXCEPT !.pc = "read", !.got = ok])
    /\ UNCHANGED <<single, made, count, owner, models, auto, stored, shut, pulledOut>>

UseThrows(j) ==
    /\ JobAt(j, "uses")
    /\ failing' = failing \union {job[j].at}
    /\ JobGo(j, [job[j] EXCEPT !.pc = "read", !.got = FALSE])
    /\ UNCHANGED <<EngineParts, models, auto, stored, shut, pulledOut>>

Ready(e) == single[e] # 0 /\ (e = "asr" => made[single[e]] = "up")
GiveUp(e) ==
    /\ single' = [single EXCEPT ![e] = 0]
    /\ made' = [i \in DOMAIN made |-> IF i = single[e] /\ made[i] = "up" THEN "gone" ELSE made[i]]
    /\ timer' = [timer EXCEPT ![e] = FALSE]

\* Slip: what is held is forgotten and not given up.
IdleForgetsIt(e) ==
    /\ timer[e]
    /\ single' = [single EXCEPT ![e] = 0] /\ timer' = [timer EXCEPT ![e] = FALSE]
    /\ UNCHANGED <<job, made, count, owner, models, auto, stored, Asides>>

Idle(e) ==
    /\ timer[e]
    /\ IF Ready(e) THEN GiveUp(e)
       ELSE timer' = [timer EXCEPT ![e] = FALSE] /\ UNCHANGED <<single, made>>
    /\ pulledOut' = IF \E j \in Readings : job[j].pc \in {"waits", "uses"} /\ job[j].made = single[e]
                    THEN pulledOut \union {e} ELSE pulledOut
    /\ UNCHANGED <<job, count, owner, models, auto, stored, shut, failing>>

\* The kernel shuts down: unloadEngine, closeOcrEngine.
Shut(e) ==
    /\ e \in {"asr", "ocr"} \ shut
    /\ GiveUp(e)
    /\ shut' = shut \union {e}
    /\ UNCHANGED <<job, count, owner, models, auto, stored, failing, pulledOut>>

-----------------------------------------------------------------------------
(* extractions: extract, extractFile, runExtraction *)

Begin(j, kind, mode) ==
    /\ JobAt(j, "new")
    /\ kind \in {"speech", "plain"} => mode = "auto"
    /\ JobGo(j, [pc |-> IF kind = "speech" THEN "engine" ELSE "dispatch",
                 at |-> IF kind = "speech" THEN "asr" ELSE "ocr",
                 kind |-> kind, mode |-> mode, made |-> 0, got |-> FALSE,
                 read |-> FALSE, needs |-> FALSE, late |-> FALSE])
    /\ UNCHANGED <<EngineParts, models, auto, stored, Asides>>

Working(j) == job[j].pc \in {"extract", "models", "engine", "waits", "uses", "read"}

Dispatch(j) ==
    /\ JobAt(j, "dispatch")
    /\ JobGo(j, [job[j] EXCEPT !.pc = "extract", !.at = "pool"])
    /\ UNCHANGED <<EngineParts, models, auto, stored, Asides>>

\* The pool cannot take the job, or its thread dies: the jobs begin again on the main
\* thread.
PoolRefuses(j) ==
    /\ JobAt(j, "dispatch")
    /\ JobGo(j, [job[j] EXCEPT !.pc = "extract", !.at = "ocr"])
    /\ UNCHANGED <<EngineParts, models, auto, stored, Asides>>

ThreadDies ==
    /\ \E j \in Readings : Working(j) /\ job[j].at = "pool"
    /\ job' = [j \in Readings |-> IF Working(j) /\ job[j].at = "pool"
                              THEN [job[j] EXCEPT !.pc = "extract", !.at = "ocr", !.got = FALSE]
                              ELSE job[j]]
    /\ UNCHANGED <<EngineParts, models, auto, stored, Asides>>

\* The engine of a thread lives like that of the main thread, and is not shown.
ThreadReads(j, ok) ==
    /\ JobAt(j, "engine") /\ job[j].at = "pool"
    /\ JobGo(j, [job[j] EXCEPT !.pc = "read", !.got = ok])
    /\ UNCHANGED <<EngineParts, models, auto, stored, Asides>>

WantsOcr(j) == \/ job[j].mode = "always"
               \/ job[j].mode = "auto" /\ job[j].kind # "good"
ExtractGives(j, read, needs) == JobGo(j, [job[j] EXCEPT !.pc = "result", !.read = read, !.needs = needs])

Extract(j) ==
    /\ JobAt(j, "extract")
    /\ IF job[j].kind = "plain" THEN \E empty \in BOOLEAN : ExtractGives(j, FALSE, empty)
       ELSE IF WantsOcr(j) THEN JobTo(j, "models")
       ELSE ExtractGives(j, FALSE, job[j].kind # "good")
    /\ UNCHANGED <<EngineParts, models, auto, stored, Asides>>

HasModels(j) ==
    /\ JobAt(j, "models") /\ models
    /\ JobTo(j, "engine")
    /\ UNCHANGED <<EngineParts, models, auto, stored, Asides>>

FetchesModels(j, ok) ==
    /\ JobAt(j, "models") /\ ~models
    /\ ok => auto
    /\ models' = ok
    /\ IF ok THEN JobTo(j, "engine") ELSE ExtractGives(j, FALSE, TRUE)
    /\ UNCHANGED <<EngineParts, auto, stored, Asides>>

\* What was read replaces the text of a PDF if it is not less, and may be little too.
Reads(j) ==
    /\ JobAt(j, "read")
    /\ CASE job[j].kind = "speech" -> JobTo(j, "done")
         [] job[j].kind = "image"  -> ExtractGives(j, TRUE, ~job[j].got)
         [] OTHER -> \E better \in {FALSE, job[j].got}, little \in BOOLEAN :
                        ExtractGives(j, job[j].got, ~better \/ little)
    /\ UNCHANGED <<EngineParts, models, auto, stored, Asides>>

\* On the main thread an extraction has a time limit, after which nothing is the
\* text; what it was doing goes on unseen.
ExtractTimesOut(j) ==
    /\ Working(j) /\ job[j].at = "ocr" /\ ~job[j].late
    /\ JobGo(j, [job[j] EXCEPT !.late = TRUE])
    /\ stored' = j
    /\ UNCHANGED <<EngineParts, models, auto, Asides>>

\* extractFile writes the row, over the one that is there.
Persists(j) ==
    /\ JobAt(j, "result")
    /\ stored' = IF job[j].kind = "speech" \/ job[j].late THEN stored ELSE j
    /\ JobTo(j, "done")
    /\ UNCHANGED <<EngineParts, models, auto, Asides>>

RecogNext ==
    \/ \E j \in Readings :
          \/ \E kind \in Formats, mode \in Modes : Begin(j, kind, mode)
          \/ Dispatch(j) \/ PoolRefuses(j) \/ Extract(j) \/ HasModels(j) \/ Reads(j) \/ ExtractTimesOut(j)
          \/ \E ok \in BOOLEAN : FetchesModels(j, ok) \/ Used(j, ok) \/ ThreadReads(j, ok)
          \/ Takes(j) \/ Uses(j) \/ UseThrows(j) \/ Persists(j)
    \/ \E i \in 1 .. count : Made(i) \/ MakingFails(i)
    \/ \E e \in Engines : Idle(e) \/ Shut(e)
    \/ ThreadDies

RecogSpec == RecogInit /\ [][RecogNext]_recogVars

-----------------------------------------------------------------------------
\* What a variable may hold.
RecogTypeOK ==
    /\ single \in [Engines -> 0 .. count] /\ count \in 0 .. MaxMade
    /\ made \in [1 .. MaxMade -> {"none", "making", "up", "gone"}]
    /\ timer \in [Engines -> BOOLEAN] /\ stored \in Readings \union {Nobody}

\* Until the kernel shuts down an engine exists once, everything that is up is held,
\* and when nobody uses it its timer runs, unless the last use threw.  Nobody works
\* with an engine that was given up, except where the timer of another use or the
\* shutdown ran out under it.  Images and PDFs that were to be read and were not
\* say so, in the row too, except when the time limit answered; what may not be
\* read is not.
\* (getOcrInstance, releaseOcrInstance, load, unload, runExtraction, extractFile)
ReadingsAgree ==
    /\ \A e \in Engines \ shut : \A i \in 1 .. count :
          made[i] = "up" /\ owner[i] = e =>
             /\ single[e] = i
             /\ \/ timer[e] \/ e \in failing
                \/ \E j \in Readings : job[j].pc \in {"waits", "uses"} /\ job[j].made = i
    /\ \A j \in Readings : job[j].pc = "uses" =>
          made[job[j].made] = "up" \/ job[j].at \in pulledOut \union shut
    /\ \A j \in Readings : job[j].pc \in {"result", "done"} /\ job[j].kind \in {"image", "weak"} =>
          /\ job[j].read => job[j].mode # "never"
          /\ ~job[j].read => job[j].needs \/ job[j].late
    /\ stored # Nobody => (job[stored].pc = "done" \/ job[stored].late)

=============================================================================
