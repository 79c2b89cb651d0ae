------------------------------- MODULE Memory --------------------------------
(***************************************************************************)
(* The memories of the assistant (kernel/memory/manager.ts, store.ts and   *)
(* extractor.ts, api/memory.ts): adding with removal of doubles, the       *)
(* extraction of facts from a text, the limit, forgetting and searching.   *)
(*                                                                         *)
(* Every query of the store is one step and nothing holds the table        *)
(* between the queries of one request.  Contents are names; one may be the *)
(* beginning of another.  All memories are of one scope.                   *)
(***************************************************************************)
EXTENDS Naturals, Sequences, FiniteSets, FiniteSetsExt, SequencesExt

CONSTANTS
    Texts,
    Beginnings,  \* pairs of texts, the first the beginning of the second
    Adders,      \* requests, one after the other
    Limits,      \* values of maxMemories
    AddsMax,     \* bound on the requests that add
    FactsMax     \* bound on the facts that a model finds in a text

MemoryAssumption ==
    /\ Beginnings \subseteq Texts \X Texts
    /\ Limits \subseteq Nat \ {0} /\ Limits # {} /\ {AddsMax, FactsMax} \subseteq Nat

VARIABLES
    rows,         \* the table: [id, text, used, at]
    limit,        \* maxMemories of the manager
    stored,       \* maxMemories of the setting
    clock,        \* what now() has said, counting the rows made
    caller,       \* requests
    twins,        \* history: texts that two requests were adding at once
    above,        \* history: the limit was lowered, or a request died, since it last was held
    robbed        \* history: a request alone in the table has taken more than it should

memoryVars == <<rows, limit, stored, clock, caller, twins, above, robbed>>

AtRest == [pc |-> "idle"]
Similar(a, b) == a = b \/ <<a, b>> \in Beginnings \/ <<b, a>> \in Beginnings

MemoryInit ==
    /\ rows = {} /\ clock = 0
    /\ \E n \in Limits : limit = n /\ stored = n
    /\ caller = [c \in Adders |-> AtRest]
    /\ twins = {} /\ above = FALSE /\ robbed = FALSE

At(c, pc)  == caller[c].pc = pc
Go(c, rec) == caller' = [caller EXCEPT ![c] = rec]
\* The others see a table that is not theirs alone.
GoAmong(c, rec) ==
    caller' = [d \in Adders |-> IF d = c THEN rec
                                 ELSE IF "alone" \in DOMAIN caller[d]
                                      THEN [caller[d] EXCEPT !.alone = FALSE] ELSE caller[d]]
Histories == <<twins, above, robbed>>
Settings  == <<limit, stored>>

\* What a request does after a fact: the next one, or it is done.
Next1(todo) == IF todo = <<>> THEN AtRest ELSE [pc |-> "similar", todo |-> todo]

-----------------------------------------------------------------------------
(* MemoryManager.add, extractAndStore *)

Adding(c, text, todo) ==
    /\ clock < AddsMax
    /\ clock' = clock + 1
    /\ Go(c, [pc |-> "find", text |-> text, at |-> clock + 1, todo |-> todo])
    /\ twins' = IF \E d \in Adders \ {c} : /\ caller[d].pc \in {"find", "insert"}
                                            /\ caller[d].text = text
                THEN twins \union {text} ELSE twins
    /\ UNCHANGED <<rows, Settings, above, robbed>>

Add(c, text) == At(c, "idle") /\ Adding(c, text, <<>>)

\* extractFromText: what the model says, without doubles among itself.
Facts(said) == FoldLeft(LAMBDA kept, t : IF \E i \in DOMAIN kept : Similar(kept[i], t) THEN kept
                                         ELSE Append(kept, t), <<>>, said)

Extract(c) ==
    /\ At(c, "idle")
    /\ \E n \in 1 .. FactsMax : \E said \in [1 .. n -> Texts] : Go(c, Next1(Facts(said)))
    /\ UNCHANGED <<rows, Settings, clock, Histories>>

\* findByExactOrPrefix: a fact that is known in other words is skipped.
FactKnown(c) ==
    /\ At(c, "similar") /\ \E r \in rows : Similar(r.text, Head(caller[c].todo))
    /\ Go(c, Next1(Tail(caller[c].todo)))
    /\ UNCHANGED <<rows, Settings, clock, Histories>>

FactNew(c) ==
    /\ At(c, "similar") /\ \A r \in rows : ~Similar(r.text, Head(caller[c].todo))
    /\ Adding(c, Head(caller[c].todo), Tail(caller[c].todo))

\* Slip: nothing looks for the same content.
FindsNothing(c) ==
    /\ At(c, "find")
    /\ Go(c, [caller[c] EXCEPT !.pc = "insert"])
    /\ UNCHANGED <<rows, Settings, clock, Histories>>

\* findByExactContent.
Find(c) ==
    /\ At(c, "find")
    /\ \/ /\ \A r \in rows : r.text # caller[c].text
          /\ Go(c, [caller[c] EXCEPT !.pc = "insert"])
       \/ \E r \in rows : /\ r.text = caller[c].text
                          /\ Go(c, [pc |-> "touch", id |-> r.id, at |-> caller[c].at,
                                    todo |-> caller[c].todo])
    /\ UNCHANGED <<rows, Settings, clock, Histories>>

\* A row that has gone in the meantime is not missed.
Touch(c) ==
    /\ At(c, "touch")
    /\ rows' = {IF r.id = caller[c].id THEN [r EXCEPT !.at = caller[c].at] ELSE r : r \in rows}
    /\ Go(c, Next1(caller[c].todo))
    /\ UNCHANGED <<Settings, clock, Histories>>

\* The row is in the table, and the limit is read for the queries that follow.
Insert(c) ==
    /\ At(c, "insert")
    /\ rows' = rows \union {[id |-> caller[c].at, text |-> caller[c].text, used |-> FALSE,
                             at |-> caller[c].at]}
    /\ GoAmong(c, [pc |-> "count", max |-> limit, todo |-> caller[c].todo, alone |-> TRUE])
    /\ UNCHANGED <<Settings, clock, Histories>>

-----------------------------------------------------------------------------
(* MemoryStore.pruneToMax *)

Overflow(c) == Cardinality(rows) - caller[c].max

\* Slip: the row over the limit is left.
CountTooFew(c) ==
    /\ At(c, "count")
    /\ IF Cardinality(rows) <= caller[c].max + 1
       THEN Go(c, Next1(caller[c].todo))
       ELSE Go(c, [pc |-> "pick", n |-> Overflow(c) - 1, max |-> caller[c].max,
                   todo |-> caller[c].todo, alone |-> caller[c].alone])
    /\ above' = (above /\ caller[c].max # limit)
    /\ UNCHANGED <<rows, Settings, clock, twins, robbed>>

Count(c) ==
    /\ At(c, "count")
    /\ IF Cardinality(rows) <= caller[c].max
       THEN Go(c, Next1(caller[c].todo))
       ELSE Go(c, [pc |-> "pick", n |-> Overflow(c), max |-> caller[c].max,
                   todo |-> caller[c].todo, alone |-> caller[c].alone])
    /\ above' = (above /\ caller[c].max # limit)
    /\ UNCHANGED <<rows, Settings, clock, twins, robbed>>

\* Never found by a search first, then the oldest.
Weaker(r, q) == IF r.used = q.used THEN r.at < q.at ELSE ~r.used
Weakest(n)   == {r \in rows : Cardinality({q \in rows : Weaker(q, r)}) < n}

Pick(c) ==
    /\ At(c, "pick")
    /\ Go(c, [pc |-> "delete", ids |-> {r.id : r \in Weakest(caller[c].n)}, max |-> caller[c].max,
              todo |-> caller[c].todo, alone |-> caller[c].alone])
    /\ UNCHANGED <<rows, Settings, clock, Histories>>

Delete(c) ==
    /\ At(c, "delete")
    /\ rows' = {r \in rows : r.id \notin caller[c].ids}
    /\ robbed' = (robbed \/ (caller[c].alone /\ Cardinality(rows') < caller[c].max))
    /\ GoAmong(c, Next1(caller[c].todo))
    /\ UNCHANGED <<Settings, clock, twins, above>>

-----------------------------------------------------------------------------
(* forget, forgetWhere, search, settings *)

Forget(c) ==
    /\ At(c, "idle") /\ \E gone \in SUBSET rows : gone # {} /\ rows' = rows \ gone
    /\ GoAmong(c, AtRest)
    /\ UNCHANGED <<Settings, clock, Histories>>

Search(c) ==
    /\ At(c, "idle") /\ \E r \in rows : Go(c, [pc |-> "track", id |-> r.id])
    /\ UNCHANGED <<rows, Settings, clock, Histories>>

\* trackAccess, after the hits are known.
Track(c) ==
    /\ At(c, "track")
    /\ rows' = {IF r.id = caller[c].id THEN [r EXCEPT !.used = TRUE] ELSE r : r \in rows}
    /\ Go(c, AtRest)
    /\ UNCHANGED <<Settings, clock, Histories>>

\* PUT /api/v1/memory/settings: the limit given, or the one read before.
ReadSettings(c) ==
    /\ At(c, "idle") /\ \E n \in Limits \union {stored} : Go(c, [pc |-> "save", n |-> n])
    /\ UNCHANGED <<rows, Settings, clock, Histories>>

SaveSettings(c) ==
    /\ At(c, "save")
    /\ stored' = caller[c].n
    /\ Go(c, [caller[c] EXCEPT !.pc = "apply"])
    /\ UNCHANGED <<rows, limit, clock, Histories>>

\* setMaxMemories: nothing is taken away.
ApplySettings(c) ==
    /\ At(c, "apply")
    /\ limit' = caller[c].n
    /\ above' = (above \/ caller[c].n < limit)
    /\ Go(c, AtRest)
    /\ UNCHANGED <<rows, stored, clock, twins, robbed>>

\* The process dies with its requests and starts with the limit of the setting.
Restart ==
    /\ caller' = [c \in Adders |-> AtRest]
    /\ limit' = stored
    /\ above' = TRUE
    /\ UNCHANGED <<rows, stored, clock, twins, robbed>>

MemoryNext ==
    \/ \E c \in Adders :
        \/ \E t \in Texts : Add(c, t)
        \/ Extract(c) \/ FactKnown(c) \/ FactNew(c)
        \/ Find(c) \/ Touch(c) \/ Insert(c)
        \/ Count(c) \/ Pick(c) \/ Delete(c)
        \/ Forget(c) \/ Search(c) \/ Track(c)
        \/ ReadSettings(c) \/ SaveSettings(c) \/ ApplySettings(c)
    \/ Restart

MemorySpec == MemoryInit /\ [][MemoryNext]_memoryVars

-----------------------------------------------------------------------------
\* Every variable stays within its type, and no two rows share an id.
MemoryTypeOK ==
    /\ \A r \in rows : r.id \in 1 .. AddsMax /\ r.text \in Texts /\ r.at \in 1 .. AddsMax
    /\ \A r, q \in rows : r.id = q.id => r = q
    /\ limit \in Limits /\ stored \in Limits /\ clock \in 0 .. AddsMax
    /\ \A c \in Adders : caller[c].pc \in {"idle", "similar", "find", "touch", "insert", "count",
                                            "pick", "delete", "track", "save", "apply"}
    /\ twins \subseteq Texts /\ above \in BOOLEAN /\ robbed \in BOOLEAN

Pruning == \E c \in Adders : caller[c].pc \in {"count", "pick", "delete"}

\* However requests to add run into each other, the table is within the limit once
\* the last of them is through, unless the limit was lowered or a request died after
\* its insert; a request alone in the table takes no more than is over the limit; and
\* a content is there twice only if two requests added it at once.
MemoryKept ==
    /\ Pruning \/ above \/ Cardinality(rows) <= limit
    /\ ~robbed
    /\ \A r, q \in rows : r.text = q.text => r = q \/ r.text \in twins
=============================================================================
