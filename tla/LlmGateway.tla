----------------------------- MODULE LlmGateway -----------------------------
(***************************************************************************)
(* The gateway to the language models (src/kernel/llm/gateway.ts) and the  *)
(* circuit breaker that its requests share (health.ts).  Requests overlap: *)
(* what one of them learns of a provider changes the choice of the next,   *)
(* and an answer may be older than the failures that came before it.       *)
(***************************************************************************)
EXTENDS Integers, SequencesExt, FiniteSetsExt

CONSTANTS
    Provided,      \* the providers, in the order of the configuration
    ModelsOf,      \* ModelsOf[p]: the models of a provider
    Asks,          \* calls of chat
    Wanted,        \* the models that are asked for
    Threshold, BaseCooldown, MaxCooldown,
    MaxTicks       \* bound: time

ProviderNames == ToSet(Provided)

ASSUME LlmAssumption ==
    /\ IsFiniteSet(Asks)
    /\ Provided \in Seq(ProviderNames) /\ DOMAIN ModelsOf = ProviderNames
    /\ Threshold \in Nat \ {0} /\ BaseCooldown \in Nat /\ MaxCooldown \in Nat
    /\ BaseCooldown <= MaxCooldown /\ MaxTicks \in Nat \ {0}

VARIABLES
    ask,        \* the requests
    streak,     \* consecutiveFailures
    coolUntil,  \* cooldownUntil, 0 when there is none
    ticks,      \* Date.now()
    (* history *)
    outcomes    \* how the attempts at each provider ended, the latest last

llmVars == <<ask, streak, coolUntil, ticks, outcomes>>

LlmInit ==
    /\ ask       = [r \in Asks |-> [pc |-> "new"]]
    /\ streak    = [p \in ProviderNames |-> 0]
    /\ coolUntil = [p \in ProviderNames |-> 0]
    /\ ticks     = 1
    /\ outcomes  = [p \in ProviderNames |-> <<>>]

AskGo(r, rec) == ask' = [ask EXCEPT ![r] = rec]
Asked(r)      == Provided[ask[r].at]

-----------------------------------------------------------------------------
(* health *)

CoolingDown == {p \in ProviderNames : ticks < coolUntil[p]}

RecordSuccess(p) ==
    /\ streak'    = [streak EXCEPT ![p] = 0]
    /\ coolUntil' = [coolUntil EXCEPT ![p] = 0]
    /\ outcomes'  = [outcomes EXCEPT ![p] = <<>>]

\* Slip: the cooldown is twice as long each time, without an end.
FailureUncapped(p) ==
    LET n == streak[p] + 1 IN
    /\ streak'    = [streak EXCEPT ![p] = n]
    /\ coolUntil' = IF n < Threshold THEN coolUntil
                    ELSE [coolUntil EXCEPT ![p] = ticks + BaseCooldown * 2^(n - Threshold)]
    /\ outcomes'  = [outcomes EXCEPT ![p] = Append(@, ticks)]

MarkFailure(p) ==
    LET n == streak[p] + 1 IN
    /\ streak'    = [streak EXCEPT ![p] = n]
    /\ coolUntil' = IF n < Threshold THEN coolUntil
                    ELSE [coolUntil EXCEPT ![p] =
                            ticks + Min({BaseCooldown * 2^(n - Threshold), MaxCooldown})]
    /\ outcomes'  = [outcomes EXCEPT ![p] = Append(@, ticks)]

Unrecorded == UNCHANGED <<streak, coolUntil, outcomes>>

-----------------------------------------------------------------------------
(* chat *)

\* The places of the providers that may be tried: with ha those that cool down are
\* left out, unless all of them do.
Candidates(ha) ==
    LET up == {i \in DOMAIN Provided : Provided[i] \notin CoolingDown}
    IN  IF ha /\ up # {} THEN up ELSE DOMAIN Provided

\* The first provider that has the model; with ha, failing that, the first one.
Chat(r, model, ha, stream) ==
    /\ ask[r].pc = "new"
    /\ LET from  == Candidates(ha)
           hits  == {i \in from : model \in ModelsOf[Provided[i]]}
           start == Min(IF hits = {} THEN from ELSE hits)
       IN  AskGo(r, IF hits = {} /\ (~ha \/ from = {})
                      THEN [pc |-> "unknown"]
                      ELSE [pc |-> "try", from |-> from, at |-> start, ha |-> ha, stream |-> stream,
                            start |-> start, open |-> CoolingDown])
    /\ UNCHANGED ticks /\ Unrecorded

\* Slip: a failure ends the request although another provider is left.
GivesUp(r) == AskGo(r, [ask[r] EXCEPT !.pc = "failed"])

\* runFailover goes on with the next one; without ha the error is the caller's.
TryNext(r) ==
    LET behind == {i \in ask[r].from : i > ask[r].at}
    IN  AskGo(r, IF ask[r].ha /\ behind # {}
                   THEN [ask[r] EXCEPT !.at = Min(behind), !.pc = "try"]
                   ELSE [ask[r] EXCEPT !.pc = "failed"])

\* A provider of the chain has no model, or the key of this one is not there.
NotConfigured(r) ==
    /\ ask[r].pc = "try"
    /\ TryNext(r)
    /\ UNCHANGED ticks /\ Unrecorded

\* attemptChat.  A stream is handed out before anything has come through it.
AttemptChat(r) ==
    /\ ask[r].pc = "try"
    /\ ModelsOf[Asked(r)] # {}
    /\ AskGo(r, [ask[r] EXCEPT !.pc = IF ask[r].stream THEN "stream" ELSE "wait"])
    /\ UNCHANGED ticks /\ Unrecorded

Answered(r) ==
    /\ ask[r].pc \in {"wait", "stream"}
    /\ AskGo(r, [ask[r] EXCEPT !.pc = "answered"])
    /\ RecordSuccess(Asked(r))
    /\ UNCHANGED ticks

\* A provider's error counts; a refused parameter ends the request and does not.
ProviderFails(r) ==
    /\ ask[r].pc = "wait"
    /\ TryNext(r) /\ MarkFailure(Asked(r))
    /\ UNCHANGED ticks

ParamRejected(r) ==
    /\ ask[r].pc \in {"wait", "stream"}
    /\ AskGo(r, [ask[r] EXCEPT !.pc = "rejected"])
    /\ UNCHANGED ticks /\ Unrecorded

\* observeStream: an error that is thrown counts and is not made good by another
\* provider; one that comes as an event, or a reader who stops, leaves no trace.
StreamBreaks(r) ==
    /\ ask[r].pc = "stream"
    /\ AskGo(r, [ask[r] EXCEPT !.pc = "broken"])
    /\ MarkFailure(Asked(r)) \/ Unrecorded
    /\ UNCHANGED ticks

Tick ==
    /\ ticks < MaxTicks
    /\ ticks' = ticks + 1
    /\ UNCHANGED ask /\ Unrecorded

LlmNext ==
    \/ \E r \in Asks :
          \/ \E m \in Wanted, ha \in BOOLEAN, stream \in BOOLEAN : Chat(r, m, ha, stream)
          \/ NotConfigured(r) \/ AttemptChat(r)
          \/ Answered(r) \/ ProviderFails(r) \/ ParamRejected(r) \/ StreamBreaks(r)
    \/ Tick

LlmSpec == LlmInit /\ [][LlmNext]_llmVars

-----------------------------------------------------------------------------
\* What a variable may hold.
LlmTypeOK ==
    /\ \A r \in Asks : ask[r].pc \in {"new", "unknown", "try", "wait", "stream", "answered",
                                      "failed", "rejected", "broken"}
    /\ streak \in [ProviderNames -> Nat] /\ coolUntil \in [ProviderNames -> Nat]
    /\ ticks \in 1..MaxTicks /\ outcomes \in [ProviderNames -> Seq(1..MaxTicks)]

\* A provider rests exactly when it has failed Threshold times since its last
\* success, and no longer than MaxCooldown after the last of these failures,
\* however many requests failed meanwhile.  With ha no request is sent to a
\* provider that rested when the request came in, as long as another did not; and
\* it is given up only when every candidate behind the one it began with has been
\* tried, while without ha exactly one was.  (LlmGateway.chat, runFailover,
\* ProviderHealthRegistry)
BreakerHolds ==
    /\ \A p \in ProviderNames :
         LET failed == outcomes[p] IN
         /\ coolUntil[p] # 0 => Len(failed) >= Threshold
         /\ Len(failed) >= Threshold =>
              coolUntil[p] \in Last(failed) + BaseCooldown .. Last(failed) + MaxCooldown
    /\ \A r \in Asks : "from" \in DOMAIN ask[r] =>
         /\ ask[r].ha /\ ask[r].open # ProviderNames => Asked(r) \notin ask[r].open
         /\ ask[r].pc = "failed" /\ ask[r].ha => \A i \in ask[r].from : i <= ask[r].at
         /\ ~ask[r].ha => ask[r].at = ask[r].start

=============================================================================
