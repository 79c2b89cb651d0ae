------------------------------- MODULE Session -------------------------------
(***************************************************************************)
(* One conversation: the session manager (src/kernel/agents/session.ts),   *)
(* its store and the loop of chats and tools that answers a message        *)
(* (runner.ts).  A step is a method up to its next await; requests,        *)
(* cancellations and the deletion of the session fall between the steps.   *)
(***************************************************************************)
EXTENDS Integers, SequencesExt, FiniteSetsExt

CONSTANTS
    Turns,       \* calls of sendMessage
    Window,      \* CONTEXT_MESSAGE_LIMIT: messages read back for the prompt
    MaxRounds,   \* maxIterations
    MaxEmpty,    \* empty rounds in a row before the loop gives up
    MaxCalls     \* bound: tool calls of a round

NoTurn == "none"

ASSUME SessionAssumption ==
    /\ IsFiniteSet(Turns) /\ NoTurn \notin Turns
    /\ Window \in Nat \ {0} /\ MaxRounds \in Nat \ {0}
    /\ MaxEmpty \in Nat \ {0} /\ MaxCalls \in Nat

VARIABLES
    present,     \* the row of the session
    log,         \* agent_messages of the session, by created_at
    turn,        \* where each request is
    generating,  \* #generating: the request that holds the session
    aborted,     \* requests whose AbortController has fired
    loop,        \* the agent loop of that request
    prior,       \* what each request put before its message in the prompt, by place in its window
    (* history *)
    torn,        \* requests under way when the session was deleted
    late         \* cancelled after the loop had looked for the last time

sessionVars == <<present, log, turn, generating, aborted, loop, prior, torn, late>>

NoLoop == [rounds |-> 0, empties |-> 0, calls |-> 0, closing |-> FALSE, msgs |-> <<>>]

Message(o, kind, n) == [turn |-> o, kind |-> kind, calls |-> n]

SessionInit ==
    /\ present = TRUE
    /\ log        = <<>>
    /\ turn       = [o \in Turns |-> "new"]
    /\ generating = NoTurn
    /\ aborted    = {}
    /\ loop       = NoLoop
    /\ prior      = [o \in Turns |-> <<>>]
    /\ torn       = {}
    /\ late       = {}

TurnGo(o, pc) == turn' = [turn EXCEPT ![o] = pc]

\* The finally of sendMessage.
TurnEnds(o, how) ==
    /\ TurnGo(o, how)
    /\ generating' = NoTurn
    /\ loop' = NoLoop

-----------------------------------------------------------------------------
(* sendMessage: the message and the prompt *)

\* Slip: a session that is already answering takes a second message.
SendUnguarded(o) ==
    /\ turn[o] = "new"
    /\ TurnGo(o, "checking") /\ generating' = o
    /\ UNCHANGED <<present, log, aborted, loop, prior, torn, late>>

\* The check and the entry are one step: no await between them.
Send(o) ==
    /\ turn[o] = "new"
    /\ IF generating # NoTurn THEN TurnGo(o, "refused") /\ UNCHANGED generating
                              ELSE TurnGo(o, "checking") /\ generating' = o
    /\ UNCHANGED <<present, log, aborted, loop, prior, torn, late>>

\* #assertSession, and a message that is empty once trimmed.
SessionChecked(o) ==
    /\ turn[o] = "checking"
    /\ \/ ~present /\ TurnEnds(o, "missing")
       \/ present /\ TurnEnds(o, "refused")
       \/ present /\ TurnGo(o, "adding") /\ UNCHANGED <<generating, loop>>
    /\ UNCHANGED <<present, log, aborted, prior, torn, late>>

\* The store does not look whether the session is still there.
AddMessage(o, msg) == log' = Append(log, msg)

AddUser(o) ==
    /\ turn[o] = "adding"
    /\ AddMessage(o, Message(o, "user", 0))
    /\ TurnGo(o, "reading")
    /\ UNCHANGED <<present, generating, aborted, loop, prior, torn, late>>

Newest(n, s) == SubSeq(s, Max({1, Len(s) - n + 1}), Len(s))

\* historyToText: what tools returned is left out, the rest keeps its order.
Shown(s) == Restrict(s, {i \in DOMAIN s : s[i].kind # "result"})

\* getMessages, and slice(0, -1) for the message that was just added.  Results
\* count in the window, though they are not shown.
ReadHistory(o) ==
    /\ turn[o] = "reading"
    /\ prior' = [prior EXCEPT ![o] = IF log = <<>> THEN <<>> ELSE Shown(Front(Newest(Window, log)))]
    /\ TurnGo(o, "loop")
    /\ UNCHANGED <<present, log, generating, aborted, loop, torn, late>>

-----------------------------------------------------------------------------
(* runAgentLoop *)

LoopIs(l) == loop' = l /\ UNCHANGED <<present, log, generating, aborted, prior, torn>>

\* Slip: one round too many.
ExhaustedLate(l) == l.rounds > MaxRounds

Exhausted(l) == l.rounds >= MaxRounds

\* chatOnce looks at the signal and calls the model.
ChatBegins(o) ==
    /\ turn[o] = "loop" /\ loop.calls = 0 /\ o \notin aborted
    /\ TurnGo(o, "chat")
    /\ LoopIs(loop) /\ UNCHANGED late

\* The model wants tools: unless the tokens are used up, they are run.
WantsTools(o, n) ==
    /\ turn[o] = "chat" /\ ~loop.closing
    /\ TurnGo(o, "loop")
    /\ LET l == [loop EXCEPT !.rounds = @ + 1, !.empties = 0]
       IN  \/ LoopIs([l EXCEPT !.closing = TRUE])
           \/ LoopIs([l EXCEPT !.calls = n, !.msgs = Append(@, Message(o, "calls", n))])
    /\ UNCHANGED late

\* Nothing came: ask again, until that has happened too often.
NothingCame(o) ==
    /\ turn[o] = "chat" /\ ~loop.closing
    /\ TurnGo(o, "loop")
    /\ LET l == [loop EXCEPT !.rounds = @ + 1, !.empties = @ + 1]
       IN  LoopIs([l EXCEPT !.closing = l.empties >= MaxEmpty \/ Exhausted(l)])
    /\ UNCHANGED late

\* A text, a thought without a text, or whatever the closing chat returns.
\* An abort that arrives after the last event is not seen.
Answers(o) ==
    /\ turn[o] = "chat"
    /\ TurnGo(o, "saving")
    /\ LoopIs([loop EXCEPT !.rounds = @ + 1, !.closing = FALSE])
    /\ late' = IF o \in aborted THEN late \union {o} ELSE late

ChatFails(o) ==
    /\ turn[o] = "chat"
    /\ TurnEnds(o, "failed")
    /\ UNCHANGED <<present, log, aborted, prior, torn, late>>

\* One tool of the round; its error is a result like any other.
RunTool(o) ==
    /\ turn[o] = "loop" /\ loop.calls > 0 /\ o \notin aborted
    /\ LET l == [loop EXCEPT !.calls = @ - 1, !.msgs = Append(@, Message(o, "result", 0))]
       IN  LoopIs([l EXCEPT !.closing = l.calls = 0 /\ Exhausted(l)])
    /\ UNCHANGED <<turn, late>>

\* throwIfAborted, before a chat, at one of its events or before a tool.
AbortSeen(o) ==
    /\ turn[o] \in {"loop", "chat"} /\ o \in aborted
    /\ TurnEnds(o, "cancelled")
    /\ UNCHANGED <<present, log, aborted, prior, torn, late>>

-----------------------------------------------------------------------------
(* what was said is kept *)

\* #persistTrajectory: one message at a time.
Persist(o) ==
    /\ turn[o] = "saving" /\ loop.msgs # <<>>
    /\ AddMessage(o, Head(loop.msgs))
    /\ loop' = [loop EXCEPT !.msgs = Tail(@)]
    /\ UNCHANGED <<present, turn, generating, aborted, prior, torn, late>>

\* The reply comes last.
Reply(o) ==
    /\ turn[o] = "saving" /\ loop.msgs = <<>>
    /\ AddMessage(o, Message(o, "reply", 0))
    /\ TurnEnds(o, "done")
    /\ UNCHANGED <<present, aborted, prior, torn, late>>

PersistFails(o) ==
    /\ turn[o] = "saving"
    /\ TurnEnds(o, "failed")
    /\ UNCHANGED <<present, log, aborted, prior, torn, late>>

-----------------------------------------------------------------------------
(* the other requests *)

\* cancelGeneration, by its route or by the end of a stream's connection.
CancelGeneration ==
    /\ generating # NoTurn
    /\ aborted' = aborted \union {generating}
    /\ late' = IF turn[generating] = "saving" THEN late \union {generating} ELSE late
    /\ UNCHANGED <<present, log, turn, generating, loop, prior, torn>>

\* One transaction; nobody asks whether a message is being answered.
DeleteSession ==
    /\ present
    /\ present' = FALSE
    /\ log'  = <<>>
    /\ torn' = IF generating = NoTurn THEN {} ELSE {generating}
    /\ UNCHANGED <<turn, generating, aborted, loop, prior, late>>

SessionNext ==
    \/ \E o \in Turns :
          \/ Send(o) \/ SessionChecked(o) \/ AddUser(o) \/ ReadHistory(o)
          \/ ChatBegins(o) \/ NothingCame(o) \/ Answers(o) \/ ChatFails(o)
          \/ \E n \in 1..MaxCalls : WantsTools(o, n)
          \/ RunTool(o) \/ AbortSeen(o) \/ Persist(o) \/ Reply(o) \/ PersistFails(o)
    \/ CancelGeneration
    \/ DeleteSession

SessionSpec == SessionInit /\ [][SessionNext]_sessionVars

-----------------------------------------------------------------------------
InTurn == {"checking", "adding", "reading", "loop", "chat", "saving"}

Messages == [turn : Turns, kind : {"user", "calls", "result", "reply"}, calls : 0..MaxCalls]
Prompts  == UNION {[places -> {m \in Messages : m.kind # "result"}] : places \in SUBSET (1 .. Window - 1)}

\* What a variable may hold; no loop goes beyond its rounds and the closing one,
\* and no result of a tool gets into a later prompt.
SessionTypeOK ==
    /\ present \in BOOLEAN /\ log \in Seq(Messages)
    /\ turn \in [Turns -> InTurn \union {"new", "refused", "missing", "cancelled", "failed", "done"}]
    /\ generating \in Turns \union {NoTurn}
    /\ {aborted, torn, late} \subseteq SUBSET Turns
    /\ loop.rounds <= MaxRounds + 1 /\ loop.empties <= MaxEmpty
    /\ loop.calls \in 0..MaxCalls /\ loop.closing \in BOOLEAN /\ loop.msgs \in Seq(Messages)
    /\ prior \in [Turns -> Prompts]

Silent(o)      == \A i \in DOMAIN log : log[i].turn # o
Piece(o, a, b) == a <= b /\ \A i \in DOMAIN log : log[i].turn = o <=> i \in a .. b

\* Each round of calls is followed by as many results, before the next or the reply.
Paired(a, b) ==
    \A i \in a .. b : log[i].kind = "calls" =>
        /\ i + log[i].calls < b
        /\ \A j \in 1 .. log[i].calls : log[i + j].kind = "result"
        /\ log[i + log[i].calls + 1].kind \in {"calls", "reply"}

\* A turn that has ended well is in the log as one uninterrupted piece, from the
\* user's message over every call and its results to the reply; one that was
\* cancelled has left its user message alone; one that was turned away nothing.
\* What the model was shown before a message is what was said and called in the
\* window of the log that ends there, all of it and in order, and no result of a
\* tool.  A request is cancelled when the caller was told so, unless its
\* loop had ended; and messages of a session that is gone are those of the one
\* request that was under way.  (sendMessage, historyToText, runAgentLoop, #persistTrajectory)
TranscriptWhole ==
    /\ \A o \in Turns : (generating = o) = (turn[o] \in InTurn)
    /\ \A o \in Turns \ torn :
        /\ turn[o] \in {"refused", "missing"} => Silent(o)
        /\ present /\ Silent(o) => turn[o] \notin {"done", "cancelled"}
        /\ present /\ ~Silent(o) =>
             \E a, b \in DOMAIN log :
                /\ Piece(o, a, b) /\ log[a].kind = "user"
                /\ turn[o] = "done" => log[b].kind = "reply" /\ Paired(a, b)
                /\ turn[o] = "cancelled" => a = b
                /\ turn[o] # "reading" => prior[o] = Shown(Newest(Window - 1, SubSeq(log, 1, a - 1)))
    /\ \A o \in aborted : turn[o] = "done" => o \in late
    /\ ~present => \A i \in DOMAIN log : log[i].turn \in torn

=============================================================================
