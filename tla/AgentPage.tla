------------------------------ MODULE AgentPage ------------------------------
(***************************************************************************)
(* The page on which one talks with an agent (AgentChat.tsx,               *)
(* AgentChat/chatStream.ts) against the routes of the server               *)
(* (api/agents.ts): a message is sent and answered over one stream, what   *)
(* is stored comes over another one, and lists of messages are fetched,    *)
(* while the reader moves between sessions.                                *)
(*                                                                         *)
(* One message is sent at a time.  Opening a session makes the events of   *)
(* the stream before it stale, but neither lists nor answers are asked     *)
(* for which session they are.  Texts, titles and tokens are left out.     *)
(***************************************************************************)
EXTENDS Naturals, Sequences, FiniteSets, SequencesExt

CONSTANTS
    Talks,      \* sessions there are
    Creatable,  \* sessions that can still be created
    Fetches,    \* lists that can be under way
    MaxPosts,   \* bound: messages the server takes
    MaxOpens    \* bound: how often the reader moves

AgentPageAssumption ==
    /\ IsFiniteSet(Talks) /\ IsFiniteSet(Creatable) /\ Talks \intersect Creatable = {}
    /\ MaxPosts \in Nat /\ MaxOpens \in Nat

NoTalk == "none"
Sides  == {"user", "agent"}

VARIABLES
    kept,      \* messages the server has stored, by session
    posts,     \* what the server was sent: the generation of each
    active,    \* activeId
    view,      \* messages
    panel,     \* the phase of the stream panel, or "none"
    gen,       \* the generation of the page
    out,       \* the message being sent: sending, sawEvent, abortRef
    link,      \* the page is subscribed to the session
    wire,      \* events on the way over the subscription
    listing,     \* lists being fetched
    odd        \* history: the view was taken from a list that was old or of another session,
               \* or missed what was stored before the subscription

pageVars == <<kept, posts, active, view, panel, gen, out, link, wire, listing, odd>>

Everywhere == Talks \union Creatable
Quietly    == [pc |-> "idle"]

AgentPageInit ==
    /\ kept   = [s \in Everywhere |-> {}]
    /\ posts  = <<>>
    /\ active = NoTalk
    /\ view   = {}
    /\ panel  = "none"
    /\ gen    = 0
    /\ out    = Quietly
    /\ link   = FALSE /\ wire = <<>>
    /\ listing  = [f \in Fetches |-> Quietly]
    /\ odd    = FALSE

Current   == out # Quietly /\ out.gen = gen
Sent      == <<kept, posts>>
Subscription == <<link, wire>>

-----------------------------------------------------------------------------
(* the server *)

\* A message is stored, and published to who is subscribed.
Store(s, side) ==
    LET m == [post |-> IF side = "user" THEN Len(posts) + 1 ELSE out.post, talk |-> s, side |-> side]
    IN  /\ kept' = [kept EXCEPT ![s] = @ \union {m}]
        /\ wire' = IF link /\ active = s THEN Append(wire, m) ELSE wire
        /\ odd'  = (odd \/ (active = s /\ ~link))

\* The request is taken: the user's message is stored, the generation begins.
Taken(how) ==
    /\ Len(posts) < MaxPosts
    /\ Store(out.talk, "user")
    /\ posts' = Append(posts, [talk |-> out.talk, gen |-> "runs", again |-> how = "plain",
                               heard |-> out.heard, left |-> ~Current])

Generates == out.post # 0 /\ posts[out.post].gen = "runs"
GenerationIs(g) == posts' = [posts EXCEPT ![out.post].gen = g]

-----------------------------------------------------------------------------
(* moving between sessions *)

\* openSession and the effect that subscribes.
Ask(f, s)  == listing' = [listing EXCEPT ![f] = [pc |-> "asked", talk |-> s]]
MoveTo(s) ==
    /\ gen < MaxOpens
    /\ gen'    = gen + 1
    /\ panel'  = "none"
    /\ active' = s
    /\ view'   = {}
    /\ link'   = FALSE /\ wire' = <<>>
    /\ odd'    = FALSE
    /\ UNCHANGED <<Sent, out>>

Open(s, f) ==
    /\ listing[f] = Quietly /\ s # active
    /\ MoveTo(s) /\ Ask(f, s)

StartNew == active # NoTalk /\ MoveTo(NoTalk) /\ UNCHANGED listing

\* createChildSession: when it has been created it is opened.
CreateChild(s, f) == s \in Creatable /\ Open(s, f)

Connected ==
    /\ active # NoTalk /\ ~link
    /\ link' = TRUE
    /\ UNCHANGED <<Sent, active, view, panel, gen, out, wire, listing, odd>>

\* An event of the subscription; a message that is shown already is not shown twice.
Event ==
    /\ wire # <<>>
    /\ view' = view \union {Head(wire)}
    /\ wire' = Tail(wire)
    /\ UNCHANGED <<Sent, active, panel, gen, out, link, listing, odd>>

\* A gap: what was on the way is lost, the list is fetched.
Gap(f) ==
    /\ link /\ wire # <<>> /\ listing[f] = Quietly
    /\ wire' = <<>>
    /\ Ask(f, active)
    /\ UNCHANGED <<Sent, active, view, panel, gen, out, link, odd>>

ListAnswered(f) ==
    /\ listing[f].pc = "asked"
    /\ listing' = [listing EXCEPT ![f] = [pc |-> "answered", talk |-> @.talk, list |-> kept[@.talk]]]
    /\ UNCHANGED <<Sent, active, view, panel, gen, out, Subscription, odd>>

\* What has come replaces the view, whichever session is shown.
ShownIs(list, s) ==
    /\ view' = list
    /\ odd'  = ~(s = active /\ kept[s] \subseteq list \union ToSet(wire))

ListComes(f) ==
    /\ listing[f].pc = "answered"
    /\ ShownIs(listing[f].list, listing[f].talk)
    /\ listing' = [listing EXCEPT ![f] = Quietly]
    /\ UNCHANGED <<Sent, active, panel, gen, out, Subscription>>

ListFails(f) ==
    /\ listing[f].pc = "asked"
    /\ listing' = [listing EXCEPT ![f] = Quietly]
    /\ odd' = (odd \/ listing[f].talk = active)
    /\ UNCHANGED <<Sent, active, view, panel, gen, out, Subscription>>

-----------------------------------------------------------------------------
(* sending *)

Outgoing(pc) == out.pc = pc
OutIs(pc)    == out' = [out EXCEPT !.pc = pc]

SendIn ==
    /\ out = Quietly /\ gen < MaxOpens
    /\ gen'   = gen + 1
    /\ panel' = "connecting"
    /\ out'   = [pc |-> IF active = NoTalk THEN "create" ELSE "post", talk |-> active, gen |-> gen + 1,
                 saw |-> FALSE, heard |-> FALSE, post |-> 0]
    /\ UNCHANGED <<Sent, active, view, Subscription, listing, odd>>

\* The session that was created becomes the active one, wherever the reader is by now.
Created(s) ==
    /\ Outgoing("create") /\ s \in Creatable /\ kept[s] = {} /\ active # s
    /\ \A f \in Fetches : listing[f] # Quietly => listing[f].talk # s
    /\ out'    = [out EXCEPT !.pc = "post", !.talk = s]
    /\ active' = s
    /\ link'   = FALSE /\ wire' = <<>>
    /\ odd'    = (view # {})
    /\ UNCHANGED <<Sent, view, panel, gen, listing>>

\* The end of send: the panel goes if the generation is still this one.
SendOver ==
    /\ panel' = IF Current THEN "none" ELSE panel
    /\ out'   = Quietly

CreateFails ==
    /\ Outgoing("create")
    /\ SendOver
    /\ UNCHANGED <<Sent, active, view, gen, Subscription, listing, odd>>

StreamTaken ==
    /\ Outgoing("post")
    /\ Taken("stream")
    /\ out' = [out EXCEPT !.pc = "streams", !.post = Len(posts) + 1]
    /\ UNCHANGED <<active, view, panel, gen, link, listing>>

\* applyChatStreamEvent, for thinking, replies and tools.
Phase(kind) ==
    CASE kind = "reply" -> "replying"
      [] OTHER          -> IF panel = "replying" THEN "replying" ELSE "thinking"

\* An event of a generation that is not the page's own any more is dropped.
StreamEvent(kind) ==
    /\ Outgoing("streams") /\ Generates
    /\ out' = [out EXCEPT !.heard = TRUE, !.saw = @ \/ Current]
    /\ panel' = IF Current THEN Phase(kind) ELSE panel
    /\ UNCHANGED <<Sent, active, view, gen, Subscription, listing, odd>>

\* sendMessage on the server: the answer is stored, then 'done' goes down the stream.
PageAnswered ==
    /\ Outgoing("streams") \/ Outgoing("plain")
    /\ Generates
    /\ Store(out.talk, "agent")
    /\ GenerationIs("ends")
    /\ UNCHANGED <<active, view, panel, gen, out, link, listing>>

AnswerOf == [post |-> out.post, talk |-> out.talk, side |-> "agent"]

\* Slip: the event is shown whatever generation it is of.
DoneAnyway ==
    /\ Outgoing("streams") /\ posts[out.post].gen = "ends"
    /\ view' = view \union {AnswerOf}
    /\ panel' = "done" /\ OutIs("closes")
    /\ UNCHANGED <<Sent, active, gen, Subscription, listing, odd>>

Done ==
    /\ Outgoing("streams") /\ posts[out.post].gen = "ends"
    /\ view'  = IF Current THEN view \union {AnswerOf} ELSE view
    /\ panel' = IF Current THEN "done" ELSE panel
    /\ out'   = [out EXCEPT !.pc = "closes", !.heard = TRUE, !.saw = @ \/ Current]
    /\ UNCHANGED <<Sent, active, gen, Subscription, listing, odd>>

\* The generation fails or is cancelled: the stream says so and ends.
Failed ==
    /\ Outgoing("streams") /\ Generates
    /\ GenerationIs("fails")
    /\ panel' = IF Current THEN "error" ELSE panel
    /\ out'   = [out EXCEPT !.pc = "closes", !.heard = TRUE, !.saw = @ \/ Current]
    /\ UNCHANGED <<kept, active, view, gen, Subscription, listing, odd>>

StreamCloses ==
    /\ Outgoing("closes")
    /\ SendOver
    /\ UNCHANGED <<Sent, active, view, gen, Subscription, listing, odd>>

\* The connection is gone: the server cancels what still runs.
Cancelled == IF Generates THEN GenerationIs("fails") ELSE UNCHANGED posts

\* The request is refused, or the connection breaks, before or after it was taken.
\* After an event the list is fetched, else the message is sent the old way.
PageStreamBreaks ==
    /\ out.pc \in {"post", "streams"}
    /\ Cancelled
    /\ OutIs(IF out.saw THEN "list" ELSE "again")
    /\ UNCHANGED <<kept, active, view, panel, gen, Subscription, listing, odd>>

ListShown ==
    /\ Outgoing("list")
    /\ ShownIs(kept[out.talk], out.talk)
    /\ SendOver
    /\ UNCHANGED <<Sent, active, gen, Subscription, listing>>

PlainTaken ==
    /\ Outgoing("again")
    /\ Taken("plain")
    /\ out' = [out EXCEPT !.pc = "plain", !.post = Len(posts) + 1]
    /\ UNCHANGED <<active, view, panel, gen, link, listing>>

\* The answer is shown, whichever session is.
PlainShown ==
    /\ Outgoing("plain") /\ posts[out.post].gen = "ends"
    /\ view' = view \union {AnswerOf}
    /\ odd'  = (odd \/ active # out.talk)
    /\ SendOver
    /\ UNCHANGED <<Sent, active, gen, Subscription, listing>>

PlainFails ==
    /\ out.pc \in {"again", "plain"}
    /\ Cancelled
    /\ SendOver
    /\ UNCHANGED <<kept, active, view, gen, Subscription, listing, odd>>

\* The button: the request is given up, the server sees the connection close.
Stop ==
    /\ out.pc \in {"post", "streams"}
    /\ Cancelled
    /\ SendOver
    /\ UNCHANGED <<kept, active, view, gen, Subscription, listing, odd>>

AgentPageNext ==
    \/ \E s \in Talks, f \in Fetches : Open(s, f)
    \/ \E s \in Creatable, f \in Fetches : CreateChild(s, f)
    \/ \E s \in Creatable : Created(s)
    \/ \E f \in Fetches : Gap(f) \/ ListAnswered(f) \/ ListComes(f) \/ ListFails(f)
    \/ \E kind \in {"thinking", "reply"} : StreamEvent(kind)
    \/ StartNew \/ Connected \/ Event \/ SendIn \/ CreateFails \/ StreamTaken \/ PageAnswered \/ Done
    \/ Failed \/ StreamCloses \/ PageStreamBreaks \/ ListShown \/ PlainTaken \/ PlainShown \/ PlainFails
    \/ Stop

AgentPageSpec == AgentPageInit /\ [][AgentPageNext]_pageVars

-----------------------------------------------------------------------------
\* What a variable may hold.
AgentPageTypeOK ==
    /\ active \in Everywhere \union {NoTalk} /\ gen \in 0 .. MaxOpens /\ Len(posts) <= MaxPosts
    /\ panel \in {"none", "connecting", "thinking", "replying", "done", "error"}
    /\ \A s \in Everywhere : \A m \in kept[s] : m.talk = s /\ m.side \in Sides
    /\ {link, odd} \subseteq BOOLEAN

FetchesRest == \A f \in Fetches : listing[f] = Quietly

\* What is shown belongs to the session that is open, unless an older list or answer
\* came late, and when nothing is on the way it is all that was stored.  A message is
\* sent a second time only if no event of the first had come, or the reader had left
\* the session meanwhile and the events were dropped.  The panel shows what is being
\* sent from here, and when it says done the answer is shown or about to be.
\* (openSession, reloadMessages, send, streamSessionMessage, applyChatStreamEvent)
PageAgrees ==
    /\ ~odd => \A m \in view : m.talk = active
    /\ ~odd /\ link /\ wire = <<>> /\ FetchesRest => kept[active] \subseteq view
    /\ \A p \in 1 .. Len(posts) : posts[p].again => ~posts[p].heard \/ posts[p].left
    /\ panel # "none" => Current
    /\ panel = "done" /\ ~odd /\ FetchesRest => AnswerOf \in view \union ToSet(wire)

=============================================================================
