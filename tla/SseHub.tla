------------------------------- MODULE SseHub -------------------------------
(***************************************************************************)
(* The SSE hub (src/kernel/http/sse/hub.ts): numbered events per topic, a  *)
(* ring of the latest of them for clients that come back, and the clients, *)
(* whose connections may be gone long before the hub notices.  Replay is   *)
(* on, as the kernel configures it.  A client that connects without a      *)
(* cursor for a topic, or is told of a gap, reads the state elsewhere.     *)
(***************************************************************************)
EXTENDS Naturals, FiniteSets, Functions, SequencesExt

CONSTANTS
    Topics, Clients,
    TopicsOf,         \* TopicsOf[c]: query.topics
    RingSize,         \* replayBufferPerTopic
    MaxReplayTopics,  \* MAX_REPLAY_TOPICS
    MaxPerTopic,      \* maxClientsPerTopic
    MaxSeq, MaxHalf, MaxLives  \* bounds: events of a topic, forgotten connections, processes

ASSUME HubAssumption ==
    /\ IsFiniteSet(Clients) /\ TopicsOf \in [Clients -> SUBSET Topics]
    /\ RingSize \in Nat /\ MaxReplayTopics \in Nat \ {0} /\ MaxPerTopic \in Nat
ASSUME HubBounds == MaxSeq \in Nat /\ MaxHalf \in Nat /\ MaxLives \in Nat

VARIABLES
    topicSeq,   \* #topicSeq
    ring,       \* #replayBuffers: the numbers kept for each topic
    recent,     \* the topics that have a buffer, published longest ago first
    link,       \* link[c]: "off", "auth" or "on"
    halfOpen,   \* halfOpen[c]: connections of c that the hub has not seen closing
    last,       \* last[c][t]: the number up to which client c knows everything, and of which
                \* process; the number of the latest frame it got, and from which process
    life        \* number of the process

hubVars == <<topicSeq, ring, recent, link, halfOpen, last, life>>

Unknown == [seq |-> 0, life |-> 0, cursor |-> 0, from |-> 0]

HubInit ==
    /\ topicSeq = [t \in Topics |-> 0] /\ ring = [t \in Topics |-> <<>>] /\ recent = <<>>
    /\ link = [c \in Clients |-> "off"] /\ halfOpen = [c \in Clients |-> 0]
    /\ last = [c \in Clients |-> [t \in TopicsOf[c] |-> Unknown]]
    /\ life = 1

-----------------------------------------------------------------------------
(* Publishing *)

\* #bufferEvent: topics beyond the limit lose their buffer, the one published longest ago first.
Buffer(t, seq) ==
    LET kept    == IF Contains(recent, t) THEN Remove(recent, t)
                   ELSE SubSeq(recent, Len(recent) + 2 - MaxReplayTopics, Len(recent))
        kept1   == IF Len(recent) < MaxReplayTopics /\ ~Contains(recent, t) THEN recent ELSE kept
        entries == Append(ring[t], seq)
        surplus == IF Len(entries) > RingSize THEN Len(entries) - RingSize ELSE 0
    IN  /\ recent' = Append(kept1, t)
        /\ ring' = [s \in Topics |->
                      IF s = t THEN SubSeq(entries, surplus + 1, Len(entries))
                      ELSE IF Contains(kept1, s) THEN ring[s] ELSE <<>>]

\* Client c gets frame number seq of topic t: it knows everything if it knew the one before.
Got(c, t, seq) ==
    [last[c][t] EXCEPT !.seq = IF @ = seq - 1 /\ last[c][t].life = life THEN seq ELSE @,
                       !.cursor = seq, !.from = life]

\* publish: the frame reaches the clients whose connection still stands.
Publish(t) ==
    /\ topicSeq[t] < MaxSeq
    /\ topicSeq' = [topicSeq EXCEPT ![t] = @ + 1]
    /\ Buffer(t, topicSeq'[t])
    /\ last' = [c \in Clients |->
                  IF link[c] = "on" /\ t \in TopicsOf[c]
                  THEN [last[c] EXCEPT ![t] = Got(c, t, topicSeq'[t])]
                  ELSE last[c]]
    /\ UNCHANGED <<link, halfOpen, life>>

-----------------------------------------------------------------------------
(* Clients *)

\* A client asks for the stream; the checker is awaited.
Connect(c) ==
    /\ link[c] = "off"
    /\ link' = [link EXCEPT ![c] = "auth"]
    /\ UNCHANGED <<topicSeq, ring, recent, halfOpen, last, life>>

Registered(t) ==
    SumFunctionOnSet([c \in Clients |-> IF t \notin TopicsOf[c] THEN 0
                                        ELSE halfOpen[c] + IF link[c] = "on" THEN 1 ELSE 0],
                     Clients)

\* The first number still in the ring.
OldestKept(t) == IF ring[t] = <<>> THEN topicSeq[t] + 1 ELSE ring[t][1]

\* Slip: an event that has just left the ring is not looked for.
GapOffByOne(t, cursor) == cursor > topicSeq[t] \/ cursor < OldestKept(t) - 2

\* #writeReplay finds that the cursor is ahead, or that the ring begins after it.
Gap(t, cursor) == cursor > topicSeq[t] \/ cursor + 1 < OldestKept(t)

\* What c knows of t once its cursor has been answered.  After a gap, and without
\* a cursor, it reads the state as of now; the frame that tells of a gap has no
\* number, so that the cursor stays.  Else it gets the newer events of the ring;
\* with a cursor of an earlier process it is fooled, and life becomes 0.
AfterReplay(c, t) ==
    LET was    == last[c][t]
        newer  == {seq \in ToSet(ring[t]) : seq > was.cursor}
    IN  IF was.from = 0 \/ Gap(t, was.cursor)
        THEN [was EXCEPT !.seq = topicSeq[t], !.life = life]
        ELSE IF was.from # life THEN [was EXCEPT !.life = 0]
        ELSE IF newer = {} THEN was
        ELSE [was EXCEPT !.seq = IF \E seq \in newer : seq <= @ + 1 THEN topicSeq[t] ELSE @, !.cursor = topicSeq[t]]

\* #handle after the await: limit, registration and replay in one stretch, or a refusal.
Accepted(c) ==
    /\ link[c] = "auth"
    /\ IF \E t \in TopicsOf[c] : Registered(t) >= MaxPerTopic
         THEN link' = [link EXCEPT ![c] = "off"] /\ UNCHANGED last
         ELSE /\ link' = [link EXCEPT ![c] = "on"]
              /\ last' = [last EXCEPT ![c] = [t \in TopicsOf[c] |-> AfterReplay(c, t)]]
    /\ UNCHANGED <<topicSeq, ring, recent, halfOpen, life>>

Refused(c) ==
    /\ link[c] = "auth"
    /\ link' = [link EXCEPT ![c] = "off"]
    /\ UNCHANGED <<topicSeq, ring, recent, halfOpen, last, life>>

\* The connection breaks, and the hub does not know yet.
LinkBreaks(c) ==
    /\ link[c] = "on" /\ halfOpen[c] < MaxHalf
    /\ link' = [link EXCEPT ![c] = "off"]
    /\ halfOpen' = [halfOpen EXCEPT ![c] = @ + 1]
    /\ UNCHANGED <<topicSeq, ring, recent, last, life>>

\* The close event: #detach.
Detach(c) ==
    /\ halfOpen[c] > 0
    /\ halfOpen' = [halfOpen EXCEPT ![c] = @ - 1]
    /\ UNCHANGED <<topicSeq, ring, recent, link, last, life>>

\* The process ends, with close() or without, and another one starts.
HubRestarts ==
    /\ life < MaxLives
    /\ life' = life + 1
    /\ topicSeq' = [t \in Topics |-> 0] /\ ring' = [t \in Topics |-> <<>>] /\ recent' = <<>>
    /\ link' = [c \in Clients |-> "off"] /\ halfOpen' = [c \in Clients |-> 0]
    /\ UNCHANGED last

HubNext ==
    \/ \E t \in Topics : Publish(t)
    \/ \E c \in Clients : Connect(c) \/ Accepted(c) \/ Refused(c) \/ LinkBreaks(c) \/ Detach(c)
    \/ HubRestarts

HubSpec == HubInit /\ [][HubNext]_hubVars

-----------------------------------------------------------------------------
(* Properties *)

\* Every variable keeps its type; a topic has at most its number of clients,
\* and a ring holds consecutive numbers up to the latest.
HubTypeOK ==
    /\ topicSeq \in [Topics -> 0..MaxSeq]
    /\ \A t \in Topics : /\ Registered(t) <= MaxPerTopic
                         /\ \A i \in DOMAIN ring[t] : ring[t][i] = topicSeq[t] - Len(ring[t]) + i
    /\ ToSet(recent) \subseteq Topics /\ Len(recent) <= MaxReplayTopics
    /\ link \in [Clients -> {"off", "auth", "on"}] /\ halfOpen \in [Clients -> 0..MaxHalf]
    /\ \A c \in Clients : last[c] \in [TopicsOf[c] -> [seq : 0..MaxSeq, life : 0..MaxLives,
                                                         cursor : 0..MaxSeq, from : 0..MaxLives]]
    /\ life \in 1..MaxLives

\* A connected client has seen every event of its topics up to the latest, or
\* has been told of a gap, over any number of broken connections, full rings
\* and buffers given up -- unless a cursor of an earlier process was taken for
\* one of this: numbers begin at 1 again, and events may hide behind it.
NothingMissed ==
    \A c \in Clients : \A t \in TopicsOf[c] :
        link[c] = "on" /\ last[c][t].life = life => last[c][t].seq = topicSeq[t]

=============================================================================
