------------------------------ MODULE ChatRoom ------------------------------
(***************************************************************************)
(* A channel of the chat as one browser sees it: the service that stores   *)
(* and publishes messages (src/kernel/chat), the stream of events, and the *)
(* hook useChatMessages of the console, which shows pages of the table,    *)
(* events and its own messages that are still on their way.  Requests,     *)
(* answers and events pass each other.  Id i is row i of the table.        *)
(***************************************************************************)
EXTENDS Integers, SequencesExt, FiniteSetsExt

CONSTANTS
    Rooms,       \* channels
    Mine,        \* messages that this browser sends
    Theirs,      \* messages of others
    PageSize,    \* PAGE_SIZE
    MaxMillis,   \* bound: time stamps
    MaxSwitches, \* bound: changes of the channel
    MaxFaults    \* bound: breaks of the stream and requests that fail

Posts == Mine \union Theirs

ChatAssumption ==
    /\ IsFiniteSet(Rooms) /\ Rooms # {} /\ IsFiniteSet(Posts) /\ Mine \intersect Theirs = {}
    /\ PageSize \in Nat \ {0} /\ MaxMillis \in Nat /\ MaxSwitches \in Nat /\ MaxFaults \in Nat

VARIABLES
    posted,     \* chat_messages, in the order of insertion
    post,       \* sendMessage, and the answer that the browser waits for
    millis,     \* Date.now()
    room,       \* the channel that is open
    shown,      \* what is on the screen: rows of the table ...
    pending,    \* ... and messages that are not confirmed
    oldest,     \* reachedOldestRef
    fetch,      \* the requests for pages: the first one, older ones, the latest
    feed,       \* the stream of events of the channel
    switches, faults,
    (* history *)
    excused     \* rows that slipped through one of the gaps named below

chatVars ==
    <<posted, post, millis, room, shown, pending, oldest, fetch, feed, switches, faults, excused>>

NoFetch   == [pc |-> "none"]
\* hole: what the stream owned up to have lost.
NewFeed   == [up |-> FALSE, cursor |-> FALSE, queue |-> <<>>, missed |-> <<>>, hole |-> {}]
FirstPage(r) == [first |-> [pc |-> "asked", room |-> r], older |-> NoFetch, latest |-> NoFetch]

ChatInit ==
    /\ posted   = <<>>
    /\ post     = [p \in Posts |-> [pc |-> "new"]]
    /\ millis   = 1
    /\ room     \in Rooms
    /\ shown    = {}
    /\ pending  = {}
    /\ oldest   = FALSE
    /\ fetch    = FirstPage(room)
    /\ feed     = NewFeed
    /\ switches = 0
    /\ faults   = 0
    /\ excused  = {}

serverVars == <<posted, post, millis>>
screenVars == <<room, shown, pending, oldest, fetch>>
boundVars  == <<switches, faults>>

PostGo(p, rec) == post' = [post EXCEPT ![p] = rec]

InRoom(r) == {i \in DOMAIN posted : posted[i].room = r}
LostFrames == 0  \* replay-gap in the stream

-----------------------------------------------------------------------------
(* sendMessage *)

\* The draft is stamped before the hook sees it.  The browser shows its own at once.
SendChat(p, r) ==
    /\ post[p].pc = "new" /\ (p \in Mine => r = room)
    /\ PostGo(p, [pc |-> "hook", room |-> r, at |-> millis])
    /\ pending' = IF p \in Mine THEN pending \union {p} ELSE pending
    /\ UNCHANGED <<posted, millis, room, shown, oldest, fetch, feed, boundVars, excused>>

\* chat.beforeSend stops it, or it is stored.
ChatBlocked(p) ==
    /\ post[p].pc = "hook"
    /\ PostGo(p, [pc |-> "blocked"])
    /\ UNCHANGED <<posted, millis, screenVars, feed, boundVars, excused>>

InsertMessage(p) ==
    /\ post[p].pc = "hook"
    /\ posted' = Append(posted, [room |-> post[p].room, at |-> post[p].at, post |-> p])
    /\ PostGo(p, [post[p] EXCEPT !.pc = "publish"] @@ [row |-> Len(posted) + 1])
    /\ UNCHANGED <<millis, screenVars, feed, boundVars, excused>>

\* The stream takes it, keeps it for a cursor, or was never told of the channel.
PublishMessage(p) ==
    /\ post[p].pc = "publish"
    /\ PostGo(p, [post[p] EXCEPT !.pc = "answer"])
    /\ LET i == post[p].row
           mine == post[p].room = room
       IN  /\ feed' = IF ~mine THEN feed
                      ELSE IF feed.up THEN [feed EXCEPT !.queue = Append(@, i)]
                      ELSE IF feed.cursor THEN [feed EXCEPT !.missed = Append(@, i)]
                      ELSE feed
           /\ excused' = IF mine /\ ~feed.up /\ ~feed.cursor THEN excused \union {i} ELSE excused
    /\ UNCHANGED <<posted, millis, screenVars, boundVars>>

\* The answer takes the place of the pending message, in whatever channel is open.
PostAnswered(p) ==
    /\ p \in Mine /\ post[p].pc \in {"blocked", "answer"}
    /\ PostGo(p, [pc |-> "over"])
    /\ pending' = pending \ {p}
    /\ shown'   = IF post[p].pc = "blocked" THEN shown ELSE shown \union {post[p].row}
    /\ UNCHANGED <<posted, millis, room, oldest, fetch, feed, boundVars, excused>>

\* The answer does not come; what was sent may have been stored.
PostLost(p) ==
    /\ p \in Mine /\ post[p].pc \in {"blocked", "answer"} /\ faults < MaxFaults
    /\ PostGo(p, [pc |-> "over"])
    /\ pending' = pending \ {p}
    /\ faults'  = faults + 1
    /\ UNCHANGED <<posted, millis, room, shown, oldest, fetch, feed, switches, excused>>

MilliPasses ==
    /\ millis < MaxMillis
    /\ millis' = millis + 1
    /\ UNCHANGED <<posted, post, screenVars, feed, boundVars, excused>>

-----------------------------------------------------------------------------
(* the stream *)

FeedOpens ==
    /\ ~feed.up /\ ~feed.cursor
    /\ feed' = [feed EXCEPT !.up = TRUE]
    /\ UNCHANGED <<serverVars, screenVars, boundVars, excused>>

FeedBreaks ==
    /\ feed.up /\ faults < MaxFaults
    /\ feed'    = [feed EXCEPT !.up = FALSE, !.queue = <<>>,
                               !.missed = IF feed.cursor THEN feed.queue ELSE <<>>]
    /\ excused' = IF feed.cursor THEN excused ELSE excused \union (ToSet(feed.queue) \ {LostFrames})
    /\ faults'  = faults + 1
    /\ UNCHANGED <<serverVars, screenVars, switches>>

\* With a cursor: what was missed, or word that it is no longer known.
FeedReopens ==
    /\ ~feed.up /\ feed.cursor
    /\ LET lost == ToSet(feed.missed) \ {LostFrames}
           back == [feed EXCEPT !.up = TRUE, !.missed = <<>>]
       IN  \/ LostFrames \notin ToSet(feed.missed) /\ feed' = [back EXCEPT !.queue = feed.missed]
          \/ feed' = [back EXCEPT !.queue = <<LostFrames>>, !.hole = @ \union lost]
    /\ UNCHANGED <<serverVars, screenVars, boundVars, excused>>

Received == [feed EXCEPT !.queue = Tail(@), !.cursor = TRUE]

\* Slip: the message that was on its way stays beside the one that has arrived.
IncomingBeside ==
    /\ feed.up /\ feed.queue # <<>> /\ Head(feed.queue) # LostFrames
    /\ shown'   = shown \union {Head(feed.queue)}
    /\ feed'    = Received
    /\ UNCHANGED <<serverVars, room, pending, oldest, fetch, boundVars, excused>>

\* applyIncoming
Incoming ==
    /\ feed.up /\ feed.queue # <<>> /\ Head(feed.queue) # LostFrames
    /\ shown'   = shown \union {Head(feed.queue)}
    /\ pending' = pending \ {posted[Head(feed.queue)].post}
    /\ feed'    = Received
    /\ UNCHANGED <<serverVars, room, oldest, fetch, boundVars, excused>>

\* replay-gap: ask for the latest page.
Reconcile ==
    /\ feed.up /\ feed.queue # <<>> /\ Head(feed.queue) = LostFrames
    /\ fetch.latest = NoFetch
    /\ fetch' = [fetch EXCEPT !.latest = [pc |-> "asked", room |-> room]]
    /\ feed'  = Received
    /\ UNCHANGED <<serverVars, room, shown, pending, oldest, boundVars, excused>>

-----------------------------------------------------------------------------
(* pages *)

Later(i, j) == posted[i].at > posted[j].at \/ (posted[i].at = posted[j].at /\ i > j)

\* The latest PageSize of them: listMessages.
Page(ids) == {i \in ids : Cardinality({j \in ids : Later(j, i)}) < PageSize}

\* loadMore, from the oldest message on the screen.
LoadMore ==
    /\ fetch.older = NoFetch /\ ~oldest /\ shown # {}
    /\ fetch' = [fetch EXCEPT !.older = [pc |-> "asked", room |-> room,
                                         before |-> Min({posted[i].at : i \in shown})]]
    /\ UNCHANGED <<serverVars, room, shown, pending, oldest, feed, boundVars, excused>>

\* The server reads the table.
FetchServed(k) ==
    /\ fetch[k].pc = "asked"
    /\ LET ids == IF k # "older" THEN InRoom(fetch[k].room)
                  ELSE {i \in InRoom(fetch[k].room) : posted[i].at < fetch[k].before}
       IN  fetch' = [fetch EXCEPT ![k] = [@ EXCEPT !.pc = "served"] @@ [page |-> Page(ids)]]
    /\ UNCHANGED <<serverVars, room, shown, pending, oldest, feed, boundVars, excused>>

\* The first page takes the place of everything on the screen.
FirstArrives ==
    /\ fetch.first.pc = "served"
    /\ shown'   = fetch.first.page
    /\ pending' = {}
    /\ oldest'  = (Cardinality(fetch.first.page) < PageSize)
    /\ fetch'   = [fetch EXCEPT !.first = NoFetch]
    /\ excused' = excused \union ((shown \intersect InRoom(room)) \ fetch.first.page)
    /\ UNCHANGED <<serverVars, room, feed, boundVars>>

\* mergePage: nothing that is pending stays.  The channel is not looked at again.
OlderArrives ==
    /\ fetch.older.pc = "served"
    /\ shown'   = shown \union fetch.older.page
    /\ pending' = {}
    /\ oldest'  = (oldest \/ Cardinality(fetch.older.page) < PageSize)
    /\ fetch'   = [fetch EXCEPT !.older = NoFetch]
    /\ excused' = excused \union {i \in InRoom(room) \ shown' :
                      \/ posted[i].at = fetch.older.before
                      \/ fetch.older.room # room \/ ~(shown \subseteq InRoom(room))}
    /\ UNCHANGED <<serverVars, room, feed, boundVars>>

\* What was missed and is not on the latest page stays away.
LatestArrives ==
    /\ fetch.latest.pc = "served"
    /\ shown'   = shown \union fetch.latest.page
    /\ pending' = {}
    /\ fetch'   = [fetch EXCEPT !.latest = NoFetch]
    /\ IF fetch.latest.room = room
       THEN /\ feed'    = [feed EXCEPT !.hole = {}]
            /\ excused' = excused \union (feed.hole \ fetch.latest.page)
       ELSE UNCHANGED <<feed, excused>>
    /\ UNCHANGED <<serverVars, room, oldest, boundVars>>

\* The first page that fails leaves an empty screen and an error.
FetchFails(k) ==
    /\ fetch[k].pc \in {"asked", "served"} /\ faults < MaxFaults
    /\ faults'  = faults + 1
    /\ fetch'   = [fetch EXCEPT ![k] = NoFetch]
    /\ shown'   = IF k = "first" THEN {} ELSE shown
    /\ pending' = IF k = "first" THEN {} ELSE pending
    /\ excused' = excused \union CASE k = "first"  -> InRoom(room)
                                  [] k = "latest" -> feed.hole
                                  [] OTHER        -> {}
    /\ UNCHANGED <<serverVars, room, oldest, feed, switches>>

\* Another channel: a new stream and a first page; the screen stays until it
\* comes, and a request for other pages is not called back.
SwitchRoom(r) ==
    /\ r # room /\ switches < MaxSwitches
    /\ switches' = switches + 1
    /\ room'     = r
    /\ fetch'    = [fetch EXCEPT !.first = [pc |-> "asked", room |-> r]]
    /\ feed'     = NewFeed
    /\ oldest'   = FALSE
    /\ excused'  = {}
    /\ UNCHANGED <<serverVars, shown, pending, faults>>

ChatNext ==
    \/ \E p \in Posts :
          \/ \E r \in Rooms : SendChat(p, r)
          \/ ChatBlocked(p) \/ InsertMessage(p) \/ PublishMessage(p)
          \/ PostAnswered(p) \/ PostLost(p)
    \/ MilliPasses
    \/ FeedOpens \/ FeedBreaks \/ FeedReopens \/ Incoming \/ Reconcile
    \/ LoadMore \/ FirstArrives \/ OlderArrives \/ LatestArrives
    \/ \E k \in DOMAIN fetch : FetchServed(k) \/ FetchFails(k)
    \/ \E r \in Rooms : SwitchRoom(r)

ChatSpec == ChatInit /\ [][ChatNext]_chatVars

-----------------------------------------------------------------------------
ChatTypeOK ==
    /\ millis \in 1 .. MaxMillis /\ room \in Rooms /\ oldest \in BOOLEAN
    /\ shown \subseteq DOMAIN posted /\ pending \subseteq Mine /\ excused \subseteq DOMAIN posted
    /\ \A i \in DOMAIN posted : posted[i].room \in Rooms /\ posted[i].post \in Posts
    /\ switches \in 0 .. MaxSwitches /\ faults \in 0 .. MaxFaults

AllAnswered ==
    /\ \A k \in DOMAIN fetch : fetch[k] = NoFetch
    /\ feed.up /\ feed.queue = <<>>
    /\ \A p \in Posts : post[p].pc \notin {"hook", "publish", "answer"}

\* With every request answered and every event taken, each message of the open
\* channel that is later than the oldest one on the screen is on the screen, or
\* it slipped through a gap of the hook (ledger excused: published before the
\* stream was open, covered by the first page, a tie at the cursor of a page,
\* a hole longer than a page, a request that failed, the answers of another
\* channel).  At no time is one message there twice, on its way and arrived.
ViewAgrees ==
    /\ AllAnswered =>
          LET seen == shown \intersect InRoom(room)
          IN  \A i \in InRoom(room) \ excused :
                 (oldest \/ \E j \in seen : posted[j].at < posted[i].at) => i \in shown
    /\ \A p \in pending, i \in shown : posted[i].post # p

=============================================================================
