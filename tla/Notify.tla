------------------------------- MODULE Notify -------------------------------
(***************************************************************************)
(* The notification centre (src/kernel/notification): one notification on  *)
(* its way through hook, plan, table, and channels with their retries      *)
(* (manager.ts, retry.ts, store.ts), beside edits of the channel settings  *)
(* it falls back to, which are one JSON array read, changed and written    *)
(* back (channel-configs.ts).                                              *)
(***************************************************************************)
EXTENDS Integers, SequencesExt, FiniteSetsExt

CONSTANTS
    Channels,      \* channels, each with a driver of its own
    Driverless,       \* those whose driver is not registered
    Retries,       \* retries of each driver
    Edits          \* requests that change the channel settings

ASSUME NotifyAssumption ==
    /\ IsFiniteSet(Channels) /\ Driverless \subseteq Channels
    /\ Retries \in [Channels -> Nat]
    /\ IsFiniteSet(Edits)

VARIABLES
    notice,     \* where send() is
    inbox,      \* its notice in notifications
    plan,       \* the channels it is to go to
    queue,      \* those that are still to be served
    attempt,    \* attempts at the first of them that have failed
    recorded,   \* deliveries: how each channel ended
    configs,    \* notify.channelConfigs
    edit,       \* the edits
    (* history *)
    arrived,    \* times that the notification came out of a channel
    unsure,     \* channels that delivered and said they had not
    routed,     \* the settings as the edits ask for them, one after the other
    clashed     \* edits overlapped, or one took a failed read for no settings

notifyVars ==
    <<notice, inbox, plan, queue, attempt, recorded, configs, edit, arrived, unsure, routed, clashed>>
sendVars   == <<notice, inbox, plan, queue, attempt, recorded, arrived, unsure>>
configVars == <<configs, edit, routed, clashed>>

NotifyInit ==
    /\ notice = "new"
    /\ inbox = "none"
    /\ plan     = {}
    /\ queue    = <<>>
    /\ attempt  = 0
    /\ recorded = [c \in Channels |-> "none"]
    /\ configs  \in [Channels -> {"absent", "on"}]
    /\ edit     = [e \in Edits |-> [pc |-> "new"]]
    /\ arrived  = [c \in Channels |-> 0]
    /\ unsure   = {}
    /\ routed   = configs
    /\ clashed  = FALSE

-----------------------------------------------------------------------------
(* send *)

Goes(pc) == notice' = pc /\ UNCHANGED configVars

\* beforeSend leaves the notification, changes its text or spoils it.
BeforeSend ==
    /\ notice = "new"
    /\ \/ Goes("refused") \/ Goes("plan")
    /\ UNCHANGED <<inbox, plan, queue, attempt, recorded, arrived, unsure>>

PlanIs(p) ==
    /\ plan' = p
    /\ \E q \in SetToSeqs(p) : queue' = q
    /\ UNCHANGED <<inbox, attempt, recorded, arrived, unsure>>

\* The caller names the channels, or the routes that match the level do.
PlanNamed ==
    /\ notice = "plan"
    /\ Goes("save")
    /\ \E p \in SUBSET Channels : PlanIs(p)

\* No route matches: every channel that is on, or none if that cannot be read.
PlanFromConfigs ==
    /\ notice = "plan"
    /\ Goes("save")
    /\ PlanIs({c \in Channels : configs[c] = "on"}) \/ PlanIs({})

\* The notice comes first; notification.created tells of it.
NoticeStored ==
    /\ notice = "save"
    /\ \/ inbox' = "unread" /\ Goes("deliver")
       \/ UNCHANGED inbox /\ Goes("refused")
    /\ UNCHANGED <<plan, queue, attempt, recorded, arrived, unsure>>

\* recordDelivery, and on to the next channel.
Record(how) ==
    /\ recorded' = [recorded EXCEPT ![Head(queue)] = how]
    /\ queue'    = Tail(queue)
    /\ attempt'  = 0

SkipUnknown ==
    /\ notice = "deliver" /\ queue # <<>> /\ Head(queue) \in Driverless
    /\ Record("failed")
    /\ UNCHANGED <<notice, inbox, plan, arrived, unsure, configVars>>

Arrives == arrived' = [arrived EXCEPT ![Head(queue)] = @ + 1]

Delivered ==
    /\ notice = "deliver" /\ queue # <<>> /\ Head(queue) \notin Driverless
    /\ Arrives
    /\ Record("ok")
    /\ UNCHANGED <<notice, inbox, plan, unsure, configVars>>

\* Slip: one attempt too many.
RetryOnce(more) ==
    IF more /\ attempt <= Retries[Head(queue)]
      THEN attempt' = attempt + 1 /\ UNCHANGED <<recorded, queue>>
      ELSE Record("failed")

\* withDeliveryRetry: again after a pause, if the error is one that may pass.
Retry(more) ==
    IF more /\ attempt < Retries[Head(queue)]
      THEN attempt' = attempt + 1 /\ UNCHANGED <<recorded, queue>>
      ELSE Record("failed")

\* The driver fails before the notification is out, or after.
DeliveryFails ==
    /\ notice = "deliver" /\ queue # <<>> /\ Head(queue) \notin Driverless
    /\ \E more \in BOOLEAN : Retry(more)
    /\ \/ UNCHANGED <<arrived, unsure>>
       \/ Arrives /\ unsure' = unsure \union {Head(queue)}
    /\ UNCHANGED <<notice, inbox, plan, configVars>>

\* notification.delivered, and the caller has its answer.
AllServed ==
    /\ notice = "deliver" /\ queue = <<>>
    /\ Goes("done")
    /\ UNCHANGED <<inbox, plan, queue, attempt, recorded, arrived, unsure>>

\* The process ends; deliveries are not taken up again.
NotifyCrash ==
    /\ notice \notin {"done", "refused", "lost"}
    /\ Goes("lost")
    /\ UNCHANGED <<inbox, plan, queue, attempt, recorded, arrived, unsure>>

MarkRead ==
    /\ inbox = "unread"
    /\ inbox' = "read"
    /\ UNCHANGED <<notice, plan, queue, attempt, recorded, arrived, unsure, configVars>>

-----------------------------------------------------------------------------
(* the channel settings *)

EditGo(e, rec) == edit' = [edit EXCEPT ![e] = rec] /\ UNCHANGED sendVars

Nothing == [c \in Channels |-> "absent"]

EditReads(e, is, c, to) ==
    /\ edit[e].pc = "new"
    /\ EditGo(e, [pc |-> "read", is |-> is, on |-> c, to |-> to])
    /\ UNCHANGED <<configs, routed, clashed>>

Fresh(c) == \A f \in Edits : edit[f].pc \in {"read", "write"} => edit[f].on # c

\* create gives the channel an id of its own.
CreateChannel(e) == \E c \in Channels : configs[c] = "absent" /\ Fresh(c) /\ EditReads(e, "create", c, "on")

RemoveChannel(e) == \E c \in Channels : configs[c] # "absent" /\ EditReads(e, "change", c, "absent")

\* toggle asks for the present value first, in a read of its own.
ToggleChannel(e) ==
    \E c \in Channels :
        /\ configs[c] # "absent"
        /\ EditReads(e, "change", c, IF configs[c] = "on" THEN "off" ELSE "on")

\* readAll takes a failure for an empty array.  What is not there cannot be changed.
ReadAll(e) ==
    /\ edit[e].pc = "read"
    /\ \E all \in {configs, Nothing} :
          EditGo(e, IF all[edit[e].on] = "absent" /\ edit[e].is = "change"
                      THEN [pc |-> "over"]
                      ELSE [pc |-> "write", on |-> edit[e].on, to |-> edit[e].to,
                            all |-> all, blind |-> all # configs])
    /\ UNCHANGED <<configs, routed, clashed>>

\* The whole array is written as it was read, but for the one channel.
WriteAll(e) ==
    /\ edit[e].pc = "write"
    /\ configs' = [edit[e].all EXCEPT ![edit[e].on] = edit[e].to]
    /\ routed'  = [routed EXCEPT ![edit[e].on] = edit[e].to]
    /\ clashed' = \/ clashed \/ edit[e].blind
                  \/ \E f \in Edits \ {e} : edit[f].pc = "write"
    /\ EditGo(e, [pc |-> "over"])

NotifyNext ==
    \/ BeforeSend \/ PlanNamed \/ PlanFromConfigs \/ NoticeStored
    \/ SkipUnknown \/ Delivered \/ DeliveryFails \/ AllServed \/ NotifyCrash \/ MarkRead
    \/ \E e \in Edits :
          \/ CreateChannel(e) \/ RemoveChannel(e) \/ ToggleChannel(e)
          \/ ReadAll(e) \/ WriteAll(e)

NotifySpec == NotifyInit /\ [][NotifyNext]_notifyVars

-----------------------------------------------------------------------------
\* What a variable may hold.
NotifyTypeOK ==
    /\ notice \in {"new", "plan", "save", "deliver", "done", "refused", "lost"}
    /\ inbox \in {"none", "unread", "read"}
    /\ plan \subseteq Channels /\ queue \in Seq(plan) /\ attempt \in Nat
    /\ recorded \in [Channels -> {"none", "ok", "failed"}]
    /\ {configs, routed} \subseteq [Channels -> {"absent", "on", "off"}]
    /\ \A e \in Edits : edit[e].pc \in {"new", "read", "write", "over"}
    /\ arrived \in [Channels -> Nat] /\ unsure \subseteq Channels /\ clashed \in BOOLEAN

\* Nothing leaves the house that is not in the table.  A channel of the plan
\* gets the notification once, or as often as it said it had not delivered, and
\* never more than its retries allow; the others get nothing.  When send is over
\* each channel of the plan has one record, and the record is right, except that
\* a delivery may be recorded as failed when the channel itself said so.  The
\* channel settings are what the edits, one after the other, ask for, unless two
\* overlapped or a read failed.  (NotificationManager.send, withDeliveryRetry,
\* createChannelConfigStore)
NoticeAccounted ==
    /\ \A c \in Channels :
         /\ arrived[c] > 0 => inbox # "none" /\ c \in plan \ Driverless
         /\ arrived[c] > 1 => c \in unsure
         /\ arrived[c] <= Retries[c] + 1
         /\ recorded[c] = "ok" => arrived[c] > 0
         /\ recorded[c] = "failed" /\ arrived[c] > 0 => c \in unsure
         /\ recorded[c] = "none" /\ arrived[c] > 0 =>
               notice = "lost" \/ (queue # <<>> /\ c = Head(queue))
         /\ notice = "done" => (recorded[c] # "none") = (c \in plan)
    /\ configs = routed \/ clashed

=============================================================================
