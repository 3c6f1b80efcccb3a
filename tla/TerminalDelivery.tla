-------------------------- MODULE TerminalDelivery --------------------------
(***************************************************************************)
(* The last messages to the Foreground conversation: the end of executor   *)
(* actions (scheduler.py: reconcile_foreground_terminal) and the questions *)
(* and final deliveries of Planners (planner_runtime.py), brought to the   *)
(* page by the Host (playwright_host/runtime.py), which first deletes the  *)
(* conversations of a task that ended.  The Bridge's calls are commits; the*)
(* Host works on the views its polls returned, its calls can get lost and  *)
(* it can stop anywhere; what it keeps on disk survives.                   *)
(***************************************************************************)
EXTENDS Naturals, Sequences, FiniteSets

CONSTANTS
    TerminalOrder,  \* executor events, by the path of their foreground CL
    PlannerOrder,   \* events of Planners, by the path of their Task Cell
    Queries,        \* those of PlannerOrder that ask the user
    Bound,          \* role conversations the Host has bound for an ended task
    Late,           \* Workers started for it from wakes that were queued
    MaxTroubles,    \* bound: stops, lost calls, failed deletions
    MaxUserTurns    \* bound: times the user takes the page

Elements(s) == {s[i] : i \in DOMAIN s}
Terminals == Elements(TerminalOrder)
PlannerEvents == Elements(PlannerOrder)
Messages == Terminals \cup PlannerEvents
Finals == PlannerEvents \ Queries
NoMessage == "none"

ASSUME TerminalDeliveryAssumption ==
    /\ TerminalOrder \in Seq(Terminals) /\ PlannerOrder \in Seq(PlannerEvents)
    /\ Terminals \cap PlannerEvents = {} /\ Queries \subseteq PlannerEvents
    /\ Bound \cap Late = {}
    /\ NoMessage \notin Messages
    /\ MaxTroubles \in Nat /\ MaxUserTurns \in Nat

VARIABLES
    event,     \* the events on the branch
    page,      \* the Foreground conversation
    chats,     \* conversations of each ended task that exist
    bindings,  \* lineages and roles in the Host's file, and all there ever were
    receipt,   \* the clean-up receipts in the Host's file
    pending,   \* pending_terminal in the Host's file
    host,      \* the round of the Host: lost when it stops
    dropped,   \* executor events whose claim the Host let go of
    trouble    \* troubles and user turns so far

deliveryVars == <<event, page, chats, bindings, receipt, pending, host, dropped, trouble>>

DeliveryStates == {"PENDING", "CLAIMED", "DELIVERED", "CONSUMED"}
Replies == {"none", "shown", "running", "ended"}
Views == [id : Messages, state : DeliveryStates, cleaned : BOOLEAN]
Steps == {"planner", "terminal", "ready", "next", "clean", "message", "report", "finish"}

DeliveryTypeOK ==
    /\ event \in [Messages -> [state : DeliveryStates, cleaned : BOOLEAN]]
    /\ page \in [reply : [Messages -> Replies], sent : [Messages -> 0..2], taken : BOOLEAN]
    /\ chats \in [Finals -> SUBSET (Bound \cup Late)]
    /\ bindings \in [Finals -> [now : SUBSET (Bound \cup Late), ever : SUBSET (Bound \cup Late)]]
    /\ receipt \in [Finals -> [frozen : BOOLEAN, targets : SUBSET (Bound \cup Late),
                               deleted : SUBSET (Bound \cup Late)]]
    /\ pending \in Terminals \cup {NoMessage}
    /\ host \in [at : Steps, todo : Seq(Views), ended : BOOLEAN]
    /\ dropped \subseteq Terminals
    /\ trouble \in [faults : 0..MaxTroubles, turns : 0..MaxUserTurns]

Quiet == [at |-> "planner", todo |-> << >>, ended |-> FALSE]

DeliveryInit ==
    /\ event = [e \in Messages |-> [state |-> "PENDING", cleaned |-> FALSE]]
    /\ page = [reply |-> [e \in Messages |-> "none"], sent |-> [e \in Messages |-> 0],
               taken |-> FALSE]
    /\ chats = [f \in Finals |-> Bound]
    /\ bindings = [f \in Finals |-> [now |-> Bound, ever |-> Bound]]
    /\ receipt = [f \in Finals |-> [frozen |-> FALSE, targets |-> {}, deleted |-> {}]]
    /\ pending = NoMessage
    /\ host = Quiet
    /\ dropped = {}
    /\ trouble = [faults |-> 0, turns |-> 0]

Trouble == trouble.faults < MaxTroubles /\ trouble' = [trouble EXCEPT !.faults = @ + 1]

View(e, ev) == [id |-> e, state |-> ev[e].state, cleaned |-> ev[e].cleaned]
Held(events) == {e \in events \cap Terminals : event[e].state \in {"CLAIMED", "DELIVERED"}}

-----------------------------------------------------------------------------
\* The first of a nonempty set of events in the order of their paths.
First(order, events) ==
    order[CHOOSE i \in DOMAIN order : order[i] \in events /\ \A j \in 1..(i - 1) : order[j] \notin events]

\* Mutant of OpenEvents: an event is returned once.
PendingEvents == {e \in PlannerEvents : event[e].state = "PENDING"}
OpenEvents == {e \in PlannerEvents : event[e].state # "CONSUMED"}

Uncleaned == {e \in OpenEvents \cap Finals : ~event[e].cleaned}
Claimed(e) == [event EXCEPT ![e].state = IF @ = "PENDING" THEN "CLAIMED" ELSE @]

\* planner_final_delivery_status: conversations that are still to be deleted
\* go first; one event at a time; a claimed one is returned again.
PlannerStatus ==
    /\ host.at = "planner"
    /\ LET e == First(PlannerOrder, IF Uncleaned # {} THEN Uncleaned ELSE OpenEvents) IN
       IF OpenEvents = {}
       THEN UNCHANGED event /\ host' = [host EXCEPT !.at = "terminal"]
       ELSE event' = Claimed(e) /\ host' = [host EXCEPT !.at = "terminal", !.todo = <<View(e, event')>>]
    /\ UNCHANGED <<page, chats, bindings, receipt, pending, dropped, trouble>>

\* reconcile_foreground_terminal, status: claims the first pending event; one
\* that is claimed is not returned again.
TerminalStatus ==
    /\ host.at = "terminal"
    /\ LET waiting == {e \in Terminals : event[e].state = "PENDING"}
           e == First(TerminalOrder, waiting) IN
       IF waiting = {}
       THEN UNCHANGED event /\ host' = [host EXCEPT !.at = "ready"]
       ELSE /\ event' = Claimed(e)
            /\ host' = [host EXCEPT !.at = "ready", !.todo = Append(@, View(e, event'))]
    /\ UNCHANGED <<page, chats, bindings, receipt, pending, dropped, trouble>>

\* _apply_terminal_status takes the answers in turn.
Take ==
    /\ host.at \in {"ready", "next"}
    /\ host' = IF host.todo = << >> THEN Quiet
               ELSE LET v == Head(host.todo) IN
                    [host EXCEPT !.at = IF v.id \in Finals /\ ~v.cleaned
                                        THEN "clean" ELSE "message"]
    /\ UNCHANGED <<event, page, chats, bindings, receipt, pending, dropped, trouble>>

Current == Head(host.todo)
Leave(lost) ==
    /\ host' = [host EXCEPT !.at = "next", !.todo = Tail(@), !.ended = FALSE]
    /\ dropped' = dropped \cup lost

\* _clean_task_conversations: the targets are fixed once and kept.
Freeze ==
    /\ host.at = "clean" /\ ~receipt[Current.id].frozen
    /\ receipt' = [receipt EXCEPT ![Current.id].frozen = TRUE,
                                  ![Current.id].targets = bindings[Current.id].now]
    /\ UNCHANGED <<event, page, chats, bindings, pending, host, dropped, trouble>>

DeleteChat(c) ==
    /\ host.at = "clean" /\ receipt[Current.id].frozen
    /\ c \in receipt[Current.id].targets \ receipt[Current.id].deleted
    /\ \/ /\ chats' = [chats EXCEPT ![Current.id] = @ \ {c}]
          /\ receipt' = [receipt EXCEPT ![Current.id].deleted = @ \cup {c}]
          /\ UNCHANGED <<host, dropped, trouble>>
       \/ /\ Trouble
          /\ Leave({})
          /\ UNCHANGED <<chats, receipt>>
    /\ UNCHANGED <<event, page, bindings, pending>>

AllDeleted(e) == receipt[e].frozen /\ receipt[e].deleted = receipt[e].targets

\* The Bridge ends the task; then the Host forgets its conversations.
ReportCleaned ==
    /\ host.at = "clean" /\ AllDeleted(Current.id)
    /\ LET e == Current.id IN
       \/ /\ event' = [event EXCEPT ![e].cleaned = TRUE]
          /\ bindings' = [bindings EXCEPT ![e].now = {}]
          /\ host' = [host EXCEPT !.at = "message", !.todo[1] = View(e, event')]
          /\ UNCHANGED <<dropped, trouble>>
       \/ /\ Trouble
          /\ event' \in {event, [event EXCEPT ![e].cleaned = TRUE]}
          /\ Leave({})
          /\ UNCHANGED bindings
    /\ UNCHANGED <<page, chats, receipt, pending>>

Answering == \E e \in Messages : page.reply[e] = "running"

\* Mutant of Message: the page is not searched for the message first.
MessageBlind ==
    /\ host.at = "message"
    /\ LET e == Current.id IN
       \/ /\ ~page.taken /\ ~Answering
          /\ \E reply \in {"shown", "running", "ended"} :
               /\ page' = [page EXCEPT !.reply[e] = reply, !.sent[e] = @ + 1]
               /\ IF reply = "shown" THEN Leave({e} \cap Terminals)
                  ELSE /\ host' = [host EXCEPT !.at = "report", !.ended = reply = "ended"]
                       /\ UNCHANGED dropped
       \/ /\ page.taken \/ Answering
          /\ Leave({e} \cap Terminals)
          /\ UNCHANGED page
    /\ UNCHANGED <<event, chats, bindings, receipt, pending, trouble>>

\* _deliver_terminal_event: a message that is on the page is not sent again; one
\* that is not is sent when the page is free, and the delivery ends when the
\* page does not resolve, is busy, or no reply starts.
Message ==
    /\ host.at = "message"
    /\ LET e == Current.id IN
       \/ /\ page.reply[e] # "none"
          /\ host' = [host EXCEPT !.at = "report", !.ended = page.reply[e] = "ended"]
          /\ UNCHANGED <<page, dropped>>
       \/ /\ page.reply[e] = "none" /\ ~page.taken /\ ~Answering
          /\ \E reply \in {"shown", "running", "ended"} :
               /\ page' = [page EXCEPT !.reply[e] = reply, !.sent[e] = @ + 1]
               /\ IF reply = "shown" THEN Leave({e} \cap Terminals)
                  ELSE /\ host' = [host EXCEPT !.at = "report", !.ended = reply = "ended"]
                       /\ UNCHANGED dropped
       \/ /\ page.reply[e] = "none" /\ (page.taken \/ Answering)
          /\ Leave({e} \cap Terminals)
          /\ UNCHANGED page
    /\ UNCHANGED <<event, chats, bindings, receipt, pending, trouble>>

Advance(e, from, to) == [event EXCEPT ![e].state = IF @ = from THEN to ELSE @]

ReportDelivered ==
    /\ host.at = "report"
    /\ LET e == Current.id IN
       \/ /\ Current.state = "CLAIMED"
          /\ event' = Advance(e, "CLAIMED", "DELIVERED")
          /\ host' = [host EXCEPT !.at = "finish", !.todo[1].state = "DELIVERED"]
          /\ UNCHANGED <<dropped, trouble>>
       \/ /\ Current.state = "CLAIMED" /\ Trouble
          /\ event' \in {event, Advance(e, "CLAIMED", "DELIVERED")}
          /\ Leave({e} \cap Terminals)
       \/ /\ Current.state = "DELIVERED"
          /\ host' = [host EXCEPT !.at = "finish"]
          /\ UNCHANGED <<event, dropped, trouble>>
    /\ UNCHANGED <<page, chats, bindings, receipt, pending>>

\* The reply ended: consumed, and of a task's conversations the Host forgets the
\* roles, not the lineages.  Else it remembers one executor event to observe, and
\* asks the Bridge again for one of a Planner.
Consume ==
    /\ host.at = "finish" /\ host.ended
    /\ LET e == Current.id IN
       /\ e \in Finals => event[e].cleaned
       /\ \/ /\ event' = Advance(e, "DELIVERED", "CONSUMED")
             /\ bindings' = IF e \in Finals THEN [bindings EXCEPT ![e].now = @ \cap Late] ELSE bindings
             /\ pending' = IF e \in Terminals THEN NoMessage ELSE pending
             /\ Leave(IF e \in Terminals THEN {pending} \ {e, NoMessage} ELSE {})
             /\ UNCHANGED trouble
          \/ /\ Trouble
             /\ event' \in {event, Advance(e, "DELIVERED", "CONSUMED")}
             /\ Leave({e} \cap Terminals)
             /\ UNCHANGED <<bindings, pending>>
    /\ UNCHANGED <<page, chats, receipt>>

Remember ==
    /\ host.at = "finish" /\ ~host.ended
    /\ IF Current.id \in Terminals
       THEN pending' = Current.id /\ Leave({pending} \ {Current.id, NoMessage})
       ELSE UNCHANGED pending /\ Leave({})
    /\ UNCHANGED <<event, page, chats, bindings, receipt, trouble>>

Waiting == host.at \in {"planner", "terminal", "ready"}

\* _observe_foreground_terminal, in every tick; a lost call is tried again.
ObserveTerminal ==
    /\ Waiting /\ pending # NoMessage /\ page.reply[pending] = "ended"
    /\ \/ /\ event' = [event EXCEPT ![pending].state = "CONSUMED"]
          /\ pending' = NoMessage
          /\ UNCHANGED trouble
       \/ /\ Trouble
          /\ event' \in {event, [event EXCEPT ![pending].state = "CONSUMED"]}
          /\ UNCHANGED pending
    /\ UNCHANGED <<page, chats, bindings, receipt, host, dropped>>

\* The Host stops, or the answers of its poll do not reach it.
HostStops ==
    /\ host # Quiet /\ Trouble
    /\ host' = Quiet
    /\ dropped' = dropped \cup Held({host.todo[i].id : i \in DOMAIN host.todo} \ {pending})
    /\ UNCHANGED <<event, page, chats, bindings, receipt, pending>>

\* The wake of a child that was READY when the task ended (create_worker): the
\* Bridge admits the Worker until the task's control is disabled.
StartLateWorker(f, c) ==
    /\ Waiting /\ c \in Late /\ c \notin UNION {bindings[g].ever \cup chats[g] : g \in Finals}
    /\ chats' = [chats EXCEPT ![f] = @ \cup {c}]
    /\ bindings' = IF event[f].cleaned THEN bindings
                   ELSE [bindings EXCEPT ![f].now = @ \cup {c}, ![f].ever = @ \cup {c}]
    /\ UNCHANGED <<event, page, receipt, pending, host, dropped, trouble>>

-----------------------------------------------------------------------------
\* The Foreground answers one message after the other; its user takes the page
\* for a turn, a draft, or closes it.
ReplyStarts(e) ==
    /\ page.reply[e] = "shown" /\ ~Answering
    /\ page' = [page EXCEPT !.reply[e] = "running"]
    /\ UNCHANGED <<event, chats, bindings, receipt, pending, host, dropped, trouble>>

ReplyEnds(e) ==
    /\ page.reply[e] = "running"
    /\ page' = [page EXCEPT !.reply[e] = "ended"]
    /\ UNCHANGED <<event, chats, bindings, receipt, pending, host, dropped, trouble>>

UserTakesPage ==
    /\ ~page.taken /\ ~Answering /\ trouble.turns < MaxUserTurns
    /\ page' = [page EXCEPT !.taken = TRUE]
    /\ trouble' = [trouble EXCEPT !.turns = @ + 1]
    /\ UNCHANGED <<event, chats, bindings, receipt, pending, host, dropped>>

UserLeavesPage ==
    /\ page.taken
    /\ page' = [page EXCEPT !.taken = FALSE]
    /\ UNCHANGED <<event, chats, bindings, receipt, pending, host, dropped, trouble>>

HostRound ==
    \/ PlannerStatus \/ TerminalStatus \/ Take
    \/ Freeze \/ (\E c \in Bound \cup Late : DeleteChat(c)) \/ ReportCleaned
    \/ Message \/ ReportDelivered \/ Consume \/ Remember

Replying == \E e \in Messages : ReplyStarts(e) \/ ReplyEnds(e)

DeliveryNext ==
    \/ HostRound
    \/ ObserveTerminal
    \/ HostStops
    \/ \E f \in Finals, c \in Late : StartLateWorker(f, c)
    \/ Replying
    \/ UserTakesPage \/ UserLeavesPage

DeliverySpec == DeliveryInit /\ [][DeliveryNext]_deliveryVars

-----------------------------------------------------------------------------
\* What the branch records as done was done: the Foreground has answered the
\* message of a consumed event, to which it was sent once although the Host
\* stopped and repeated calls; a task is closed only when every conversation of
\* its receipt is gone, and consumed only after it was closed.
DeliveryHonest ==
    /\ \A e \in Messages :
         /\ event[e].state = "CONSUMED" => page.reply[e] = "ended"
         /\ page.sent[e] <= 1
    /\ \A f \in Finals :
         /\ event[f].cleaned
              => receipt[f].frozen /\ receipt[f].targets \cap chats[f] = {}
         /\ event[f].state = "CONSUMED" => event[f].cleaned

\* Every question and final delivery of a Planner is consumed in the end; an
\* executor event is, unless the Host let go of it after its claim: its 120 s
\* lease is not looked at, and nothing claims it again.
Told == \A e \in Messages : event[e].state = "CONSUMED" \/ e \in dropped
DeliveriesEnd == []<>Told

\* docs/CLEANER_RULES.md: before conversation bindings are released, the
\* deletion of the exact task-owned chats is confirmed.
ReleasedChatsDeleted ==
    \A f \in Finals : (bindings[f].ever \ bindings[f].now) \cap chats[f] = {}
=============================================================================
