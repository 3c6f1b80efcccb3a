----------------------------- MODULE PlannerTurn -----------------------------
(***************************************************************************)
(* The Planner of one Task Cell (local_bridge/planner_control.py,          *)
(* planner_runtime.py, planner_memory.py, task_cell_roles.py): its inbox of*)
(* events, the doorbell that gives it a turn, the reduction of the turn,   *)
(* the rotation to a successor and the final delivery.  Every step is one  *)
(* commit on the branch.  A step computed on an older head is refused by   *)
(* the push and changes nothing, so a handler is one action on the head.   *)
(* The control slot of state/chatgpt.json is shared with the other cells.  *)
(***************************************************************************)
EXTENDS Naturals, FiniteSets

CONSTANTS
    Lanes,           \* the enabled Worker lanes
    ReviewInterval,  \* WORKER_REVIEW_INTERVAL
    MaxPrompts,      \* max_prompts_per_generation
    SharedSlot,      \* whether other Task Cells use the control slot too
    MaxDispatch,     \* bound: dispatches per lane
    MaxHelpers,      \* bound: Helpers the Planner asks for
    MaxRevisions,    \* bound: revisions of the Task Contract
    MaxGen           \* bound: Planner generations

ASSUME PlannerTurnAssumption ==
    /\ IsFiniteSet(Lanes) /\ SharedSlot \in BOOLEAN
    /\ ReviewInterval \in Nat \ {0} /\ MaxPrompts \in Nat \ {0}
    /\ MaxDispatch \in Nat /\ MaxHelpers \in Nat
    /\ MaxRevisions \in Nat /\ MaxGen \in Nat \ {0}

Helpers == 1..MaxHelpers

\* An event is identified by its source: the dispatch a result is for, the
\* Helper request, the revision of the Task Contract.
WorkerResult(l, n) == <<"worker_result", l, n>>
HelperResult(h) == <<"helper_result", h>>
ForegroundIntent(r) == <<"foreground_intent", r>>
Intents == {ForegroundIntent(r) : r \in 1..MaxRevisions}
Events == {WorkerResult(l, n) : l \in Lanes, n \in 1..MaxDispatch}
          \cup {HelperResult(h) : h \in Helpers} \cup Intents

\* A doorbell is identified by the generation it is for and its events; the
\* committed turn (active_turn) names the doorbell it answers.
Bell(g, E) == [gen |-> g, events |-> E]
NoBell == Bell(0, {})

Outcomes == {"CONTINUE", "WAIT", "NEED_HELPER", "NEED_USER", "COMPLETE", "ERROR"}
Entries == {"", "DIRECTION", "REJECT", "ACCEPT"}  \* ACCEPT stands for RETIRE too
Blank == [signal |-> "", slots |-> [l \in Lanes |-> ""]]
NoChild == [state |-> "NONE", gen |-> 0]
NoHelper == [state |-> "NONE", file |-> "", done |-> FALSE]
NoDelivery == [kind |-> "NONE", state |-> "NONE", cleaned |-> FALSE]
Activities == {"ACTIVE", "PARKED_WAIT_EVENT", "WAKING", "REPLANNING", "WAIT_USER",
               "ROTATING", "CLEANING", "DONE", "ERROR"}
Waits == {"NONE", "WAIT_RESULT", "WAIT_HELPER", "WAIT_DEP", "NEED_USER"}
SlotKinds == {"FREE", "PROMPT", "HELPER_PROMPT", "BOOTSTRAP", "PROMOTE", "RETIRE", "OTHER"}

VARIABLES
    \* The Task Cell.
    enabled, activity, wait,
    closed,        \* semantic_authority_closed
    events,        \* inbox.events: the state of each event
    doorbell,      \* inbox.active_doorbell
    turn,          \* runtime.active_turn: the doorbell it answers
    pending,       \* runtime.pending_output: its status
    authority,     \* generation in authority, fenced_for_rotation
    successor,     \* successor.state
    promoted,      \* runtime.browser_promotion_complete
    moved,         \* authority.conversation_id is no longer the one of the handoff
    prompts,       \* runtime.prompt_count, counted up to the ceiling
    children,      \* runtime.owned_children, at most one per lane
    helpers,       \* pending_role_requests and pending_role_outputs, with the output file
    delivery,      \* runtime.final_delivery
    \* Other files of the branch.
    paper,         \* the outcome and the slots of the current turn
    known,         \* current.json: the revision of the contract it has seen
    readOnly,      \* current.json: read_only
    contract,      \* the revision of the Task Contract
    dispatches,    \* number of dispatches of the lane so far
    backend,       \* how the last dispatch of the lane stands
    slot           \* kind of the control request that is PENDING

cell == <<enabled, activity, wait, closed>>
inbox == <<events, doorbell, turn, pending, paper>>
succession == <<authority, successor, promoted, moved, prompts>>
work == <<children, dispatches, backend>>
memory == <<known, readOnly, contract>>
vars == <<cell, inbox, succession, work, memory, helpers, delivery, slot>>

Pending == {e \in Events : events[e] = "PENDING"}

\* Bound: the lane has a dispatch left for one more direction or continuation.
Room(l) ==
    dispatches[l] + (IF paper.slots[l] \in {"DIRECTION", "REJECT"} THEN 1 ELSE 0)
    + (IF backend[l] = "CONTINUE" /\ children[l].state = "WAITING" THEN 1 ELSE 0)
    < MaxDispatch

-----------------------------------------------------------------------------
(* Other writers.                                                          *)

\* Foreground commits a change of the Task Contract.
EditContract ==
    /\ contract < MaxRevisions
    /\ contract' = contract + 1
    /\ UNCHANGED <<cell, inbox, succession, work, known, readOnly, helpers, delivery, slot>>

\* The Planner writes a slot of its turn, then, last, its outcome.
WriteSlot(l, entry) ==
    /\ turn # NoBell /\ paper.signal = "" /\ paper.slots[l] # entry
    /\ entry \in {"DIRECTION", "REJECT"} => Room(l)
    /\ paper' = [paper EXCEPT !.slots[l] = entry]
    /\ UNCHANGED <<cell, events, doorbell, turn, pending, succession, work, memory,
                   helpers, delivery, slot>>

WriteOutcome(signal) ==
    /\ turn # NoBell /\ paper.signal = ""
    /\ signal = "HANDOFF" => turn.gen < MaxGen
    /\ signal = "NEED_HELPER" => \E h \in Helpers : helpers[h].state = "NONE"
    /\ paper' = [paper EXCEPT !.signal = signal]
    /\ UNCHANGED <<cell, events, doorbell, turn, pending, succession, work, memory,
                   helpers, delivery, slot>>

\* A dispatch ends; "CONTINUE" asks for another generation.
WorkerEnds(l, status) ==
    /\ backend[l] = "RUNNING"
    /\ status = "CONTINUE" => Room(l)
    /\ backend' = [backend EXCEPT ![l] = status]
    /\ UNCHANGED <<cell, inbox, succession, children, dispatches, memory, helpers,
                   delivery, slot>>

\* A Helper writes its result, and later that it is done.
HelperWrites(h, file) ==
    /\ helpers[h].state \in {"WAITING", "EMITTED"}
    /\ <<helpers[h].file, file>> \in {<<"", "READY">>, <<"READY", "DONE">>}
    /\ helpers' = [helpers EXCEPT ![h].file = file]
    /\ UNCHANGED <<cell, inbox, succession, work, memory, delivery, slot>>

\* Another Task Cell uses the control slot.
OtherCell ==
    /\ SharedSlot
    /\ \/ slot = "FREE" /\ slot' = "OTHER"
       \/ slot = "OTHER" /\ slot' = "FREE"
    /\ UNCHANGED <<cell, inbox, succession, work, memory, helpers, delivery>>

-----------------------------------------------------------------------------
(* Reduction of a committed turn.  It does not need the control slot.      *)

TurnDue == successor = "NONE" /\ turn # NoBell /\ paper.signal \in Outcomes

\* The outcomes that wait for something else first.
Reducible ==
    /\ turn = doorbell
    /\ paper.signal = "COMPLETE" =>
         \A h \in Helpers : helpers[h].state = "WAITING" => helpers[h].done
    /\ paper.signal \in {"COMPLETE", "ERROR"} => ~readOnly

\* The lanes whose child gets its next, or its first, dispatch.
Redispatched ==
    {l \in Lanes :
       /\ paper.signal = "CONTINUE"
       /\ \/ paper.slots[l] = "DIRECTION"
          \/ paper.slots[l] = "REJECT" /\ children[l] # NoChild
          \/ paper.slots[l] # "ACCEPT" /\ children[l].state = "REVIEW_PENDING"}
LetGo == {l \in Lanes : paper.slots[l] = "ACCEPT"}

Settled == [l \in Lanes |->
              IF l \in Redispatched
              THEN [state |-> "WAITING", gen |-> children[l].gen + 1]
              ELSE IF l \in LetGo THEN NoChild ELSE children[l]]
Dispatch(L) ==
    /\ dispatches' = [l \in Lanes |-> dispatches[l] + IF l \in L THEN 1 ELSE 0]
    /\ backend' = [l \in Lanes |-> IF l \in L THEN "RUNNING" ELSE backend[l]]

EndTurn ==
    /\ doorbell' = NoBell /\ turn' = NoBell /\ pending' = "NONE" /\ paper' = Blank

\* Mutant: a turn consumes the events that came in while it was open as well.
ReduceAll(act, on) ==
    /\ TurnDue /\ Reducible
    /\ events' = [e \in Events |-> IF events[e] = "ABSENT" THEN "ABSENT" ELSE "CONSUMED"]
    /\ EndTurn
    /\ activity' = act /\ wait' = on
    /\ children' = Settled /\ Dispatch(Redispatched)
    /\ UNCHANGED <<enabled, succession, known, contract, slot>>

\* What a turn leaves behind when the task goes on.
Reduce(act, on) ==
    /\ TurnDue /\ Reducible
    /\ events' = [e \in Events |-> IF e \in doorbell.events THEN "CONSUMED" ELSE events[e]]
    /\ EndTurn
    /\ activity' = act /\ wait' = on
    /\ children' = Settled /\ Dispatch(Redispatched)
    /\ UNCHANGED <<enabled, succession, known, contract, slot>>

\* Mutant: any child that is still owned counts as a running one.
ReduceContinueOwned ==
    /\ paper.signal = "CONTINUE"
    /\ Reduce("PARKED_WAIT_EVENT",
              IF \E l \in Lanes : Settled[l] # NoChild THEN "WAIT_RESULT" ELSE "NONE")
    /\ UNCHANGED <<closed, readOnly, helpers, delivery>>

ReduceContinue ==
    /\ paper.signal = "CONTINUE"
    /\ Reduce("PARKED_WAIT_EVENT",
              IF \E l \in Lanes : Settled[l].state = "WAITING" THEN "WAIT_RESULT" ELSE "NONE")
    /\ UNCHANGED <<closed, readOnly, helpers, delivery>>
ReduceWait ==
    /\ paper.signal = "WAIT"
    /\ Reduce("PARKED_WAIT_EVENT", "WAIT_DEP")
    /\ UNCHANGED <<closed, readOnly, helpers, delivery>>
ReduceNeedHelper(h) ==
    /\ paper.signal = "NEED_HELPER"
    /\ helpers[h] = NoHelper /\ \A i \in 1..(h-1) : helpers[i] # NoHelper
    /\ Reduce("PARKED_WAIT_EVENT", "WAIT_HELPER")
    /\ helpers' = [helpers EXCEPT ![h].state = "REQUEST_PENDING"]
    /\ UNCHANGED <<closed, readOnly, delivery>>
ReduceNeedUser ==
    /\ paper.signal = "NEED_USER"
    /\ Reduce("WAIT_USER", "NEED_USER")
    /\ delivery' = [kind |-> "QUERY", state |-> "PENDING", cleaned |-> FALSE]
    /\ UNCHANGED <<closed, readOnly, helpers>>
ReduceError ==
    /\ paper.signal = "ERROR"
    /\ Reduce("ERROR", "NONE")
    /\ closed' = TRUE /\ readOnly' = TRUE
    /\ delivery' = [kind |-> "ERROR", state |-> "PENDING", cleaned |-> FALSE]
    /\ UNCHANGED helpers

\* COMPLETE collapses the whole control to its terminal projection.
ReduceComplete ==
    /\ TurnDue /\ Reducible /\ paper.signal = "COMPLETE"
    /\ events' = [e \in Events |-> "ABSENT"]
    /\ EndTurn
    /\ activity' = "CLEANING" /\ wait' = "NONE"
    /\ closed' = TRUE /\ readOnly' = TRUE
    /\ children' = [l \in Lanes |-> NoChild]
    /\ helpers' = [h \in Helpers |-> NoHelper]
    /\ prompts' = 0 /\ promoted' = FALSE
    /\ delivery' = [kind |-> "PASS", state |-> "PENDING", cleaned |-> FALSE]
    /\ UNCHANGED <<enabled, authority, successor, moved, dispatches, backend, known,
                   contract, slot>>

ReduceTurn ==
    \/ ReduceContinue \/ ReduceWait \/ (\E h \in Helpers : ReduceNeedHelper(h))
    \/ ReduceNeedUser \/ ReduceError \/ ReduceComplete

\* The Helper's last signal, read from its bound output.
HelperDone(h) ==
    LET runnable == enabled /\ ~closed
                    /\ activity \notin {"WAIT_USER", "DONE", "ERROR", "CLEANING"}
        finished == /\ runnable /\ wait = "WAIT_HELPER"
                    /\ \A i \in Helpers : i > h => helpers[i] = NoHelper
    IN  /\ slot # "HELPER_PROMPT"
        /\ helpers[h].state \in {"WAITING", "EMITTED"} /\ helpers[h].file = "DONE"
        /\ ~helpers[h].done \/ finished
        /\ helpers' = [helpers EXCEPT ![h].done = TRUE]
        /\ wait' = IF finished THEN "WAIT_RESULT" ELSE wait
        /\ UNCHANGED <<enabled, activity, closed, inbox, succession, work, memory,
                       delivery, slot>>

-----------------------------------------------------------------------------
(* The tick.  It runs while the control slot is free and does the first    *)
(* step that applies; a committed turn that cannot be reduced yet ends it. *)

IntentDue == successor = "NONE" /\ ~readOnly /\ known # contract
ResultDue == \E l \in Lanes : children[l].state = "WAITING" /\ backend[l] # "RUNNING"
RequestDue == successor = "NONE" /\ \E h \in Helpers : helpers[h].state = "REQUEST_PENDING"
OutputDue == \E h \in Helpers : helpers[h].state = "WAITING" /\ helpers[h].file # ""
\* While the user is asked, only the Foreground's intent rings.
Claimable == Pending \cap (IF activity = "WAIT_USER" THEN Intents ELSE Events)
\* Mutant: like the rotation, the doorbell waits for the pending output to go.
RingDueIdle ==
    /\ successor = "NONE" /\ ~closed /\ doorbell = NoBell /\ pending = "NONE"
    /\ activity \notin {"ROTATING", "DONE", "ERROR"}
    /\ Claimable # {}

RingDue ==
    /\ successor = "NONE" /\ ~closed /\ doorbell = NoBell
    /\ activity \notin {"ROTATING", "DONE", "ERROR"}
    /\ Claimable # {}

TickOpen == enabled /\ slot = "FREE" /\ ~TurnDue
AfterIntent == TickOpen /\ ~IntentDue
AfterResults == AfterIntent /\ ~ResultDue
AfterRequests == AfterResults /\ ~RequestDue
AfterOutputs == AfterRequests /\ ~OutputDue

Insert(e) == [events EXCEPT ![e] = IF @ = "ABSENT" THEN "PENDING" ELSE @]

IntentEvent ==
    /\ TickOpen /\ IntentDue
    /\ events' = Insert(ForegroundIntent(contract))
    /\ known' = contract
    /\ UNCHANGED <<cell, doorbell, turn, pending, paper, succession, work, readOnly,
                   contract, helpers, delivery, slot>>

\* A generation that asks for another one gets it without a Planner turn,
\* except at every ReviewInterval-th generation.
AutoContinue(l) ==
    /\ AfterIntent
    /\ children[l].state = "WAITING" /\ backend[l] = "CONTINUE"
    /\ children[l].gen % ReviewInterval # 0
    /\ children' = [children EXCEPT ![l].gen = @ + 1]
    /\ Dispatch({l})
    /\ UNCHANGED <<cell, inbox, succession, memory, helpers, delivery, slot>>

ResultEvent(l) ==
    /\ AfterIntent
    /\ children[l].state = "WAITING" /\ backend[l] # "RUNNING"
    /\ backend[l] = "CONTINUE" => children[l].gen % ReviewInterval = 0
    /\ events' = Insert(WorkerResult(l, dispatches[l]))
    /\ children' = [children EXCEPT ![l].state =
                       IF backend[l] = "CONTINUE" THEN "REVIEW_PENDING" ELSE "EMITTED"]
    /\ activity' = "REPLANNING" /\ wait' = "NONE"
    /\ UNCHANGED <<enabled, closed, doorbell, turn, pending, paper, succession,
                   dispatches, backend, memory, helpers, delivery, slot>>

StageHelper(h) ==
    /\ AfterResults /\ successor = "NONE"
    /\ helpers[h].state = "REQUEST_PENDING"
    /\ helpers' = [helpers EXCEPT ![h].state = "WAITING"]
    /\ slot' = "HELPER_PROMPT"
    /\ UNCHANGED <<cell, inbox, succession, work, memory, delivery>>

HelperEvent(h) ==
    /\ AfterRequests
    /\ helpers[h].state = "WAITING" /\ helpers[h].file # ""
    /\ events' = Insert(HelperResult(h))
    /\ helpers' = [helpers EXCEPT ![h].state = "EMITTED"]
    /\ UNCHANGED <<cell, doorbell, turn, pending, paper, succession, work, memory,
                   delivery, slot>>

Ring ==
    /\ AfterOutputs /\ RingDue
    /\ events' = [e \in Events |-> IF e \in Claimable THEN "CLAIMED" ELSE events[e]]
    /\ doorbell' = Bell(authority.gen, Claimable) /\ turn' = doorbell'
    /\ pending' = "DELIVERY_PENDING" /\ paper' = Blank
    /\ activity' = "WAKING"
    /\ slot' = "PROMPT"
    /\ UNCHANGED <<enabled, wait, closed, succession, work, memory, helpers, delivery>>

\* The browser reports the start of the response.
PromptDone ==
    /\ slot = "PROMPT" /\ slot' = "FREE"
    /\ prompts' = IF prompts < MaxPrompts THEN prompts + 1 ELSE prompts
    /\ pending' = "WAITING"
    /\ UNCHANGED <<cell, events, doorbell, turn, paper, authority, successor, promoted,
                   moved, work, memory, helpers, delivery>>
HelperPromptDone ==
    /\ slot = "HELPER_PROMPT" /\ slot' = "FREE"
    /\ UNCHANGED <<cell, inbox, succession, work, memory, helpers, delivery>>

\* The browser watchdog replays the prompt of an unanswered turn, in the same
\* conversation or in a new one.
WatchdogReplay(replacement) ==
    /\ pending # "NONE" /\ successor # "REQUESTED"
    /\ prompts' = IF prompts < MaxPrompts THEN prompts + 1 ELSE prompts
    /\ pending' = "WAITING"
    /\ moved' = (moved \/ (replacement /\ successor = "PROMOTED"))
    /\ UNCHANGED <<cell, events, doorbell, turn, paper, authority, successor, promoted,
                   work, memory, helpers, delivery, slot>>

-----------------------------------------------------------------------------
(* Rotation: fence the Planner, start its successor with the turn, give it *)
(* the authority, make the browser use it, delete the predecessor.         *)

\* Mutant: the claims of the open turn are not released before the successor's.
RotateDrop ==
    /\ enabled /\ slot = "FREE" /\ successor = "NONE" /\ authority.gen < MaxGen
    /\ LET E == Pending
       IN  /\ events' = [e \in Events |-> IF e \in E THEN "CLAIMED" ELSE events[e]]
           /\ doorbell' = Bell(authority.gen + 1, E) /\ turn' = doorbell'
    /\ pending' = "DELIVERY_PENDING"
    /\ paper' = [signal |-> "", slots |-> [l \in Lanes |->
                    IF paper.slots[l] = "DIRECTION" THEN "DIRECTION" ELSE ""]]
    /\ authority' = [authority EXCEPT !.fenced = TRUE]
    /\ successor' = "REQUESTED" /\ promoted' = FALSE
    /\ activity' = "ROTATING"
    /\ slot' = "BOOTSTRAP"
    /\ UNCHANGED <<enabled, wait, closed, moved, prompts, work, memory, helpers, delivery>>
\* Mutant: the pending output of the old turn is dropped, none is recorded.
RotateSilent ==
    /\ enabled /\ slot = "FREE" /\ successor = "NONE" /\ authority.gen < MaxGen
    /\ LET E == Pending \cup doorbell.events
       IN  /\ events' = [e \in Events |-> IF e \in E THEN "CLAIMED" ELSE events[e]]
           /\ doorbell' = Bell(authority.gen + 1, E) /\ turn' = doorbell'
    /\ pending' = "NONE"
    /\ paper' = [signal |-> "", slots |-> [l \in Lanes |->
                    IF paper.slots[l] = "DIRECTION" THEN "DIRECTION" ELSE ""]]
    /\ authority' = [authority EXCEPT !.fenced = TRUE]
    /\ successor' = "REQUESTED" /\ promoted' = FALSE
    /\ activity' = "ROTATING"
    /\ slot' = "BOOTSTRAP"
    /\ UNCHANGED <<enabled, wait, closed, moved, prompts, work, memory, helpers, delivery>>

\* The events of the open turn and those that wait become the successor's;
\* of the old slots only an unapplied DIRECTION is copied.
Rotate ==
    /\ enabled /\ slot = "FREE" /\ successor = "NONE" /\ authority.gen < MaxGen
    /\ LET E == Pending \cup doorbell.events
       IN  /\ events' = [e \in Events |-> IF e \in E THEN "CLAIMED" ELSE events[e]]
           /\ doorbell' = Bell(authority.gen + 1, E) /\ turn' = doorbell'
    /\ pending' = "DELIVERY_PENDING"
    /\ paper' = [signal |-> "", slots |-> [l \in Lanes |->
                    IF paper.slots[l] = "DIRECTION" THEN "DIRECTION" ELSE ""]]
    /\ authority' = [authority EXCEPT !.fenced = TRUE]
    /\ successor' = "REQUESTED" /\ promoted' = FALSE
    /\ activity' = "ROTATING"
    /\ slot' = "BOOTSTRAP"
    /\ UNCHANGED <<enabled, wait, closed, moved, prompts, work, memory, helpers, delivery>>

\* The Planner's own signal; a request of the browser or an operator; the
\* prompt ceiling, between two turns.
Handoff == turn # NoBell /\ paper.signal = "HANDOFF" /\ Rotate
RequestRotation == Rotate
RotateDue ==
    /\ AfterOutputs /\ ~RingDue
    /\ turn = NoBell /\ pending = "NONE" /\ doorbell = NoBell
    /\ prompts >= MaxPrompts
    /\ Rotate

\* Mutant: the new generation is counted twice.
BootstrapSkip ==
    /\ slot = "BOOTSTRAP" /\ successor = "REQUESTED"
    /\ authority' = [gen |-> doorbell.gen + 1, fenced |-> FALSE]
    /\ successor' = "PROMOTED" /\ promoted' = FALSE /\ moved' = FALSE
    /\ activity' = "ROTATING"
    /\ pending' = IF pending = "NONE" THEN "NONE" ELSE "WAITING"
    /\ slot' = "PROMOTE"
    /\ UNCHANGED <<enabled, wait, closed, events, doorbell, turn, paper, prompts, work,
                   memory, helpers, delivery>>
\* Mutant: the fence of the predecessor is not lifted for the successor.
BootstrapFenced ==
    /\ slot = "BOOTSTRAP" /\ successor = "REQUESTED"
    /\ authority' = [gen |-> authority.gen + 1, fenced |-> TRUE]
    /\ successor' = "PROMOTED" /\ promoted' = FALSE /\ moved' = FALSE
    /\ activity' = "ROTATING"
    /\ pending' = IF pending = "NONE" THEN "NONE" ELSE "WAITING"
    /\ slot' = "PROMOTE"
    /\ UNCHANGED <<enabled, wait, closed, events, doorbell, turn, paper, prompts, work,
                   memory, helpers, delivery>>

\* The conversation of the successor exists and has begun to answer.
BootstrapDone ==
    /\ slot = "BOOTSTRAP" /\ successor = "REQUESTED"
    /\ authority' = [gen |-> authority.gen + 1, fenced |-> FALSE]
    /\ successor' = "PROMOTED" /\ promoted' = FALSE /\ moved' = FALSE
    /\ activity' = "ROTATING"
    /\ pending' = IF pending = "NONE" THEN "NONE" ELSE "WAITING"
    /\ slot' = "PROMOTE"
    /\ UNCHANGED <<enabled, wait, closed, events, doorbell, turn, paper, prompts, work,
                   memory, helpers, delivery>>
PromoteDone ==
    /\ slot = "PROMOTE" /\ ~moved
    /\ promoted' = TRUE /\ prompts' = 1
    /\ slot' = "FREE"
    /\ UNCHANGED <<cell, inbox, authority, successor, moved, work, memory, helpers, delivery>>

\* Mutant: the predecessor is kept until the turn has been answered.
RequestRetireIdle ==
    /\ AfterOutputs
    /\ successor = "PROMOTED" /\ promoted /\ ~moved /\ pending = "NONE"
    /\ slot' = "RETIRE"
    /\ UNCHANGED <<cell, inbox, succession, work, memory, helpers, delivery>>
RequestRetire ==
    /\ AfterOutputs
    /\ successor = "PROMOTED" /\ promoted /\ ~moved
    /\ slot' = "RETIRE"
    /\ UNCHANGED <<cell, inbox, succession, work, memory, helpers, delivery>>
\* The predecessor is deleted; after a failed deletion the request stays.
RetireDone ==
    /\ slot = "RETIRE"
    /\ successor' = "NONE" /\ promoted' = TRUE /\ moved' = FALSE
    /\ activity' = "ACTIVE"
    /\ slot' = "FREE"
    /\ UNCHANGED <<enabled, wait, closed, inbox, authority, prompts, work, memory, helpers,
                   delivery>>

-----------------------------------------------------------------------------
(* Delivery of a question or of the end of the task to the Foreground.     *)

Deliver(from, to) ==
    /\ delivery.state = from /\ delivery' = [delivery EXCEPT !.state = to]
    /\ UNCHANGED <<cell, inbox, succession, work, memory, helpers, slot>>
Claim == activity \in {"WAIT_USER", "CLEANING", "DONE", "ERROR"} /\ Deliver("PENDING", "CLAIMED")
Delivered == Deliver("CLAIMED", "DELIVERED")
Answered == delivery.kind = "QUERY" /\ Deliver("DELIVERED", "CONSUMED")

\* The end of the task closes its authority and drops everything it has.
TerminalReset(final) ==
    /\ enabled' = FALSE /\ closed' = TRUE /\ wait' = "NONE"
    /\ activity' = IF delivery.kind = "ERROR" THEN "ERROR" ELSE "DONE"
    /\ events' = [e \in Events |-> "ABSENT"]
    /\ EndTurn
    /\ successor' = "NONE" /\ promoted' = FALSE /\ prompts' = 0
    /\ children' = [l \in Lanes |-> NoChild]
    /\ helpers' = [h \in Helpers |-> NoHelper]
    /\ slot' = IF slot = "OTHER" THEN slot ELSE "FREE"
    /\ delivery' = final
    /\ UNCHANGED <<authority, moved, dispatches, backend, memory>>
Cleaned ==
    /\ delivery.kind \in {"PASS", "ERROR"} /\ delivery.state \in {"CLAIMED", "DELIVERED"}
    /\ ~delivery.cleaned
    /\ TerminalReset([delivery EXCEPT !.cleaned = TRUE])
Consumed ==
    /\ delivery.kind \in {"PASS", "ERROR"} /\ delivery.state = "DELIVERED" /\ delivery.cleaned
    /\ TerminalReset(NoDelivery)

-----------------------------------------------------------------------------
\* The first Planner has been bound and works on its first turn.
Init ==
    /\ enabled = TRUE /\ activity = "WAKING" /\ wait = "NONE" /\ closed = FALSE
    /\ events = [e \in Events |-> "ABSENT"]
    /\ doorbell = Bell(1, {}) /\ turn = Bell(1, {}) /\ pending = "WAITING"
    /\ authority = [gen |-> 1, fenced |-> FALSE]
    /\ successor = "NONE" /\ promoted = TRUE /\ moved = FALSE /\ prompts = 1
    /\ children = [l \in Lanes |-> NoChild]
    /\ helpers = [h \in Helpers |-> NoHelper]
    /\ delivery = NoDelivery /\ paper = Blank
    /\ known = 0 /\ contract = 0 /\ readOnly = FALSE
    /\ dispatches = [l \in Lanes |-> 0] /\ backend = [l \in Lanes |-> "PASS"]
    /\ slot = "FREE"

Tick ==
    \/ IntentEvent \/ Ring \/ RequestRetire \/ RotateDue
    \/ \E l \in Lanes : AutoContinue(l) \/ ResultEvent(l)
    \/ \E h \in Helpers : StageHelper(h) \/ HelperEvent(h)
Browser ==
    \/ PromptDone \/ HelperPromptDone \/ BootstrapDone \/ PromoteDone \/ RetireDone
    \/ Claim \/ Delivered \/ Answered \/ Cleaned \/ Consumed
Planner ==
    \/ \E signal \in Outcomes \cup {"HANDOFF"} : WriteOutcome(signal)
    \/ \E l \in Lanes, entry \in Entries \ {""} : WriteSlot(l, entry)

Next ==
    \/ EditContract \/ Planner \/ OtherCell
    \/ \E l \in Lanes, status \in {"CONTINUE", "PASS"} : WorkerEnds(l, status)
    \/ \E h \in Helpers, file \in {"READY", "DONE"} : HelperWrites(h, file)
    \/ ReduceTurn \/ Handoff
    \/ \E h \in Helpers : HelperDone(h)
    \/ Tick \/ Browser
    \/ RequestRotation
    \/ \E replacement \in BOOLEAN : WatchdogReplay(replacement)

Spec == Init /\ [][Next]_vars

\* The holder of the control slot is done with it.
SlotReleased ==
    \/ PromptDone \/ HelperPromptDone \/ BootstrapDone \/ PromoteDone \/ RetireDone
    \/ slot = "OTHER" /\ OtherCell

\* The Harness keeps ticking and the browser keeps retrying its request, every
\* cell that holds the control slot lets it go, and no cell is passed over
\* forever.  The Planner and the Helper eventually answer: the watchdogs replay
\* their prompts until they do.
Fairness ==
    /\ SF_vars(Tick) /\ SF_vars(Handoff)
    /\ WF_vars(ReduceTurn) /\ WF_vars(SlotReleased)
    /\ WF_vars(\E signal \in Outcomes : WriteOutcome(signal))
    /\ \A h \in Helpers :
         /\ WF_vars(HelperDone(h))
         /\ WF_vars(\E file \in {"READY", "DONE"} : HelperWrites(h, file))
FairSpec == Spec /\ Fairness

-----------------------------------------------------------------------------
CellTypes ==
    /\ enabled \in BOOLEAN /\ activity \in Activities /\ wait \in Waits
    /\ closed \in BOOLEAN
InboxTypes ==
    /\ events \in [Events -> {"ABSENT", "PENDING", "CLAIMED", "CONSUMED"}]
    /\ {doorbell, turn} \subseteq [gen : 0..MaxGen, events : SUBSET Events]
    /\ pending \in {"NONE", "DELIVERY_PENDING", "WAITING"}
    /\ paper \in [signal : Outcomes \cup {"", "HANDOFF"}, slots : [Lanes -> Entries]]
SuccessionTypes ==
    /\ authority \in [gen : 1..MaxGen, fenced : BOOLEAN]
    /\ successor \in {"NONE", "REQUESTED", "PROMOTED"}
    /\ promoted \in BOOLEAN /\ moved \in BOOLEAN /\ prompts \in 0..MaxPrompts
WorkTypes ==
    /\ children \in [Lanes -> [state : {"NONE", "WAITING", "EMITTED", "REVIEW_PENDING"},
                               gen : 0..MaxDispatch]]
    /\ dispatches \in [Lanes -> 0..MaxDispatch]
    /\ backend \in [Lanes -> {"RUNNING", "CONTINUE", "PASS"}]
OtherTypes ==
    /\ known \in 0..MaxRevisions /\ contract \in 0..MaxRevisions /\ readOnly \in BOOLEAN
    /\ helpers \in [Helpers -> [state : {"NONE", "REQUEST_PENDING", "WAITING", "EMITTED"},
                                file : {"", "READY", "DONE"}, done : BOOLEAN]]
    /\ delivery \in [kind : {"NONE", "QUERY", "PASS", "ERROR"},
                     state : {"NONE", "PENDING", "CLAIMED", "DELIVERED", "CONSUMED"},
                     cleaned : BOOLEAN]
    /\ slot \in SlotKinds
TypeOK == CellTypes /\ InboxTypes /\ SuccessionTypes /\ WorkTypes /\ OtherTypes

\* Events and turns never disagree, whatever rotations, endings and late
\* browser reports come between: the claimed events are exactly those of the
\* active doorbell, and the open turn answers that doorbell.
ClaimedIsRung ==
    /\ {e \in Events : events[e] = "CLAIMED"} = doorbell.events
    /\ turn = doorbell

\* At every moment exactly one generation may answer: the Planner is fenced
\* just while its successor is being created, the open doorbell is for the
\* generation that will hold the authority, and a rotation under way has its
\* request in the control slot.
OneOwner ==
    enabled =>
      /\ authority.fenced <=> successor = "REQUESTED"
      /\ doorbell # NoBell => doorbell.gen = authority.gen + IF authority.fenced THEN 1 ELSE 0
      /\ slot = "BOOTSTRAP" <=> successor = "REQUESTED"
      /\ slot = "PROMOTE" <=> successor = "PROMOTED" /\ ~promoted

\* An open turn has been asked for: its prompt is on its way in the control
\* slot, or its response has started and the watchdog guards it.
OpenTurnIsAsked ==
    turn # NoBell =>
      /\ pending # "NONE"
      /\ pending = "DELIVERY_PENDING" => slot \in {"PROMPT", "BOOTSTRAP"}

\* No lost wake-up: a Planner parked for a result or a Helper has something
\* that will wake it, a running child, a Helper at work, an event or a turn.
ParkedHasWake ==
    activity = "PARKED_WAIT_EVENT" /\ wait \in {"WAIT_RESULT", "WAIT_HELPER"} =>
      \/ \E l \in Lanes : children[l].state = "WAITING"
      \/ \E h \in Helpers : helpers[h].state \in {"REQUEST_PENDING", "WAITING"}
      \/ Pending # {} \/ turn # NoBell

\* Until the task ends no event is lost or goes back, not even when the
\* Planner is replaced in the middle of its turn, and an event is consumed
\* only by a committed turn whose doorbell named it.
Stage(state) ==
    CASE state = "ABSENT" -> 0 [] state = "PENDING" -> 1
      [] state = "CLAIMED" -> 2 [] state = "CONSUMED" -> 3
EventKept(e) ==
    /\ Stage(events[e]) <= Stage(events'[e])
    /\ events'[e] = "CONSUMED" /\ events[e] # "CONSUMED" =>
         e \in turn.events /\ paper.signal \in Outcomes
EventsKept == [][closed' \/ \A e \in Events : EventKept(e)]_vars

\* The generation that answers, or will when its conversation exists.
Answering == authority.gen + IF authority.fenced THEN 1 ELSE 0

Inbox == INSTANCE EventInbox WITH
    state <- events, answer <- paper.signal, gen <- Answering

\* Whatever prompts are replayed, generations replaced and tasks ended in between,
\* the cell keeps the promises of EventInbox: turns follow one another, each with
\* the events it was opened for, a replaced Planner's events go to its successor
\* with everything that waits, and only an outcome for them consumes events.
ImplementsEventInbox == Inbox!Spec

\* Every event gets a turn, however rotations, checkpoints and the other users
\* of the control slot interleave, unless the task ends, the user is being
\* asked or the browser replaced the conversation in the middle of a rotation.
EventsReachPlanner ==
    \A e \in Events :
      events[e] = "PENDING" ~>
        \/ events[e] # "PENDING" \/ closed \/ moved
        \/ activity = "WAIT_USER" /\ e \notin Intents

\* A rotation that has begun ends, with the same exception.
RotationCompletes == successor # "NONE" ~> successor = "NONE" \/ moved

\* A child stopped at its checkpoint goes on only after a turn whose doorbell
\* named its checkpoint event.
ReviewedBeforeContinuing ==
    [][\A l \in Lanes :
         children[l].state = "REVIEW_PENDING" /\ children'[l].state = "WAITING" =>
           events'[WorkerResult(l, dispatches[l])] = "CONSUMED"]_vars

\* The end of the task, success or terminal error, is delivered: as long as it
\* waits for that, the task stays where the delivery looks for it.
EndIsDeliverable ==
    delivery.kind \in {"PASS", "ERROR"} /\ delivery.state = "PENDING" =>
        activity \in {"WAIT_USER", "CLEANING", "DONE", "ERROR"}

=============================================================================
