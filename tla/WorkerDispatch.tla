---------------------------- MODULE WorkerDispatch ----------------------------
(***************************************************************************)
(* The dispatches of the managed Worker children of one parent task on one *)
(* lane (local_bridge/server.py dispatch_accept, local_bridge/scheduler.py,*)
(* planner_runtime.py _continue_worker_child, harness/dispatch.py).  The   *)
(* branch head is canonical.  A Bridge call fetches it under the Git lock, *)
(* decides, and pushes a commit whose parent is what it fetched.  The push *)
(* is accepted only if no other writer moved the head meanwhile, so a call *)
(* that has an effect has it in one step; a refused push has none.  But the*)
(* reply of an accepted push may be lost, or the Bridge stop, and the call *)
(* fetches and decides again, up to three times: as it keeps nothing but   *)
(* the identity it was given, an attempt is modelled as a call of its own, *)
(* and every call may come again at any time.                              *)
(***************************************************************************)
EXTENDS Naturals, Sequences, FiniteSets

CONSTANTS
    MaxChild,    \* bound: children the Planner creates
    MaxGen,      \* bound: dispatches issued in a behaviour, generations of all children
    MaxStarts,   \* bound: responses that start
    Reports,     \* the result statuses Workers report
    NoWorker     \* no Worker reference

Children == 1..MaxChild
Gens == 1..MaxGen

\* A Worker reference: "wake" is derived from the wake of that generation,
\* "handoff" is the fresh successor of a context-compaction handoff.
Refs == Children \X Gens \X {"wake", "handoff"}
WakeRef(c, g) == <<c, g, "wake">>
SuccessorRef(c, g) == <<c, g, "handoff">>

\* What a call names: the Worker, the child, and the generation for the
\* dispatch id, generation and fence token, which are all fresh per generation.
Ids == Refs \X Children \X Gens

ASSUME WorkerDispatchAssumption ==
    /\ MaxChild \in Nat /\ MaxGen \in Nat /\ MaxStarts \in Nat
    /\ Reports \subseteq {"PASS", "CONTINUE", "BLOCKED", "ERROR"}
    /\ NoWorker \notin Refs

VARIABLES
    \* The head of the branch.
    dispatch,    \* dispatch[c]: the dispatch block and result files of child c
    owner,       \* last_pool_takeover_id of the lineage of parent and lane
    rollover,    \* its worker_rollover_request with the packet's identity
    owned,       \* the child in the parent's owned_children for this lane, or 0
    direction,   \* what the committed Planner turn wants for this lane
    reply,       \* reply[c]: the generations whose entry is in the Child Reply
    \* The Host.
    started,     \* the responses that have started, by identity
    current,     \* the Host's current Worker of the lineage
    \* History.
    admitted,    \* the identities whose admission is on the branch
    late         \* those admitted for a child the Planner had let go

head == <<dispatch, owner, rollover, owned, direction, reply>>
vars == <<dispatch, owner, rollover, owned, direction, reply, started, current,
          admitted, late>>

States == {"NONE", "READY", "RUNNING", "WAIT_RESULT", "DONE", "BLOCKED", "ERROR"}
Statuses == Reports \cup {"none"}
Origins == {"none", "first", "planner", "handoff", "executor"}

Dispatches == [gen : 0..MaxGen, state : States, acked : Refs \cup {NoWorker},
               pred : Refs \cup {NoWorker}, origin : Origins,
               status : Statuses, entry : BOOLEAN]

NoDispatch == [gen |-> 0, state |-> "NONE", acked |-> NoWorker, pred |-> NoWorker,
               origin |-> "none", status |-> "none", entry |-> FALSE]

TypeOK ==
    /\ dispatch \in [Children -> Dispatches]
    /\ owner \in Refs \cup {NoWorker}
    /\ rollover \in Ids \cup {NoWorker}
    /\ owned \in Children \cup {0}
    /\ direction \in {"none", "direct", "retire"}
    /\ reply \in [Children -> Seq(Gens)]
    /\ started \subseteq Ids
    /\ current \in Refs \cup {NoWorker}
    /\ admitted \subseteq Ids /\ late \subseteq Ids

Init ==
    /\ dispatch = [c \in Children |-> NoDispatch]
    /\ owner = NoWorker /\ rollover = NoWorker /\ owned = 0 /\ direction = "none"
    /\ reply = [c \in Children |-> <<>>]
    /\ started = {} /\ current = NoWorker
    /\ admitted = {} /\ late = {}

\* The dispatches issued so far: the bound MaxGen leaves room for one more.
Issued == {d \in Children \X Gens : d[2] <= dispatch[d[1]].gen}
CanIssue == Cardinality(Issued) < MaxGen

Terminal(c) == dispatch[c].state \in {"DONE", "BLOCKED", "ERROR"}

\* A fresh READY dispatch: the result and reply entry files are fresh with it.
Fresh(c, pred, origin) ==
    [NoDispatch EXCEPT !.gen = dispatch[c].gen + 1, !.state = "READY",
                       !.pred = pred, !.origin = origin]

-----------------------------------------------------------------------------
(* What the calls decide on the head they fetched.                          *)

\* dispatch_accept may replace the lineage's owner for the first generation of
\* a child, or when the owner is the one the dispatch names as predecessor.
CanReplaceOwner(c, g) ==
    /\ dispatch[c].state = "READY" /\ dispatch[c].acked = NoWorker
    /\ g = 1 \/ dispatch[c].pred = owner

OwnerRefuses(ref, c, g) ==
    owner # NoWorker /\ owner # ref /\ ~CanReplaceOwner(c, g)

Exact(c, g) == dispatch[c].gen = g

\* Mutant: any state of the exact dispatch is admitted.
AcceptOpenInAnyState(ref, c, g) == ~OwnerRefuses(ref, c, g) /\ Exact(c, g)

\* Mutant: the dispatch id, generation and fence are not compared.
AcceptOpenInexact(ref, c, g) ==
    ~OwnerRefuses(ref, c, g) /\ dispatch[c].state = "READY"

AcceptOpen(ref, c, g) ==
    ~OwnerRefuses(ref, c, g) /\ Exact(c, g) /\ dispatch[c].state = "READY"

AcceptAlready(ref, c, g) ==
    ~OwnerRefuses(ref, c, g) /\ Exact(c, g) /\ dispatch[c].state # "READY"

\* stage_action_submit: the owner of a running dispatch schedules an executor.
ActionOpen(ref, c, g) ==
    /\ owner = ref /\ Exact(c, g)
    /\ dispatch[c].state = "RUNNING" /\ dispatch[c].acked = ref

\* complete_worker_handoff, for the packet of (ref, c, g): a later generation
\* means the handoff is already through.
HandoffOpen(ref, c, g) ==
    /\ Exact(c, g) /\ dispatch[c].state = "RUNNING"
    /\ owner # NoWorker /\ rollover = <<ref, c, g>> /\ CanIssue

\* Mutant: the state is not read again after an unknown push.
FinalizeOpenInAnyState(ref, c, g) ==
    /\ owner = ref /\ Exact(c, g)
    /\ dispatch[c].acked = ref
    /\ dispatch[c].status # "none"

\* reconcile_dispatch_liveness, response ended, then
\* _try_finalize_planner_worker_child: the exact result is there, and with PASS
\* or CONTINUE the Worker's reply entry.
FinalizeOpen(ref, c, g) ==
    /\ owner = ref /\ Exact(c, g)
    /\ dispatch[c].state = "RUNNING" /\ dispatch[c].acked = ref
    /\ dispatch[c].status # "none"
    /\ dispatch[c].status \in {"PASS", "CONTINUE"} => dispatch[c].entry

\* _consume_planner_turn: the committed turn directs the lane's child, a new
\* one when the lane has none, or lets it go.
Created == {c \in Children : dispatch[c].gen > 0}

TurnOpen ==
    \/ direction = "retire"
    \/ direction = "direct" /\ owned # 0 /\ CanIssue
    \/ direction = "direct" /\ owned = 0 /\ CanIssue /\ Created # Children

\* The tick continues a child whose turn ended with CONTINUE.
AdvanceOpen ==
    /\ owned # 0 /\ Terminal(owned) /\ dispatch[owned].status = "CONTINUE" /\ CanIssue

-----------------------------------------------------------------------------
(* What their commits change.                                               *)

\* Mutant: an existing lineage keeps its owner.
CommitAcceptKeepsOwner(ref, c) ==
    /\ dispatch' = [dispatch EXCEPT ![c].state = "RUNNING", ![c].acked = ref]
    /\ owner' = IF owner = NoWorker THEN ref ELSE owner
    /\ rollover' = NoWorker
    /\ admitted' = admitted \cup {<<ref, c, dispatch[c].gen>>}
    /\ late' = IF c = owned THEN late ELSE late \cup {<<ref, c, dispatch[c].gen>>}
    /\ UNCHANGED <<owned, direction, reply>>

CommitAccept(ref, c) ==
    /\ dispatch' = [dispatch EXCEPT ![c].state = "RUNNING", ![c].acked = ref]
    /\ owner' = ref
    /\ rollover' = NoWorker
    /\ admitted' = admitted \cup {<<ref, c, dispatch[c].gen>>}
    /\ late' = IF c = owned THEN late ELSE late \cup {<<ref, c, dispatch[c].gen>>}
    /\ UNCHANGED <<owned, direction, reply>>

CommitAction(c) ==
    /\ dispatch' = [dispatch EXCEPT ![c].state = "WAIT_RESULT"]
    /\ UNCHANGED <<owner, rollover, owned, direction, reply, admitted, late>>

CommitHandoff(c) ==
    /\ dispatch' = [dispatch EXCEPT ![c] = Fresh(c, dispatch[c].acked, "handoff")]
    /\ UNCHANGED <<owner, rollover, owned, direction, reply, admitted, late>>

\* Mutant: the Worker's CONTINUE is taken over as the state of the dispatch.
CommitFinalizeVerbatim(c) ==
    /\ dispatch' = [dispatch EXCEPT ![c].state = dispatch[c].status]
    /\ reply' = [reply EXCEPT ![c] = Append(@, dispatch[c].gen)]
    /\ UNCHANGED <<owner, rollover, owned, direction, admitted, late>>

CommitFinalize(c) ==
    /\ dispatch' = [dispatch EXCEPT ![c].state =
                      IF dispatch[c].status \in {"PASS", "CONTINUE"} THEN "DONE"
                                                             ELSE dispatch[c].status]
    /\ reply' = [reply EXCEPT ![c] = Append(@, dispatch[c].gen)]
    /\ UNCHANGED <<owner, rollover, owned, direction, admitted, late>>

\* _continue_worker_child, on the child's dispatch whatever its state.
Continue(c) ==
    dispatch' = [dispatch EXCEPT ![c] = Fresh(c, dispatch[c].acked, "planner")]

NewChild(c) ==
    /\ c \in Children \ Created /\ \A b \in Children \ Created : c <= b
    /\ dispatch' = [dispatch EXCEPT ![c] = Fresh(c, NoWorker, "first")]
    /\ owned' = c

CommitTurn ==
    /\ direction' = "none"
    /\ \/ direction = "retire" /\ owned' = 0 /\ UNCHANGED dispatch
       \/ direction = "direct" /\ owned # 0 /\ Continue(owned) /\ UNCHANGED owned
       \/ direction = "direct" /\ owned = 0 /\ \E c \in Children : NewChild(c)
    /\ UNCHANGED <<owner, rollover, reply, admitted, late>>

CommitAdvance ==
    /\ Continue(owned)
    /\ UNCHANGED <<owner, rollover, owned, direction, reply, admitted, late>>

-----------------------------------------------------------------------------
(* The calls: what they decide and commit, and what the Host learns of it.  *)

\* Mutant: a push without a confirmation is answered like a confirmed one.
AcceptUnconfirmed(ref, c, g) ==
    /\ AcceptOpen(ref, c, g)
    /\ CommitAccept(ref, c) \/ UNCHANGED <<head, admitted, late>>
    /\ current' = ref
    /\ UNCHANGED started

\* A Worker whose accept is answered ok becomes the Host's current one; a lost
\* reply leaves the Host as it was.
Accept(ref, c, g) ==
    /\ AcceptOpen(ref, c, g)
    /\ CommitAccept(ref, c)
    /\ current' \in {ref, current}
    /\ UNCHANGED started

AcceptAgain(ref, c, g) ==
    /\ AcceptAlready(ref, c, g)
    /\ current' = ref
    /\ UNCHANGED <<head, started, admitted, late>>

Submit(ref, c, g) ==
    ActionOpen(ref, c, g) /\ CommitAction(c) /\ UNCHANGED <<started, current>>

Finalize(ref, c, g) ==
    FinalizeOpen(ref, c, g) /\ CommitFinalize(c) /\ UNCHANGED <<started, current>>

Handoff(ref, c, g) ==
    HandoffOpen(ref, c, g) /\ CommitHandoff(c) /\ UNCHANGED <<started, current>>

ConsumeTurn == TurnOpen /\ CommitTurn /\ UNCHANGED <<started, current>>

Advance == AdvanceOpen /\ CommitAdvance /\ UNCHANGED <<started, current>>

\* The Host calls for the responses it sees, the tick for the parent task.
Call ==
    \/ \E id \in started :
          \/ Accept(id[1], id[2], id[3]) \/ AcceptAgain(id[1], id[2], id[3])
          \/ Submit(id[1], id[2], id[3]) \/ Finalize(id[1], id[2], id[3])
    \/ \E ref \in Refs, c \in Children, g \in Gens : Handoff(ref, c, g)
    \/ ConsumeTurn \/ Advance

-----------------------------------------------------------------------------
(* The Host's conversations, and everything that writes to the branch       *)
(* without the Bridge.                                                       *)

\* A wake of a READY dispatch is delivered, again and again if need be, and a
\* response starts: in a new conversation, or in the current one unless the
\* wake says replace_conversation.
StartResponse(c) ==
    /\ dispatch[c].state = "READY" /\ Cardinality(started) < MaxStarts
    /\ \E ref \in {WakeRef(c, dispatch[c].gen), SuccessorRef(c, dispatch[c].gen), current} \ {NoWorker} :
        /\ ref = current => dispatch[c].origin # "planner"
        /\ ref = SuccessorRef(c, dispatch[c].gen) => dispatch[c].origin = "handoff" \/ ref = current
        /\ started' = started \cup {<<ref, c, dispatch[c].gen>>}
    /\ UNCHANGED <<head, current, admitted, late>>

Elsewhere == UNCHANGED <<started, current, admitted, late>>

\* The Worker writes its reply entry and its result, in whatever order.
WorkerReports(c) ==
    /\ \E ref \in Refs : <<ref, c, dispatch[c].gen>> \in started
    /\ dispatch[c].state = "RUNNING"
    /\ \/ ~dispatch[c].entry /\ dispatch' = [dispatch EXCEPT ![c].entry = TRUE]
       \/ /\ dispatch[c].status = "none"
          /\ \E s \in Reports : dispatch' = [dispatch EXCEPT ![c].status = s]
    /\ Elsewhere
    /\ UNCHANGED <<owner, rollover, owned, direction, reply>>

\* The running Worker's context is compacted: packet and rollover request.
RequestRollover(c) ==
    /\ dispatch[c].state = "RUNNING" /\ rollover = NoWorker /\ owner = dispatch[c].acked
    /\ rollover' = <<owner, c, dispatch[c].gen>>
    /\ Elsewhere
    /\ UNCHANGED <<dispatch, owner, owned, direction, reply>>

\* continue_after_result, on a runner: the executor's result is in.
ExecutorContinues(c) ==
    /\ dispatch[c].state = "WAIT_RESULT" /\ CanIssue
    /\ dispatch' = [dispatch EXCEPT ![c] = Fresh(c, NoWorker, "executor")]
    /\ Elsewhere
    /\ UNCHANGED <<owner, rollover, owned, direction, reply>>

PlannerWrites ==
    /\ direction = "none"
    /\ \E d \in {"direct", "retire"} : (d = "retire" => owned # 0) /\ direction' = d
    /\ Elsewhere
    /\ UNCHANGED <<dispatch, owner, rollover, owned, reply>>

Next ==
    \/ Call
    \/ \E c \in Children : StartResponse(c) \/ WorkerReports(c) \/ RequestRollover(c)
                             \/ ExecutorContinues(c)
    \/ PlannerWrites

Spec == Init /\ [][Next]_vars

-----------------------------------------------------------------------------
(* Correctness.                                                             *)

\* A Worker is admitted to a dispatch only for a response that started for
\* exactly that dispatch: a late accept of an older generation admits nobody.
AdmissionEarned == admitted \subseteq started

\* The Host makes a Worker its current one and consumes the wake when an accept
\* is answered ok: then that Worker's admission is on the branch, whatever push
\* replies got lost.
CurrentWasAdmitted ==
    current # NoWorker => \E id \in admitted : id[1] = current

\* The Child Reply gets the entry of a generation once, and in order, although
\* finalize is repeated when the reply of its push was lost.
ReplyOnce ==
    \A c \in Children : \A i, j \in 1..Len(reply[c]) : i < j => reply[c][i] < reply[c][j]

\* The Worker of the lane's running child owns the lineage, so its actions and
\* its end are accepted; only a child that the Planner let go can take it over.
RunningChildOwnsLineage ==
    owned # 0 /\ dispatch[owned].state = "RUNNING" /\ owner # dispatch[owned].acked
        => \E id \in late : id[1] = owner

\* Every step is a step, or no step, of the life of a dispatch.
Phase(state) ==
    CASE state = "NONE" -> "none" [] state = "READY" -> "ready" [] state = "RUNNING" -> "running"
      [] state = "WAIT_RESULT" -> "parked" [] OTHER -> "ended"

Lifecycle == INSTANCE DispatchLifecycle WITH
    generation <- [c \in Children |-> dispatch[c].gen],
    phase <- [c \in Children |-> Phase(dispatch[c].state)],
    worker <- [c \in Children |-> dispatch[c].acked]

\* Generations of a child follow one another, each is admitted at most once, to
\* one Worker, and ends at most once.
ImplementsLifecycle == Lifecycle!Spec

\* What the docs say of a continuation: the response start of the replacement
\* conversation switches the owner, so the dispatch can be admitted to it.
ReplacementIsAdmissible ==
    owned # 0 /\ dispatch[owned].state = "READY" /\ dispatch[owned].origin = "planner"
        => ~OwnerRefuses(WakeRef(owned, dispatch[owned].gen), owned, dispatch[owned].gen)

=============================================================================
