---------------------------- MODULE RequestDrain ----------------------------
(***************************************************************************)
(* The durable control requests (harness/request_scan.py, request_drain.py,*)
(* semantic_finalize.py, local_bridge/local_dispatch.py).  Request files on*)
(* the canonical branch ask to wake a Worker or to project a result into   *)
(* the command lists.  The Bridge serves them page by page from its        *)
(* confirmed snapshot; drains started by hand serve them with receipts.    *)
(* Every write is a transaction: computed on a fetched head, refused when  *)
(* the branch moved, and repeated on a fresh one when its outcome is       *)
(* unknown.                                                                *)
(***************************************************************************)
EXTENDS Naturals, FiniteSets

CONSTANTS
    Ledger,        \* the requests that may be written, see LedgerEntries
    Drains,        \* runs of drain(), started by hand
    Asked,         \* Asked[d]: the kinds of request the run d serves
    Bridge,        \* the local consumer
    Attempts,      \* the attempts of a transaction
    MaxUpsets      \* bound: drains, unanswered pushes and emits, crashes, and
                   \* moves of the task, its owner and its lane

LedgerEntries == [file : {"wake", "analysis", "other"}, kind : {"wake", "finalize"},
                  gen : Nat, body : {"PASS", "BLOCKED", "incomplete", "unreadable"}]

ASSUME DrainAssumption ==
    /\ Ledger \subseteq LedgerEntries
    /\ Bridge \notin Drains
    /\ Asked \in [Drains -> SUBSET {"wake", "finalize"}]
    /\ Attempts \in Nat \ {0} /\ MaxUpsets \in Nat

VARIABLES
    canon,     \* the canonical branch: request files, receipts, the task
    view,      \* the snapshot the page of the Bridge works on
    discovery, \* the discovery memory of the Bridge, lost with it
    consumer,  \* consumer[c]: what the Bridge or a drain is doing
    resting,   \* requests with a retry time ahead, in a receipt or in memory
    queued,    \* requests whose wake is in the wake store
    upsets

drainVars == <<canon, view, discovery, consumer, resting, queued, upsets>>

Consumers == Drains \cup {Bridge}
Files == {r.file : r \in Ledger}
Blank == [file |-> "other", kind |-> "wake", gen |-> 0, body |-> "unreadable"]

FinalPhases == {"DONE", "SUPERSEDED", "REJECTED"}
HeldPhases  == {"NEEDS_RECONCILE"}
ReceiptPhases == FinalPhases \cup HeldPhases \cup {"none", "CLAIMED", "UNKNOWN", "WAIT_VALID_RESULT"}
TaskStates == {"READY", "RUNNING", "WAIT_RESULT", "DONE", "BLOCKED"}

\* result: the analysis file and outcome the command lists point to; active:
\* the task is the active one; paused: its owner waits or stopped; lane: its
\* lane is enabled.
Tasks == [gen : Nat, state : TaskStates, result : Files \cup {"none"},
          active : BOOLEAN, paused : BOOLEAN, lane : BOOLEAN]
Heads == [at : [Files -> Ledger \cup {Blank}],
          receipt : [Ledger -> [phase : ReceiptPhases, wake : BOOLEAN]],
          task : Tasks]

\* todo: selected, not yet served; batch: the requests of the transaction;
\* fresh: nothing was pushed since it fetched; claimed, unsent: wakes to emit
\* and those whose emit failed; closing: it is the transaction that finishes.
Work == [at : {"idle", "next", "fetch", "push", "emit", "over"}, todo : SUBSET Ledger,
         batch : SUBSET Ledger, fresh : BOOLEAN, tries : 0..Attempts,
         claimed : SUBSET Ledger, sent : SUBSET Ledger, unsent : SUBSET Ledger,
         closing : BOOLEAN]

DrainTypeOK ==
    /\ canon \in Heads
    /\ view \in Heads
    /\ discovery \in [last : [Files -> Ledger \cup {Blank}],
                      blocked : BOOLEAN,
                      pending : SUBSET Ledger, tried : SUBSET Ledger]
    /\ consumer \in [Consumers -> Work]
    /\ resting \subseteq Ledger
    /\ queued \subseteq Ledger
    /\ upsets \in 0..MaxUpsets

NoWork == [at |-> "idle", todo |-> {}, batch |-> {}, fresh |-> FALSE, tries |-> 0,
           claimed |-> {}, sent |-> {}, unsent |-> {}, closing |-> FALSE]
NoMemory == [last |-> [f \in Files |-> Blank],
             blocked |-> FALSE, pending |-> {}, tried |-> {}]
StartHead ==
    [at |-> [f \in Files |-> Blank],
     receipt |-> [r \in Ledger |-> [phase |-> "none", wake |-> FALSE]],
     task |-> [gen |-> 1, state |-> "READY", result |-> "none",
               active |-> TRUE, paused |-> FALSE, lane |-> TRUE]]

DrainInit ==
    /\ canon = StartHead
    /\ view = StartHead
    /\ discovery = NoMemory
    /\ consumer = [c \in Consumers |-> NoWork]
    /\ resting = {} /\ queued = {}
    /\ upsets = 0

Upset == upsets < MaxUpsets /\ upsets' = upsets + 1

-----------------------------------------------------------------------------
\* What a request asks for on the head h.

Presented(h, r) == h.at[r.file] = r
Final(h, r) == h.receipt[r].phase \in FinalPhases
HeldBack(h, r) == h.receipt[r].phase \in HeldPhases

\* The request is of another dispatch than the task's.
OtherDispatch(h, r) == r.gen # h.task.gen

\* wake_decision, the drain with guarded = FALSE: it does not read the owner's
\* Task Cell.  "raises": the topology refuses the wake.
WakeDecision(h, r, guarded) ==
    IF r.body = "unreadable" THEN "REJECTED"
    ELSE IF OtherDispatch(h, r) THEN "SUPERSEDED"
    ELSE IF h.task.state \in {"RUNNING", "DONE"} THEN "DONE"
    ELSE IF h.task.state # "READY" THEN "SUPERSEDED"
    ELSE IF ~h.task.lane THEN "raises"
    ELSE IF guarded /\ h.task.paused THEN "DEFERRED"
    ELSE "CLAIMED"

Outcome(r) == IF r.body = "BLOCKED" THEN "BLOCKED" ELSE "DONE"
AlreadyProjected(h, r) == h.task.state = Outcome(r) /\ h.task.result = r.file
\* A PASS must come with its evidence and the capture it rests on.
Incomplete(r) == r.body = "incomplete"

\* Mutant of FinalizeDecision: the generation of the result is not compared.
FinalizeAnyGeneration(h, r) ==
    IF r.body = "unreadable" THEN "REJECTED"
    ELSE IF AlreadyProjected(h, r) THEN "DONE"
    ELSE IF ~h.task.active THEN "SUPERSEDED"
    ELSE IF h.task.state \notin {"READY", "RUNNING"} THEN "WAIT_VALID_RESULT"
    ELSE IF Incomplete(r) THEN "REJECTED"
    ELSE "project"

\* finalize: the phase its receipt gets; "project" writes the command lists.
FinalizeDecision(h, r) ==
    IF r.body = "unreadable" THEN "REJECTED"
    ELSE IF OtherDispatch(h, r) THEN "SUPERSEDED"
    ELSE IF AlreadyProjected(h, r) THEN "DONE"
    ELSE IF ~h.task.active THEN "SUPERSEDED"
    ELSE IF h.task.state \notin {"READY", "RUNNING"} THEN "WAIT_VALID_RESULT"
    ELSE IF Incomplete(r) THEN "REJECTED"
    ELSE "project"

\* prepare leaves the receipt of r alone.
Untouched(h, r) == Final(h, r) \/ HeldBack(h, r) \/ r \in resting \/ ~Presented(h, r)

Receipt(h, r) ==
    LET d == IF r.kind = "wake" THEN WakeDecision(h, r, FALSE) ELSE FinalizeDecision(h, r)
        phase == IF d = "raises" THEN "NEEDS_RECONCILE" ELSE IF d = "project" THEN "DONE" ELSE d
    IN  [phase |-> phase, wake |-> d = "CLAIMED"]

Projected(task, r) ==
    [task EXCEPT !.state = Outcome(r),
                 !.result = r.file,
                 !.active = r.body = "BLOCKED"]

\* The head after the transaction of c on h: receipts, and with them the
\* projection; finish records what the emits of the batch came to.
Prepared(h, c) ==
    LET todo == {r \in consumer[c].batch : ~Untouched(h, r)}
        done == {r \in todo : r.kind = "finalize" /\ FinalizeDecision(h, r) = "project"}
    IN  [h EXCEPT !.receipt = [r \in Ledger |-> IF r \in todo THEN Receipt(h, r) ELSE h.receipt[r]],
                  !.task = IF done = {} THEN @ ELSE Projected(@, CHOOSE r \in done : TRUE)]

\* Mutant of Finished: an emit that failed counts as sent.
FinishedUnsent(h, c) ==
    LET todo == {r \in consumer[c].claimed : ~Final(h, r)}
    IN  [h EXCEPT !.receipt = [r \in Ledger |->
            IF r \in todo THEN [h.receipt[r] EXCEPT !.phase = "DONE"] ELSE h.receipt[r]]]

Finished(h, c) ==
    LET todo == {r \in consumer[c].claimed : ~Final(h, r)}
    IN  [h EXCEPT !.receipt = [r \in Ledger |->
            IF r \in todo
            THEN [h.receipt[r] EXCEPT !.phase = IF r \in consumer[c].unsent THEN "UNKNOWN" ELSE "DONE"]
            ELSE h.receipt[r]]]

After(h, c) == IF consumer[c].closing THEN Finished(h, c) ELSE Prepared(h, c)

\* attempts and updated_at differ, so a receipt that is written is a new commit.
Commits(h, c) ==
    IF consumer[c].closing
    THEN \E r \in consumer[c].claimed : ~Final(h, r)
    ELSE \E r \in consumer[c].batch : ~Untouched(h, r)

\* finish refuses a receipt that no longer holds the wake that was claimed.
Refuses(h, c) == consumer[c].closing /\ \E r \in consumer[c].claimed : ~h.receipt[r].wake

\* The receipts a commit writes with a retry time.
Rests(h) == {r \in Ledger : h.receipt[r].phase \in {"NEEDS_RECONCILE", "WAIT_VALID_RESULT", "UNKNOWN"}
                             /\ canon.receipt[r] # h.receipt[r]}

-----------------------------------------------------------------------------
\* Transactions, of the Bridge and of the drains.

Does(c, w) == consumer' = [consumer EXCEPT ![c] = w]

\* Somebody pushes h: the transactions fetched before are refused.
Pushed(h) ==
    /\ canon' = h
    /\ resting' = resting \cup Rests(h)
Stale(c) == [consumer[c] EXCEPT !.fresh = FALSE]
Lands(h, c, w) == Pushed(h) /\ consumer' = [x \in Consumers |-> IF x = c THEN w ELSE Stale(x)]
Others(h) ==
    /\ canon' = h
    /\ consumer' = [x \in Consumers |-> Stale(x)]
    /\ UNCHANGED <<view, discovery, resting, queued>>

\* The work of c once only todo is left of it.  A drain serves all its wakes in
\* one batch, then each finalizer in a batch of its own.
LeftWith(c, todo) ==
    LET wakes == {r \in todo : r.kind = "wake"}
        batch == IF wakes # {} THEN wakes ELSE {CHOOSE r \in todo : TRUE}
    IN  IF todo = {} THEN [NoWork EXCEPT !.at = IF c = Bridge THEN "idle" ELSE "over"]
        ELSE IF c = Bridge THEN [NoWork EXCEPT !.at = "next", !.todo = todo]
        ELSE [NoWork EXCEPT !.at = "fetch", !.batch = batch, !.todo = todo \ batch]
NextItem(c) == LeftWith(c, consumer[c].todo)

\* prepare returned h to a drain: emit what is claimed there.
DrainGoesOn(d, h) ==
    LET w == consumer[d]
        claimed == {r \in w.batch : Presented(h, r) /\ h.receipt[r].phase = "CLAIMED"}
    IN  IF w.closing \/ claimed = {} THEN NextItem(d)
        ELSE [w EXCEPT !.at = "emit", !.claimed = claimed]

\* The page of the Bridge goes on with the snapshot h, while entries are left
\* that read it; the next page reads the branch.
Sees(h) == view' = IF consumer'[Bridge].todo = {} THEN StartHead ELSE h

\* Mutant of Forget: nothing tells the next page that a request was held.
ForgetQuietly(r, hold) ==
    [discovery EXCEPT !.pending = @ \ {r}, !.tried = @ \ {r}]

\* The Bridge forgets r, or keeps it for a retry.
Forget(r, hold) ==
    [discovery EXCEPT !.pending = @ \ {r}, !.tried = @ \ {r}, !.blocked = @ \/ hold]
Retry(r) == [discovery EXCEPT !.tried = @ \cup {r}]

\* prepare returned h to the Bridge: its snapshot is h from now on.
BridgeLearns(h, r) ==
    /\ Sees(h)
    /\ LET gone == ~Presented(h, r) \/ Final(h, r)
       IN  discovery' = IF gone \/ HeldBack(h, r) THEN Forget(r, ~gone) ELSE Retry(r)

Fetch(c) ==
    /\ consumer[c].at = "fetch"
    /\ IF Refuses(canon, c)
       THEN Does(c, NextItem(c)) /\ UNCHANGED <<view, discovery>>
       ELSE IF Commits(canon, c)
       THEN /\ Does(c, [consumer[c] EXCEPT !.at = "push", !.fresh = TRUE, !.tries = @ + 1])
            /\ UNCHANGED <<view, discovery>>
       ELSE IF c = Bridge
       THEN /\ Does(c, NextItem(c))
            /\ \E r \in consumer[c].batch : BridgeLearns(canon, r)
       ELSE Does(c, DrainGoesOn(c, canon)) /\ UNCHANGED <<view, discovery>>
    /\ UNCHANGED <<canon, resting, queued, upsets>>

PushLands(c) ==
    /\ consumer[c].at = "push" /\ consumer[c].fresh
    /\ LET h == After(canon, c) IN
       IF c = Bridge
       THEN /\ Lands(h, c, NextItem(c))
            /\ \E r \in consumer[c].batch : BridgeLearns(h, r)
       ELSE Lands(h, c, DrainGoesOn(c, h)) /\ UNCHANGED <<view, discovery>>
    /\ UNCHANGED <<queued, upsets>>

\* After the last attempt the transaction raises.  A drain reports the batch;
\* the Bridge keeps the request, drops the page and reads the branch again.
Refetch(c) == [consumer[c] EXCEPT !.at = "fetch", !.fresh = FALSE]
LastTry(c) == consumer[c].tries = Attempts
RaisedTo(c) == IF c = Bridge THEN NoWork ELSE NextItem(c)
BridgeRaises(h) ==
    /\ Sees(h)
    /\ discovery' = [discovery EXCEPT !.tried = @ \cup consumer[Bridge].batch]
    /\ resting' = resting \cup consumer[Bridge].batch \cup Rests(h)

PushRefused(c) ==
    /\ consumer[c].at = "push" /\ ~consumer[c].fresh
    /\ Does(c, IF LastTry(c) THEN RaisedTo(c) ELSE Refetch(c))
    /\ IF LastTry(c) /\ c = Bridge THEN BridgeRaises(canon)
       ELSE UNCHANGED <<view, discovery, resting>>
    /\ UNCHANGED <<canon, queued, upsets>>

\* The push is not answered in time: it may have landed.
PushUnknown(c) ==
    /\ consumer[c].at = "push" /\ consumer[c].fresh
    /\ Upset
    /\ \E h \in {canon, After(canon, c)} :
         /\ canon' = h
         /\ consumer' = [x \in Consumers |->
               IF x # c THEN [consumer[x] EXCEPT !.fresh = @ /\ h = canon]
               ELSE IF LastTry(c) THEN RaisedTo(c) ELSE Refetch(c)]
         /\ IF LastTry(c) /\ c = Bridge THEN BridgeRaises(h)
            ELSE resting' = resting \cup Rests(h) /\ UNCHANGED <<view, discovery>>
    /\ UNCHANGED queued

-----------------------------------------------------------------------------
\* drain(): one run, started by hand.

StartDrain(d) ==
    /\ consumer[d].at = "idle"
    /\ Upset
    /\ Does(d, LeftWith(d, {r \in Ledger : r.kind \in Asked[d] /\ ~Untouched(canon, r)}))
    /\ UNCHANGED <<canon, view, discovery, resting, queued>>

Sent(d, r) ==
    LET w == [consumer[d] EXCEPT !.sent = @ \cup {r}]
    IN  IF w.sent = w.claimed THEN [w EXCEPT !.at = "fetch", !.closing = TRUE, !.tries = 0] ELSE w

Emit(d, r) ==
    /\ consumer[d].at = "emit" /\ r \in consumer[d].claimed \ consumer[d].sent
    /\ queued' = queued \cup {r}
    /\ Does(d, Sent(d, r))
    /\ UNCHANGED <<canon, view, discovery, resting, upsets>>

EmitFails(d, r) ==
    /\ consumer[d].at = "emit" /\ r \in consumer[d].claimed \ consumer[d].sent
    /\ Upset
    /\ queued' \in {queued, queued \cup {r}}
    /\ Does(d, [Sent(d, r) EXCEPT !.unsent = @ \cup {r}])
    /\ UNCHANGED <<canon, view, discovery, resting>>

DrainStops(d) ==
    /\ consumer[d].at \notin {"idle", "over"}
    /\ Upset
    /\ Does(d, LeftWith(d, {}))
    /\ UNCHANGED <<canon, view, discovery, resting, queued>>

-----------------------------------------------------------------------------
\* reconcile_local_dispatch(): pages of the Bridge.

\* What discover finds: everything on the first page, every five minutes
\* (recovery), and, once a request was held back, at every new snapshot (a scan
\* of the old one finds nothing else); otherwise what changed since.
Discovered(recovery) ==
    {r \in Ledger : /\ Presented(canon, r)
                    /\ recovery \/ discovery.blocked \/ discovery.last[r.file] # r}

\* Read the branch and take up what has no final or held receipt; of requests
\* in one file the one that is there.
Page(recovery) ==
    /\ consumer[Bridge].at = "idle"
    /\ LET seen == Discovered(recovery)
           open == {r \in seen \cup discovery.pending : ~Final(canon, r) /\ ~HeldBack(canon, r)}
           known == {q \in open : \A r \in open \cap seen : r.file = q.file => r = q}
           held == \E r \in seen \cup discovery.pending : HeldBack(canon, r)
       IN  /\ discovery' = [discovery EXCEPT
                 !.last = canon.at,
                 !.blocked = @ \/ held, !.pending = known, !.tried = @ \cap known]
           /\ Does(Bridge, LeftWith(Bridge, known \ resting))
           /\ Sees(canon)
    /\ UNCHANGED <<canon, resting, queued, upsets>>

\* Untried requests first, among equals finalizers before wakes.
Foremost ==
    LET todo == consumer[Bridge].todo
        fresh == todo \ discovery.tried
        row == IF fresh # {} THEN fresh ELSE todo
        finals == {r \in row : r.kind = "finalize"}
    IN  IF finals # {} THEN finals ELSE row

\* The page goes on without r.
Served(r) == Does(Bridge, LeftWith(Bridge, consumer[Bridge].todo \ {r})) /\ Sees(view)

BridgePasses(r) ==
    /\ consumer[Bridge].at = "next" /\ r \in Foremost
    /\ LET d == WakeDecision(view, r, TRUE) IN
       /\ \/ ~Presented(view, r) /\ discovery' = Forget(r, FALSE) /\ UNCHANGED resting
          \/ /\ Presented(view, r) /\ r.kind = "wake" /\ d \in FinalPhases \cup {"DEFERRED"}
             /\ discovery' = Forget(r, d = "DEFERRED")
             /\ UNCHANGED resting
          \/ /\ Presented(view, r) /\ r.kind = "wake" /\ d = "raises"
             /\ discovery' = Retry(r)
             /\ resting' = resting \cup {r}
       /\ Served(r)
    /\ UNCHANGED <<canon, queued, upsets>>

BridgeWakes(r) ==
    /\ consumer[Bridge].at = "next" /\ r \in Foremost
    /\ r.kind = "wake" /\ Presented(view, r) /\ WakeDecision(view, r, TRUE) = "CLAIMED"
    /\ \/ /\ queued' = queued \cup {r}
          /\ discovery' = Forget(r, FALSE)
          /\ UNCHANGED <<resting, upsets>>
       \/ /\ Upset
          /\ queued' \in {queued, queued \cup {r}}
          /\ discovery' = Retry(r)
          /\ resting' = resting \cup {r}
    /\ Served(r)
    /\ UNCHANGED canon

BridgeFinalizes(r) ==
    /\ consumer[Bridge].at = "next" /\ r \in Foremost
    /\ r.kind = "finalize" /\ Presented(view, r)
    /\ discovery' = Retry(r)
    /\ Does(Bridge, [NoWork EXCEPT !.at = "fetch", !.batch = {r},
                     !.todo = consumer[Bridge].todo \ {r}])
    /\ Sees(view)
    /\ UNCHANGED <<canon, resting, queued, upsets>>

BridgeRestarts ==
    /\ Upset
    /\ Does(Bridge, NoWork)
    /\ Sees(view)
    /\ discovery' = NoMemory
    /\ UNCHANGED <<canon, resting, queued>>

Elapse ==
    /\ resting # {}
    /\ resting' = {}
    /\ UNCHANGED <<canon, view, discovery, consumer, queued, upsets>>

-----------------------------------------------------------------------------
\* The other writers of the branch.

WriteRequest(r) ==
    /\ canon.at[r.file].gen < r.gen /\ r.gen <= canon.task.gen
    /\ Others([canon EXCEPT !.at[r.file] = r])
    /\ UNCHANGED <<upsets>>

Becomes(t) == Others([canon EXCEPT !.task = t])
NextDispatch(t) == [t EXCEPT !.gen = @ + 1, !.state = "READY", !.active = TRUE]

\* The capture is there or the dispatch is replaced; a Worker is admitted; the
\* owner pauses or goes on; the topology disables or enables the lane.
TaskMoves ==
    /\ Upset
    /\ LET t == canon.task IN
       \/ t.state \in {"WAIT_RESULT", "READY", "RUNNING"} /\ Becomes(NextDispatch(t))
       \/ t.state = "READY" /\ Becomes([t EXCEPT !.state = "RUNNING"])
       \/ t.state \in {"READY", "RUNNING"} /\ Becomes([t EXCEPT !.state = "WAIT_RESULT"])
       \/ Becomes([t EXCEPT !.paused = ~@])
       \/ Becomes([t EXCEPT !.lane = ~@])

\* Somebody reconciles a request that was held.
Release(r) ==
    /\ Upset
    /\ HeldBack(canon, r)
    /\ Others([canon EXCEPT !.receipt[r] = [phase |-> "none", wake |-> FALSE]])

BridgeServes ==
    \/ Page(FALSE)
    \/ \E r \in Ledger : BridgePasses(r) \/ BridgeWakes(r) \/ BridgeFinalizes(r)
    \/ Fetch(Bridge)
    \/ PushLands(Bridge)
    \/ PushRefused(Bridge)

DrainServes(d) ==
    \/ Fetch(d)
    \/ PushLands(d)
    \/ PushRefused(d)
    \/ \E r \in Ledger : Emit(d, r) \/ EmitFails(d, r)
    \/ DrainStops(d)

DrainNext ==
    \/ BridgeServes
    \/ Page(TRUE)
    \/ \E d \in Drains : StartDrain(d) \/ DrainServes(d)
    \/ \E c \in Consumers : PushUnknown(c)
    \/ BridgeRestarts
    \/ Elapse
    \/ \E r \in Ledger : WriteRequest(r) \/ Release(r)
    \/ TaskMoves

DrainSpec == DrainInit /\ [][DrainNext]_drainVars

-----------------------------------------------------------------------------
\* A receipt that says DONE is true: the wake it claimed is in the wake store,
\* or the command lists carry the outcome it stands for, whatever was retried,
\* crashed or answered late in between (process: receipt and projection are
\* one commit; finish: DONE only when the emit was acknowledged).
DoneIsTrue ==
    \A r \in Ledger : canon.receipt[r].phase = "DONE" =>
        IF r.kind = "wake" THEN canon.receipt[r].wake => r \in queued
        ELSE r.gen = canon.task.gen =>
               /\ canon.task.result = r.file
               /\ canon.task.state = (IF r.body = "BLOCKED" THEN "BLOCKED" ELSE "DONE")

\* A final receipt is never rewritten, and a projection is written once: with
\* the receipt of the request it serves, for the dispatch that is current
\* (transaction: nothing computed on an older head is pushed).
FinalSticks ==
    [][/\ \A r \in Ledger : Final(canon, r) => canon'.receipt[r] = canon.receipt[r]
       /\ canon'.task.result # canon.task.result =>
            /\ canon.task.result = "none"
            /\ \E r \in Ledger : /\ r.file = canon'.task.result /\ r.gen = canon.task.gen
                                  /\ ~Final(canon, r) /\ canon'.receipt[r].phase = "DONE"
      ]_drainVars

\* The request asks for something the task is ready for, and nobody has said no.
Unanswered(r) ==
    /\ Presented(canon, r) /\ ~Final(canon, r) /\ ~HeldBack(canon, r)
    /\ IF r.kind = "wake" THEN WakeDecision(canon, r, TRUE) = "CLAIMED" /\ r \notin queued
       ELSE FinalizeDecision(canon, r) = "project"

\* A request that can be served is served while it stays so: a missed event, a
\* pause that ended, a hold that was released, a crash, a lost answer or a bad
\* neighbour only delay it, and the recovery scan is not needed for it
\* (DURABLE_CONTROL_REQUESTS.md: one bad request must not starve neighbours).
RequestsAnswered == \A r \in Ledger : []<>~Unanswered(r)
=============================================================================
