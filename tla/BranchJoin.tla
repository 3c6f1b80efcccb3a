----------------------------- MODULE BranchJoin -----------------------------
(***************************************************************************)
(* The join of a parallel task (harness/parallel_branch_finalize.py): the  *)
(* Worker of each lane writes branch_result.json on its work branch, and a *)
(* runner or the Bridge finalizes the lane from it: it accepts the evidence*)
(* into the lane's backend CL and recomputes the parent's foreground CL.   *)
(* Results arrive in any order, are rewritten and finalized again, while   *)
(* the executor of a lane and the reducer write the same foreground CL.    *)
(***************************************************************************)
EXTENDS Naturals, FiniteSets

CONSTANTS
    Branches,       \* lanes of the parallel task
    MaxGeneration,  \* bound: dispatches of a lane
    MaxRevision     \* bound: contents the Worker of each lane writes to its result file

ASSUME BranchJoinAssumption == MaxGeneration \in Nat \ {0} /\ MaxRevision \in [Branches -> Nat]

VARIABLES
    backend,   \* backend[b]: the dispatch of the lane and the evidence accepted for it
    written,   \* written[b]: branch_result.json on the work branch
    parent,    \* the foreground CL: lanes, barrier, reducer, final acceptance, overall
    executing  \* lanes with an executor run in flight

joinVars == <<backend, written, parent, executing>>

Outcomes == {"PASS", "BLOCKED", "ERROR"}
ConditionOf == [PASS |-> "GREEN", BLOCKED |-> "BLOCKED", ERROR |-> "ERROR"]
DispatchOf  == [PASS |-> "DONE", BLOCKED |-> "BLOCKED", ERROR |-> "ERROR"]
Ended == {"DONE", "BLOCKED", "ERROR"}
Failed == {"ERROR", "BLOCKED"}

\* A condition of the foreground CL that branch aggregation and others write.
Shared == [state : {"WAIT", "READY", "GREEN"} \cup Failed, aggregate : BOOLEAN]

\* revision 0: no result file, or no evidence accepted.
JoinTypeOK ==
    /\ backend \in [Branches -> [generation : 1..MaxGeneration,
                                 state : {"RUNNING", "WAIT_RESULT"} \cup Ended,
                                 accepted : Nat]]
    /\ written \in [Branches -> [generation : 1..MaxGeneration, status : Outcomes,
                                 complete : BOOLEAN, revision : Nat]]
    /\ parent \in [lane : [Branches -> {"WAIT", "RUNNING", "GREEN"} \cup Failed],
                   barrier : {"WAIT", "GREEN"} \cup Failed,
                   reducer : Shared, final : Shared,
                   overall : {"RUNNING", "GREEN"} \cup Failed]
    /\ executing \subseteq Branches

JoinInit ==
    /\ backend = [b \in Branches |-> [generation |-> 1, state |-> "RUNNING", accepted |-> 0]]
    /\ written = [b \in Branches |-> [generation |-> 1, status |-> "ERROR",
                                      complete |-> TRUE, revision |-> 0]]
    /\ parent = [lane |-> [b \in Branches |-> "RUNNING"], barrier |-> "WAIT",
                 reducer |-> [state |-> "WAIT", aggregate |-> FALSE],
                 final |-> [state |-> "WAIT", aggregate |-> FALSE],
                 overall |-> "RUNNING"]
    /\ executing = {}

Worst(states) ==
    IF "ERROR" \in states THEN "ERROR" ELSE IF "BLOCKED" \in states THEN "BLOCKED" ELSE "none"

\* Mutant of Aggregate: lanes that wait are not counted.
AggregateReported(p) ==
    LET states == {p.lane[b] : b \in Branches}
    IN  IF Worst(states) # "none" THEN Worst(states)
        ELSE IF "GREEN" \in states /\ "RUNNING" \notin states THEN "PASS" ELSE "RUNNING"

\* What the lanes say together, whatever the order in which they ended.
Aggregate(p) ==
    LET states == {p.lane[b] : b \in Branches}
    IN  IF Worst(states) # "none" THEN Worst(states)
        ELSE IF states = {"GREEN"} THEN "PASS" ELSE "RUNNING"

Independent(c) == c.state \in Failed /\ ~c.aggregate

\* _project_branch_owned_downstream: only what aggregation owns may change.
ProjectReducer(c, of) ==
    IF Independent(c) THEN c
    ELSE IF of \in Failed THEN [state |-> of, aggregate |-> TRUE]
    ELSE IF of = "PASS"
         THEN IF c.state = "WAIT" \/ (c.aggregate /\ c.state \in Failed)
              THEN [state |-> "READY", aggregate |-> TRUE] ELSE c
    ELSE IF c.aggregate /\ c.state \in {"READY"} \cup Failed
         THEN [state |-> "WAIT", aggregate |-> TRUE] ELSE c

ProjectFinal(c, of) ==
    IF Independent(c) THEN c
    ELSE IF of \in Failed THEN [state |-> of, aggregate |-> TRUE]
    ELSE IF c.aggregate /\ c.state \in Failed
         THEN [state |-> "WAIT", aggregate |-> TRUE] ELSE c

\* recompute_parent_aggregate: the barrier, what depends on it, the verdict.
Recompute(p) ==
    LET of      == Aggregate(p)
        others  == {c.state : c \in {d \in {p.reducer, p.final} : Independent(d)}}
        verdict == Worst({of} \cup others)
        final   == ProjectFinal(p.final, of)
    IN  [p EXCEPT !.barrier = IF of = "PASS" THEN "GREEN"
                              ELSE IF of = "RUNNING" THEN "WAIT" ELSE of,
                  !.reducer = ProjectReducer(@, of),
                  !.final = final,
                  !.overall = IF verdict # "none" THEN verdict
                              ELSE IF final.state = "GREEN" THEN "GREEN" ELSE "RUNNING"]

\* There is a result and it names the current dispatch (validate_identity).
Matches(result, b) == result.revision > 0 /\ result.generation = backend[b].generation

\* A PASS comes with its artifacts on the work branch (validate_pass_contract).
Contracted(result) == result.status = "PASS" => result.complete

\* Mutant of Finalize: what was accepted is not compared.
FinalizeAgain(b) ==
    LET result == written[b] IN
    /\ Matches(result, b) /\ Contracted(result)
    /\ backend' = [backend EXCEPT ![b].state = DispatchOf[result.status],
                                  ![b].accepted = result.revision]
    /\ parent' = Recompute([parent EXCEPT !.lane[b] = ConditionOf[result.status]])
    /\ UNCHANGED <<written, executing>>

\* finalize_task: what was accepted is not accepted again with another content.
Finalize(b) ==
    LET result == written[b] IN
    /\ Matches(result, b) /\ Contracted(result)
    /\ backend[b].state \notin Ended
    /\ backend' = [backend EXCEPT ![b].state = DispatchOf[result.status],
                                  ![b].accepted = result.revision]
    /\ parent' = Recompute([parent EXCEPT !.lane[b] = ConditionOf[result.status]])
    /\ UNCHANGED <<written, executing>>

\* The Worker commits its result, for its dispatch or, late, for an older one.
WriteResult(b, generation, status, complete) ==
    /\ generation <= backend[b].generation
    /\ status # "PASS" => complete
    /\ written[b].revision < MaxRevision[b]
    /\ written' = [written EXCEPT ![b] = [generation |-> generation, status |-> status,
                                          complete |-> complete,
                                          revision |-> written[b].revision + 1]]
    /\ UNCHANGED <<backend, parent, executing>>

\* stage_action_submit: the Worker hands an action to the executor.
SubmitBranchAction(b) ==
    /\ backend[b].state = "RUNNING" /\ b \notin executing
    /\ backend[b].generation < MaxGeneration
    /\ backend' = [backend EXCEPT ![b].state = "WAIT_RESULT"]
    /\ parent' = [parent EXCEPT !.overall = "RUNNING"]
    /\ executing' = executing \cup {b}
    /\ UNCHANGED written

\* claim, execute and verify report on the lane; they do not ask whether its
\* dispatch still waits for them.
ReportBranch(b, state) ==
    /\ b \in executing
    /\ parent' = [parent EXCEPT !.lane[b] = state, !.overall = "RUNNING"]
    /\ UNCHANGED <<backend, written, executing>>

\* continue_after_result: the next generation, only for a waiting dispatch.
EndBranchExecution(b) ==
    /\ b \in executing
    /\ executing' = executing \ {b}
    /\ backend' = IF backend[b].state = "WAIT_RESULT"
                  THEN [backend EXCEPT ![b].generation = @ + 1, ![b].state = "RUNNING"]
                  ELSE backend
    /\ UNCHANGED <<written, parent>>

\* A failed lane is given a fresh dispatch; its backend CL starts again.
Redispatch(b) ==
    /\ backend[b].state \in Failed /\ b \notin executing
    /\ backend[b].generation < MaxGeneration
    /\ backend' = [backend EXCEPT ![b] = [generation |-> @.generation + 1,
                                          state |-> "RUNNING", accepted |-> 0]]
    /\ UNCHANGED <<written, parent, executing>>

\* The reducer passes once the barrier released it; it may fail before, and
\* then the failure is its own, not one of the branches.
ReducerEnds(state) ==
    /\ parent.reducer.state \in IF state \in Failed THEN {"WAIT", "READY"} ELSE {"READY"}
    /\ parent' = [parent EXCEPT !.reducer = [state |-> state, aggregate |-> FALSE],
                                !.overall = IF state \in Failed THEN state ELSE @]
    /\ UNCHANGED <<backend, written, executing>>

\* Foreground accepts what the reducer made, or rejects it.
FinalAcceptance(state) ==
    /\ parent.reducer.state = "GREEN" /\ parent.final.state = "WAIT"
    /\ parent' = [parent EXCEPT !.final = [state |-> state, aggregate |-> FALSE],
                                !.overall = state]
    /\ UNCHANGED <<backend, written, executing>>

JoinNext ==
    \/ \E b \in Branches :
         \/ Finalize(b)
         \/ \E g \in 1..MaxGeneration, s \in Outcomes, c \in BOOLEAN : WriteResult(b, g, s, c)
         \/ SubmitBranchAction(b)
         \/ \E s \in {"RUNNING", "WAIT"} : ReportBranch(b, s)
         \/ EndBranchExecution(b)
         \/ Redispatch(b)
    \/ \E s \in {"GREEN", "ERROR", "BLOCKED"} : ReducerEnds(s) \/ FinalAcceptance(s)

JoinSpec == JoinInit /\ [][JoinNext]_joinVars

-----------------------------------------------------------------------------
\* The foreground CL tells the truth about the lanes, although they end in any
\* order and executors and late results write meanwhile.  While the barrier is
\* GREEN, or the reducer released by it, every lane's dispatch is DONE with
\* accepted evidence (PARALLEL_STAGE1.md: a reducer becomes READY only after the
\* barrier is satisfied).  When every lane has ended and the CL shows it, the
\* verdict is that of the worst lane or of the reducer or the acceptance.  (An
\* executor that reports late hides the end of its lane: that case is left out.)
JoinHonest ==
    LET lanes == {backend[b].state : b \in Branches}
        own   == {c.state : c \in {d \in {parent.reducer, parent.final} : Independent(d)}}
        Shown(b) == \E s \in Outcomes :
                      backend[b].state = DispatchOf[s] /\ parent.lane[b] = ConditionOf[s]
    IN  /\ parent.barrier = "GREEN" \/ parent.reducer.state \in {"READY", "GREEN"}
             => \A b \in Branches : backend[b].state = "DONE" /\ backend[b].accepted > 0
        /\ (\A b \in Branches : Shown(b))
             => \/ parent.overall = Worst(lanes \cup own)
                \/ Worst(lanes \cup own) = "none" /\ parent.overall \in {"RUNNING", "GREEN"}

\* What was accepted for a dispatch stays: a finalized lane keeps its outcome
\* and its evidence until it is given a fresh dispatch, although its result
\* file is rewritten and finalized again (same-dispatch evidence is pinned).
EvidencePinned ==
    [][\A b \in Branches :
         backend[b].state \in Ended
           => \/ backend'[b] = backend[b]
              \/ backend'[b].generation > backend[b].generation /\ backend'[b].accepted = 0]_joinVars
=============================================================================
