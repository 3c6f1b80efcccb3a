---------------------------- MODULE ParallelProofs ---------------------------
(*****************************************************************************)
(* Proofs about parallel tasks. First the join, for any set of lanes and     *)
(* any number of dispatches and of rewritten results: what was accepted for  *)
(* a lane stays, a GREEN barrier means that every lane is done, and the      *)
(* verdict follows the lanes; the inductive invariant says why a failure of  *)
(* the reducer or of the acceptance can not hide one of the lanes. Then the  *)
(* graph scheduler, for any list of nodes and lanes and any acyclic graph:   *)
(* a node runs only on finished dependencies, and an open task always has a  *)
(* node that runs or that the next dispatch starts. The pass over the list   *)
(* is a recursive function; what it does is proved from the least place at   *)
(* which it could go wrong.                                                  *)
(*****************************************************************************)
EXTENDS BranchJoin, ParallelGraph, FiniteSetTheorems, WellFoundedInduction, TLAPS

\* A lane that waits for its executor has a dispatch left for the continuation.
WaitHasNext ==
    \A b \in Branches : backend[b].state = "WAIT_RESULT" => backend[b].generation < MaxGeneration

TypeInv == JoinTypeOK /\ WaitHasNext

Done(b) == backend[b].state = "DONE" /\ backend[b].accepted > 0

\* The foreground CL shows how the lane ended.
LaneShows(b) == \E s \in Outcomes : backend[b].state = DispatchOf[s] /\ parent.lane[b] = ConditionOf[s]

\* A lane is GREEN only with accepted evidence.
GreenIsDone == \A b \in Branches : parent.lane[b] = "GREEN" => Done(b)

\* The barrier and the reducer are released only when every lane is done.
Released ==
    parent.barrier = "GREEN" \/ parent.reducer.state \in {"READY", "GREEN"}
        => \A b \in Branches : Done(b)

\* Foreground decides only about what the reducer made.
AcceptedLast ==
    parent.final.state = "GREEN" \/ Independent(parent.final) => parent.reducer.state = "GREEN"

\* A failed lane that is shown has failed the reducer, which never ran.
FailureStops ==
    (\A b \in Branches : LaneShows(b)) /\ (\E b \in Branches : backend[b].state \in Failed)
        => parent.reducer.state \in Failed

Lanes == {backend[b].state : b \in Branches}
Own == {c.state : c \in {d \in {parent.reducer, parent.final} : Independent(d)}}

VerdictHonest ==
    (\A b \in Branches : LaneShows(b))
        => \/ parent.overall = Worst(Lanes \cup Own)
           \/ Worst(Lanes \cup Own) = "none" /\ parent.overall \in {"RUNNING", "GREEN"}

\* The inductive invariant.
Honest == GreenIsDone /\ Released /\ AcceptedLast /\ FailureStops /\ VerdictHonest
JoinIInv == TypeInv /\ Honest

-----------------------------------------------------------------------------
\* An outcome has one condition and one dispatch state.
LEMMA Conditions ==
    /\ ConditionOf["PASS"] = "GREEN" /\ DispatchOf["PASS"] = "DONE"
    /\ ConditionOf["BLOCKED"] = "BLOCKED" /\ DispatchOf["BLOCKED"] = "BLOCKED"
    /\ ConditionOf["ERROR"] = "ERROR" /\ DispatchOf["ERROR"] = "ERROR"
BY DEF ConditionOf, DispatchOf

\* A lane that is shown is in the same state on both command lists.
LEMMA ShownStates ==
    ASSUME NEW b, LaneShows(b)
    PROVE  /\ backend[b].state \in Ended
           /\ parent.lane[b] \in {"GREEN", "ERROR", "BLOCKED"}
           /\ backend[b].state = "ERROR" <=> parent.lane[b] = "ERROR"
           /\ backend[b].state = "BLOCKED" <=> parent.lane[b] = "BLOCKED"
BY Conditions DEF LaneShows, Outcomes, Ended

\* What the projection of the branches does to a condition of the parent: it
\* never touches a failure that is not its own and never makes one.
LEMMA Projections ==
    ASSUME NEW c \in Shared, NEW of \in {"PASS", "RUNNING"} \cup Failed
    PROVE  /\ ProjectReducer(c, of) \in Shared
           /\ ProjectFinal(c, of) \in Shared
           /\ Independent(ProjectReducer(c, of)) <=> Independent(c)
           /\ Independent(ProjectFinal(c, of)) <=> Independent(c)
           /\ Independent(c) => ProjectReducer(c, of) = c /\ ProjectFinal(c, of) = c
           /\ of \in Failed => ProjectReducer(c, of).state \in Failed
           /\ ProjectReducer(c, of).state \in {"READY", "GREEN"}
                => of = "PASS" \/ c.state \in {"READY", "GREEN"}
           /\ ProjectFinal(c, of).state = "GREEN" => c.state = "GREEN"
BY DEF ProjectReducer, ProjectFinal, Independent, Shared, Failed

\* The aggregate is that of the worst lane, whatever the order.
LEMMA Aggregates ==
    ASSUME NEW p
    PROVE  /\ Aggregate(p) \in {"PASS", "RUNNING"} \cup Failed
           /\ Aggregate(p) = "ERROR" <=> \E b \in Branches : p.lane[b] = "ERROR"
           /\ Aggregate(p) = "BLOCKED" <=> /\ \E b \in Branches : p.lane[b] = "BLOCKED"
                                           /\ \A b \in Branches : p.lane[b] # "ERROR"
           /\ Aggregate(p) = "PASS" => \A b \in Branches : p.lane[b] = "GREEN"
BY DEF Aggregate, Worst, Failed

\* The parent of the invariants.
Parents == [lane : [Branches -> {"WAIT", "RUNNING", "GREEN"} \cup Failed],
            barrier : {"WAIT", "GREEN"} \cup Failed,
            reducer : Shared, final : Shared,
            overall : {"RUNNING", "GREEN"} \cup Failed]

\* What recompute_parent_aggregate leaves in each field.
LEMMA Recomputed ==
    ASSUME NEW p \in Parents
    PROVE  LET of == Aggregate(p)
               others == {c.state : c \in {d \in {p.reducer, p.final} : Independent(d)}}
               r == Recompute(p)
           IN  /\ r \in Parents
               /\ r.lane = p.lane
               /\ r.barrier = "GREEN" <=> of = "PASS"
               /\ r.reducer = ProjectReducer(p.reducer, of)
               /\ r.final = ProjectFinal(p.final, of)
               /\ \/ r.overall = Worst({of} \cup others)
                  \/ Worst({of} \cup others) = "none" /\ r.overall \in {"RUNNING", "GREEN"}
<1> DEFINE of == Aggregate(p)
           others == {c.state : c \in {d \in {p.reducer, p.final} : Independent(d)}}
           r == Recompute(p)
           verdict == Worst({of} \cup others)
<1>1. of \in {"PASS", "RUNNING"} \cup Failed
  BY Aggregates
<1>2. p.reducer \in Shared /\ p.final \in Shared
  BY DEF Parents
<1>3. ProjectReducer(p.reducer, of) \in Shared /\ ProjectFinal(p.final, of) \in Shared
  BY <1>1, <1>2, Projections
<1>4. verdict \in {"ERROR", "BLOCKED", "none"}
  BY DEF Worst
<1>5. r = [p EXCEPT !.barrier = IF of = "PASS" THEN "GREEN"
                                ELSE IF of = "RUNNING" THEN "WAIT" ELSE of,
                    !.reducer = ProjectReducer(@, of),
                    !.final = ProjectFinal(p.final, of),
                    !.overall = IF verdict # "none" THEN verdict
                                ELSE IF ProjectFinal(p.final, of).state = "GREEN" THEN "GREEN"
                                ELSE "RUNNING"]
  BY DEF Recompute
<1> HIDE DEF of, verdict, r
<1>6. r \in Parents
  BY <1>1, <1>3, <1>4, <1>5 DEF Parents, Failed
<1>7. /\ r.lane = p.lane
      /\ r.barrier = "GREEN" <=> of = "PASS"
      /\ r.reducer = ProjectReducer(p.reducer, of)
      /\ r.final = ProjectFinal(p.final, of)
      /\ r.overall = verdict \/ (verdict = "none" /\ r.overall \in {"RUNNING", "GREEN"})
  BY <1>1, <1>4, <1>5 DEF Parents, Failed
<1> QED
  BY <1>6, <1>7 DEF of, verdict, r

-----------------------------------------------------------------------------
\* Types.

LEMMA BoundsInNat == MaxGeneration \in Nat \ {0} /\ MaxRevision \in [Branches -> Nat]
BY BranchJoinAssumption

LEMMA OutcomeTypes ==
    \A s \in Outcomes : DispatchOf[s] \in Ended /\ ConditionOf[s] \in {"GREEN"} \cup Failed
BY Conditions DEF Outcomes, Ended, Failed

LEMMA TypeInit == JoinInit => TypeInv
BY BoundsInNat DEF JoinInit, TypeInv, WaitHasNext, JoinTypeOK, Shared, Outcomes, Failed

\* What the backend CL of a lane holds.
LaneDispatches == [generation : 1..MaxGeneration, state : {"RUNNING", "WAIT_RESULT"} \cup Ended,
             accepted : Nat]

\* The parent that finalization recomputes from.
LEMMA FinalizeParent ==
    ASSUME JoinTypeOK, NEW b \in Branches, Finalize(b)
    PROVE  /\ written[b].status \in Outcomes
           /\ written[b].revision \in Nat \ {0}
           /\ [parent EXCEPT !.lane[b] = ConditionOf[written[b].status]] \in Parents
<1>1. written[b].status \in Outcomes /\ written[b].revision \in Nat
  BY DEF JoinTypeOK
<1>2. written[b].revision > 0
  BY DEF Finalize, Matches
<1>3. ConditionOf[written[b].status] \in {"GREEN"} \cup Failed
  BY <1>1, OutcomeTypes
<1>4. parent \in Parents
  BY DEF JoinTypeOK, Parents
<1>5. [parent EXCEPT !.lane[b] = ConditionOf[written[b].status]] \in Parents
  BY <1>3, <1>4 DEF Parents
<1> QED
  BY <1>1, <1>2, <1>5

LEMMA TypeStep == TypeInv /\ [JoinNext]_joinVars => TypeInv'
<1> SUFFICES ASSUME TypeInv, [JoinNext]_joinVars PROVE TypeInv'
  OBVIOUS
<1> USE BoundsInNat
<1>0. JoinTypeOK /\ backend \in [Branches -> LaneDispatches]
  BY DEF TypeInv, JoinTypeOK, LaneDispatches
<1>1. ASSUME NEW b \in Branches, Finalize(b) PROVE TypeInv'
  <2> DEFINE p == [parent EXCEPT !.lane[b] = ConditionOf[written[b].status]]
  <2>1. p \in Parents /\ written[b].status \in Outcomes /\ written[b].revision \in Nat
    BY <1>0, <1>1, FinalizeParent
  <2>2. DispatchOf[written[b].status] \in Ended
    BY <2>1, OutcomeTypes
  <2>3. /\ backend' = [backend EXCEPT ![b].state = DispatchOf[written[b].status],
                                       ![b].accepted = written[b].revision]
        /\ parent' = Recompute(p)
        /\ UNCHANGED <<written, executing>>
    BY <1>1 DEF Finalize
  <2>4. parent' \in Parents
    BY <2>1, <2>3, Recomputed
  <2>5. backend' \in [Branches -> LaneDispatches]
    BY <1>0, <2>1, <2>2, <2>3 DEF LaneDispatches
  <2>6. \A x \in Branches : backend'[x].state = "WAIT_RESULT" =>
          backend[x].state = "WAIT_RESULT" /\ backend'[x].generation = backend[x].generation
    BY <1>0, <2>2, <2>3 DEF LaneDispatches, Ended
  <2> HIDE DEF p
  <2>7. JoinTypeOK'
    BY <1>0, <2>3, <2>4, <2>5 DEF JoinTypeOK, Parents, LaneDispatches
  <2>8. WaitHasNext'
    BY <2>6 DEF TypeInv, WaitHasNext
  <2> QED
    BY <2>7, <2>8 DEF TypeInv
<1>2. ASSUME NEW b \in Branches, NEW g \in 1..MaxGeneration, NEW s \in Outcomes,
             NEW c \in BOOLEAN, WriteResult(b, g, s, c)
      PROVE  TypeInv'
  BY <1>2 DEF WriteResult, TypeInv, WaitHasNext, JoinTypeOK
<1>3. ASSUME NEW b \in Branches, SubmitBranchAction(b) PROVE TypeInv'
  <2>1. JoinTypeOK'
    BY <1>0, <1>3 DEF SubmitBranchAction, JoinTypeOK
  <2>2. WaitHasNext'
    BY <1>0, <1>3 DEF SubmitBranchAction, TypeInv, WaitHasNext, LaneDispatches
  <2> QED
    BY <2>1, <2>2 DEF TypeInv
<1>4. ASSUME NEW b \in Branches, NEW s \in {"RUNNING", "WAIT"}, ReportBranch(b, s) PROVE TypeInv'
  BY <1>4 DEF ReportBranch, TypeInv, WaitHasNext, JoinTypeOK
<1>5. ASSUME NEW b \in Branches, EndBranchExecution(b) PROVE TypeInv'
  <2>1. CASE backend[b].state = "WAIT_RESULT"
    <3>1. backend[b].generation \in 1..MaxGeneration /\ backend[b].generation < MaxGeneration
      BY <1>0, <2>1 DEF TypeInv, WaitHasNext, LaneDispatches
    <3>2. backend[b].generation + 1 \in 1..MaxGeneration
      BY <3>1
    <3>3. backend' = [backend EXCEPT ![b].generation = @ + 1, ![b].state = "RUNNING"]
      BY <1>5, <2>1 DEF EndBranchExecution
    <3>4. backend' \in [Branches -> LaneDispatches]
      BY <1>0, <3>2, <3>3 DEF LaneDispatches
    <3>5. WaitHasNext'
      BY <1>0, <3>3 DEF TypeInv, WaitHasNext, LaneDispatches
    <3>6. JoinTypeOK'
      BY <1>0, <1>5, <3>4 DEF EndBranchExecution, JoinTypeOK, LaneDispatches
    <3> QED
      BY <3>5, <3>6 DEF TypeInv
  <2>2. CASE backend[b].state # "WAIT_RESULT"
    BY <1>0, <1>5, <2>2 DEF EndBranchExecution, TypeInv, WaitHasNext, JoinTypeOK
  <2> QED
    BY <2>1, <2>2
<1>6. ASSUME NEW b \in Branches, Redispatch(b) PROVE TypeInv'
  <2>1. JoinTypeOK'
    BY <1>0, <1>6 DEF Redispatch, JoinTypeOK, Ended, Failed
  <2>2. WaitHasNext'
    BY <1>0, <1>6 DEF Redispatch, TypeInv, WaitHasNext, LaneDispatches
  <2> QED
    BY <2>1, <2>2 DEF TypeInv
<1>7. ASSUME NEW s \in {"GREEN", "ERROR", "BLOCKED"}, ReducerEnds(s) PROVE TypeInv'
  BY <1>7 DEF ReducerEnds, TypeInv, WaitHasNext, JoinTypeOK, Shared, Failed
<1>8. ASSUME NEW s \in {"GREEN", "ERROR", "BLOCKED"}, FinalAcceptance(s) PROVE TypeInv'
  BY <1>8 DEF FinalAcceptance, TypeInv, WaitHasNext, JoinTypeOK, Shared, Failed
<1>9. CASE UNCHANGED joinVars
  BY <1>9 DEF joinVars, TypeInv, WaitHasNext, JoinTypeOK
<1> QED
  BY <1>1, <1>2, <1>3, <1>4, <1>5, <1>6, <1>7, <1>8, <1>9 DEF JoinNext

\* Every variable of the join keeps its type; no lane goes past the bound on
\* its dispatches.
THEOREM JoinTypes == JoinSpec => []JoinTypeOK
<1>1. TypeInv => JoinTypeOK
  BY DEF TypeInv
<1> QED
  BY <1>1, TypeInit, TypeStep, PTL DEF JoinSpec

-----------------------------------------------------------------------------
\* What a step may do to the backend CL of one lane.

\* Finalization changes the backend CL of its lane only, and ends it.
LEMMA FinalizeBackend ==
    ASSUME TypeInv, NEW b \in Branches, Finalize(b)
    PROVE  /\ backend[b].state \notin Ended
           /\ \A x \in Branches \ {b} : backend'[x] = backend[x]
           /\ backend'[b].state = DispatchOf[written[b].status]
           /\ backend'[b].accepted = written[b].revision
BY DEF TypeInv, JoinTypeOK, Finalize

\* A lane takes part in an executor run only while its dispatch has not ended;
\* a fresh dispatch is the next generation, with nothing accepted.
LEMMA DispatchSteps ==
    ASSUME TypeInv, NEW b \in Branches,
           SubmitBranchAction(b) \/ EndBranchExecution(b) \/ Redispatch(b)
    PROVE  /\ \A x \in Branches \ {b} : backend'[x] = backend[x]
           /\ \/ backend'[b] = backend[b]
              \/ backend[b].state \notin Ended /\ backend'[b].state \notin Ended
              \/ /\ backend[b].state \in Failed /\ backend'[b].state \notin Ended
                 /\ backend'[b].generation > backend[b].generation
                 /\ backend'[b].accepted = 0
<1>0. backend \in [Branches -> LaneDispatches]
  BY DEF TypeInv, JoinTypeOK, LaneDispatches
<1>1. CASE SubmitBranchAction(b)
  BY <1>0, <1>1 DEF SubmitBranchAction, LaneDispatches, Ended
<1>2. CASE EndBranchExecution(b)
  BY <1>0, <1>2 DEF EndBranchExecution, LaneDispatches, Ended
<1>3. CASE Redispatch(b)
  <2>1. backend[b].generation \in Nat
    BY <1>0, BoundsInNat DEF LaneDispatches
  <2>2. backend'[b] = [generation |-> backend[b].generation + 1, state |-> "RUNNING", accepted |-> 0]
    BY <1>0, <1>3 DEF Redispatch
  <2>3. backend[b].state \in Failed /\ \A x \in Branches \ {b} : backend'[x] = backend[x]
    BY <1>0, <1>3 DEF Redispatch
  <2> QED
    BY <2>1, <2>2, <2>3 DEF Ended
<1> QED
  BY <1>1, <1>2, <1>3

\* The other steps leave the backend CLs alone.
LEMMA OtherSteps ==
    ASSUME JoinNext
    PROVE  \/ backend' = backend
           \/ \E b \in Branches : \/ Finalize(b) \/ SubmitBranchAction(b)
                                  \/ EndBranchExecution(b) \/ Redispatch(b)
BY DEF JoinNext, WriteResult, ReportBranch, ReducerEnds, FinalAcceptance

\* What was accepted for a dispatch stays, whatever is written and finalized
\* again: a finalized lane keeps its outcome and its evidence until it is given
\* a fresh dispatch (finalize_task's comparison with what was accepted).
THEOREM EvidenceIsPinned == JoinSpec => EvidencePinned
<1> DEFINE Pinned == \A b \in Branches :
                       backend[b].state \in Ended
                         => \/ backend'[b] = backend[b]
                            \/ backend'[b].generation > backend[b].generation /\ backend'[b].accepted = 0
<1>1. TypeInv /\ [JoinNext]_joinVars => [Pinned]_joinVars
  <2> SUFFICES ASSUME TypeInv, JoinNext PROVE Pinned
    OBVIOUS
  <2>1. CASE backend' = backend
    BY <2>1
  <2>2. ASSUME NEW b \in Branches, Finalize(b) PROVE Pinned
    BY <2>2, FinalizeBackend
  <2>3. ASSUME NEW b \in Branches,
               SubmitBranchAction(b) \/ EndBranchExecution(b) \/ Redispatch(b)
        PROVE  Pinned
    BY <2>3, DispatchSteps
  <2> QED
    BY <2>1, <2>2, <2>3, OtherSteps
<1>2. [][Pinned]_joinVars => EvidencePinned
  BY DEF EvidencePinned
<1> QED
  BY <1>1, <1>2, TypeInit, TypeStep, PTL DEF JoinSpec

-----------------------------------------------------------------------------
\* The verdict of the parent.

LEMMA Worsts ==
    ASSUME NEW S
    PROVE  /\ Worst(S) \in {"ERROR", "BLOCKED", "none"}
           /\ Worst(S) = "ERROR" <=> "ERROR" \in S
           /\ Worst(S) = "BLOCKED" <=> "BLOCKED" \in S /\ "ERROR" \notin S
BY DEF Worst

LEMMA HonestInit == JoinInit => Honest
<1> SUFFICES ASSUME JoinInit PROVE Honest
  OBVIOUS
<1>1. /\ \A b \in Branches : backend[b].state = "RUNNING" /\ parent.lane[b] = "RUNNING"
      /\ parent.barrier = "WAIT" /\ parent.overall = "RUNNING"
      /\ parent.reducer.state = "WAIT" /\ ~parent.reducer.aggregate
      /\ parent.final.state = "WAIT" /\ ~parent.final.aggregate
  BY DEF JoinInit
<1>2. \A c \in {parent.reducer, parent.final} : ~Independent(c)
  BY <1>1 DEF Independent, Failed
<1>3. Own = {}
  BY <1>2 DEF Own
<1>4. Lanes \subseteq {"RUNNING"}
  BY <1>1 DEF Lanes
<1>5. Worst(Lanes \cup Own) = "none"
  BY <1>3, <1>4, Worsts
<1>6. VerdictHonest
  BY <1>1, <1>5 DEF VerdictHonest
<1>7. GreenIsDone /\ Released /\ FailureStops
  BY <1>1 DEF GreenIsDone, Released, FailureStops, Failed
<1>8. AcceptedLast
  BY <1>1, <1>2 DEF AcceptedLast
<1> QED
  BY <1>6, <1>7, <1>8 DEF Honest

\* While a lane is not done, nothing after the barrier has begun.
LEMMA NothingReleased ==
    ASSUME Honest, NEW b \in Branches, ~Done(b)
    PROVE  /\ parent.barrier # "GREEN" /\ parent.reducer.state \notin {"READY", "GREEN"}
           /\ parent.final.state # "GREEN" /\ ~Independent(parent.final)
BY DEF Honest, Released, AcceptedLast

\* A lane is finalized before anything is released, and what is recomputed
\* from it shows that lane and tells of the others what they say.
LEMMA FinalizeHonest ==
    ASSUME TypeInv, Honest, NEW b \in Branches, Finalize(b)
    PROVE  Honest'
<1> DEFINE p == [parent EXCEPT !.lane[b] = ConditionOf[written[b].status]]
           of == Aggregate(p)
           others == {c.state : c \in {d \in {p.reducer, p.final} : Independent(d)}}
<1>1. JoinTypeOK
  BY DEF TypeInv
<1>2. /\ p \in Parents
      /\ written[b].status \in Outcomes
      /\ written[b].revision > 0
  BY <1>1, FinalizeParent
<1>3. parent' = Recompute(p)
  BY DEF Finalize
<1>4. /\ \A x \in Branches \ {b} : backend'[x] = backend[x]
      /\ backend'[b].state = DispatchOf[written[b].status]
      /\ backend'[b].accepted = written[b].revision
      /\ backend[b].state \notin Ended
  BY FinalizeBackend
<1>5. ~Done(b)
  BY <1>4 DEF Done, Ended
<1>6. /\ parent.barrier # "GREEN" /\ parent.reducer.state \notin {"READY", "GREEN"}
      /\ parent.final.state # "GREEN" /\ ~Independent(parent.final)
  BY <1>5, NothingReleased
<1>7. /\ p.reducer = parent.reducer /\ p.final = parent.final
      /\ \A x \in Branches : p.lane[x] = IF x = b THEN ConditionOf[written[b].status]
                                         ELSE parent.lane[x]
  BY <1>1 DEF JoinTypeOK
<1>8. p.reducer \in Shared /\ p.final \in Shared
  BY <1>2 DEF Parents
<1>9. of \in {"PASS", "RUNNING"} \cup Failed
  BY Aggregates
<1>10. /\ of = "ERROR" <=> \E x \in Branches : p.lane[x] = "ERROR"
       /\ of = "BLOCKED" <=> /\ \E x \in Branches : p.lane[x] = "BLOCKED"
                             /\ \A x \in Branches : p.lane[x] # "ERROR"
       /\ of = "PASS" => \A x \in Branches : p.lane[x] = "GREEN"
  BY Aggregates
<1>11. /\ parent'.lane = p.lane
       /\ parent'.barrier = "GREEN" <=> of = "PASS"
       /\ parent'.reducer = ProjectReducer(p.reducer, of)
       /\ parent'.final = ProjectFinal(p.final, of)
       /\ \/ parent'.overall = Worst({of} \cup others)
          \/ Worst({of} \cup others) = "none" /\ parent'.overall \in {"RUNNING", "GREEN"}
  BY <1>2, <1>3, Recomputed
<1> HIDE DEF p, of
<1>12. /\ Independent(parent'.reducer) <=> Independent(parent.reducer)
       /\ Independent(parent.reducer) => parent'.reducer = parent.reducer
       /\ ~Independent(parent'.final)
       /\ of \in Failed => parent'.reducer.state \in Failed
       /\ parent'.reducer.state \in {"READY", "GREEN"} => of = "PASS"
       /\ parent'.final.state # "GREEN"
  <2> DEFINE r == ProjectReducer(p.reducer, of)
             f == ProjectFinal(p.final, of)
  <2>1. /\ Independent(r) <=> Independent(p.reducer)
        /\ Independent(p.reducer) => r = p.reducer
        /\ of \in Failed => r.state \in Failed
        /\ r.state \in {"READY", "GREEN"} => of = "PASS" \/ p.reducer.state \in {"READY", "GREEN"}
    BY <1>8, <1>9, Projections
  <2>2. /\ Independent(f) <=> Independent(p.final)
        /\ f.state = "GREEN" => p.final.state = "GREEN"
    BY <1>8, <1>9, Projections
  <2>3. parent'.reducer = r /\ parent'.final = f
    BY <1>11
  <2> HIDE DEF r, f
  <2> QED
    BY <1>6, <1>7, <2>1, <2>2, <2>3
<1>13. GreenIsDone'
  <2>1. ASSUME NEW x \in Branches, parent'.lane[x] = "GREEN" PROVE Done(x)'
    <3>1. CASE x = b
      <4>1. written[b].status = "PASS"
        BY <1>2, <1>7, <1>11, <2>1, <3>1, Conditions DEF Outcomes
      <4> QED
        BY <1>2, <1>4, <3>1, <4>1, Conditions DEF Done
    <3>2. CASE x # b
      <4>1. parent.lane[x] = "GREEN" /\ backend'[x] = backend[x]
        BY <1>4, <1>7, <1>11, <2>1, <3>2
      <4> QED
        BY <4>1 DEF Honest, GreenIsDone, Done
    <3> QED
      BY <3>1, <3>2
  <2> QED
    BY <2>1 DEF GreenIsDone
<1>14. Released'
  BY <1>10, <1>11, <1>12, <1>13 DEF Released, GreenIsDone
<1>15. AcceptedLast'
  BY <1>12 DEF AcceptedLast
<1>16. ASSUME \A x \in Branches : LaneShows(x)'
       PROVE  /\ "ERROR" \in Lanes' <=> of = "ERROR"
              /\ "BLOCKED" \in Lanes' => of \in Failed
              /\ of = "BLOCKED" => "BLOCKED" \in Lanes'
  <2>1. \A x \in Branches : /\ backend'[x].state = "ERROR" <=> p.lane[x] = "ERROR"
                            /\ backend'[x].state = "BLOCKED" <=> p.lane[x] = "BLOCKED"
    BY <1>11, <1>16, Conditions DEF LaneShows, Outcomes
  <2> QED
    BY <1>10, <2>1 DEF Lanes, Failed
<1>17. FailureStops'
  BY <1>12, <1>16 DEF FailureStops, Lanes, Failed
<1>18. Own' = others
  BY <1>6, <1>7, <1>12 DEF Own
<1>19. VerdictHonest'
  <2> SUFFICES ASSUME \A x \in Branches : LaneShows(x)'
               PROVE  \/ parent'.overall = Worst(Lanes' \cup Own')
                      \/ Worst(Lanes' \cup Own') = "none" /\ parent'.overall \in {"RUNNING", "GREEN"}
    BY DEF VerdictHonest
  <2>1. Worst(Lanes' \cup Own') = Worst({of} \cup others)
    <3>1. /\ "ERROR" \in Lanes' <=> of = "ERROR"
          /\ "BLOCKED" \in Lanes' => of \in Failed
          /\ of = "BLOCKED" => "BLOCKED" \in Lanes'
      BY <1>16
    <3> QED
      BY <1>18, <3>1 DEF Worst, Failed
  <2> QED
    BY <1>11, <2>1
<1> QED
  BY <1>13, <1>14, <1>15, <1>17, <1>19 DEF Honest

\* A step that leaves the parent's verdict alone, or only opens it, while a lane
\* that was not done is still not shown.
LEMMA OpenHonest ==
    ASSUME Honest, NEW b \in Branches, ~Done(b), ~LaneShows(b)', GreenIsDone',
           parent'.barrier = parent.barrier, parent'.reducer = parent.reducer,
           parent'.final = parent.final
    PROVE  Honest'
<1>1. /\ parent.barrier # "GREEN" /\ parent.reducer.state \notin {"READY", "GREEN"}
      /\ parent.final.state # "GREEN" /\ ~Independent(parent.final)
  BY NothingReleased
<1>2. FailureStops' /\ VerdictHonest'
  BY DEF FailureStops, VerdictHonest
<1>3. Released' /\ AcceptedLast'
  BY <1>1 DEF Released, AcceptedLast
<1> QED
  BY <1>2, <1>3 DEF Honest

\* A lane that is submitted, continued or dispatched again has not ended.
LEMMA DispatchHonest ==
    ASSUME TypeInv, Honest, NEW b \in Branches,
           SubmitBranchAction(b) \/ EndBranchExecution(b) \/ Redispatch(b)
    PROVE  Honest'
<1>1. /\ parent'.barrier = parent.barrier /\ parent'.reducer = parent.reducer
      /\ parent'.final = parent.final /\ parent'.lane = parent.lane
  BY DEF TypeInv, JoinTypeOK, SubmitBranchAction, EndBranchExecution, Redispatch
<1>2. \A x \in Branches \ {b} : backend'[x] = backend[x]
  BY DispatchSteps
<1>3. \/ backend'[b] = backend[b]
      \/ backend[b].state # "DONE" /\ backend'[b].state \notin Ended
  BY DispatchSteps DEF Ended, Failed
<1>4. CASE backend[b].state # "DONE" /\ backend'[b].state \notin Ended
  <2>1. ~Done(b)
    BY <1>4 DEF Done
  <2>2. ~LaneShows(b)'
    BY <1>4, OutcomeTypes DEF LaneShows
  <2>3. GreenIsDone'
    BY <1>1, <1>2, <2>1 DEF Honest, GreenIsDone, Done
  <2> QED
    BY <1>1, <2>1, <2>2, <2>3, OpenHonest
<1>5. CASE backend'[b] = backend[b] /\ parent' = parent
  <2>1. \A x \in Branches : backend'[x] = backend[x]
    BY <1>2, <1>5
  <2>2. Lanes' = Lanes /\ Own' = Own
    BY <1>5, <2>1 DEF Lanes, Own
  <2> QED
    BY <1>5, <2>1, <2>2 DEF Honest, GreenIsDone, Released, AcceptedLast, FailureStops,
       VerdictHonest, Done, LaneShows
<1>6. parent' = parent \/ SubmitBranchAction(b)
  BY DEF EndBranchExecution, Redispatch
<1>7. SubmitBranchAction(b) => backend[b].state # "DONE" /\ backend'[b].state \notin Ended
  BY DEF TypeInv, JoinTypeOK, SubmitBranchAction, Ended
<1> QED
  BY <1>3, <1>4, <1>5, <1>6, <1>7

\* An executor's report hides its lane.
LEMMA ReportHonest ==
    ASSUME TypeInv, Honest, NEW b \in Branches, NEW s \in {"RUNNING", "WAIT"}, ReportBranch(b, s)
    PROVE  Honest'
<1>1. /\ parent'.barrier = parent.barrier /\ parent'.reducer = parent.reducer
      /\ parent'.final = parent.final /\ backend' = backend
      /\ parent'.lane[b] = s /\ \A x \in Branches \ {b} : parent'.lane[x] = parent.lane[x]
  BY DEF TypeInv, JoinTypeOK, ReportBranch
<1>2. ~LaneShows(b)'
  BY <1>1, Conditions DEF LaneShows, Outcomes
<1>3. FailureStops' /\ VerdictHonest'
  BY <1>2 DEF FailureStops, VerdictHonest
<1>4. GreenIsDone'
  BY <1>1 DEF Honest, GreenIsDone, Done
<1>5. Released' /\ AcceptedLast'
  BY <1>1 DEF Honest, Released, AcceptedLast, Done
<1> QED
  BY <1>3, <1>4, <1>5 DEF Honest

\* The reducer passes after every lane; when it fails before, it adds its own
\* failure to lanes that are all done, or to a verdict that is still open.
LEMMA ReducerHonest ==
    ASSUME TypeInv, Honest, NEW s \in {"GREEN", "ERROR", "BLOCKED"}, ReducerEnds(s)
    PROVE  Honest'
<1>1. /\ parent'.lane = parent.lane /\ parent'.barrier = parent.barrier
      /\ parent'.final = parent.final /\ backend' = backend
      /\ parent'.reducer = [state |-> s, aggregate |-> FALSE]
      /\ parent'.overall = IF s \in Failed THEN s ELSE parent.overall
      /\ parent.reducer.state \in {"WAIT", "READY"}
      /\ s = "GREEN" => parent.reducer.state = "READY"
  BY DEF TypeInv, JoinTypeOK, ReducerEnds, Failed
<1>2. parent.final.state # "GREEN" /\ ~Independent(parent.final)
  BY <1>1 DEF Honest, AcceptedLast
<1>3. ~Independent(parent.reducer)
  BY <1>1 DEF Independent, Failed
<1>4. GreenIsDone' /\ AcceptedLast'
  BY <1>1, <1>2 DEF Honest, GreenIsDone, AcceptedLast, Done
<1>5. Released'
  BY <1>1 DEF Honest, Released, Done
<1>6. ASSUME \A x \in Branches : LaneShows(x)
      PROVE  \A x \in Branches : backend[x].state \notin Failed
  BY <1>1, <1>6 DEF Honest, FailureStops, Failed
<1>7. \A x \in Branches : LaneShows(x)' <=> LaneShows(x)
  BY <1>1 DEF LaneShows
<1>8. FailureStops'
  BY <1>1, <1>6, <1>7 DEF FailureStops
<1>9. VerdictHonest'
  <2> SUFFICES ASSUME \A x \in Branches : LaneShows(x)
               PROVE  \/ parent'.overall = Worst(Lanes' \cup Own')
                      \/ Worst(Lanes' \cup Own') = "none" /\ parent'.overall \in {"RUNNING", "GREEN"}
    BY <1>7 DEF VerdictHonest
  <2>1. "ERROR" \notin Lanes /\ "BLOCKED" \notin Lanes /\ Lanes' = Lanes
    BY <1>1, <1>6 DEF Lanes, Failed
  <2>2. Own = {}
    BY <1>2, <1>3 DEF Own
  <2>3. Own' = IF s \in Failed THEN {s} ELSE {}
    BY <1>1, <1>2 DEF Own, Independent
  <2>4. Worst(Lanes \cup Own) = "none"
    BY <2>1, <2>2 DEF Worst
  <2>5. parent.overall \in {"RUNNING", "GREEN"}
    <3>1. parent.overall \in {"RUNNING", "GREEN"} \cup Failed
      BY DEF TypeInv, JoinTypeOK
    <3> QED
      BY <2>4, <3>1 DEF Honest, VerdictHonest, Failed
  <2>6. CASE s \in Failed
    BY <1>1, <2>1, <2>3, <2>6 DEF Worst, Failed
  <2>7. CASE s \notin Failed
    BY <1>1, <2>1, <2>3, <2>5, <2>7 DEF Worst
  <2> QED
    BY <2>6, <2>7
<1> QED
  BY <1>4, <1>5, <1>8, <1>9 DEF Honest

\* Foreground accepts or rejects what was made of lanes that are all done.
LEMMA AcceptanceHonest ==
    ASSUME TypeInv, Honest, NEW s \in {"GREEN", "ERROR", "BLOCKED"}, FinalAcceptance(s)
    PROVE  Honest'
<1>1. /\ parent'.lane = parent.lane /\ parent'.barrier = parent.barrier
      /\ parent'.reducer = parent.reducer /\ backend' = backend
      /\ parent'.final = [state |-> s, aggregate |-> FALSE] /\ parent'.overall = s
      /\ parent.reducer.state = "GREEN"
  BY DEF TypeInv, JoinTypeOK, FinalAcceptance
<1>2. \A x \in Branches : Done(x)
  BY <1>1 DEF Honest, Released
<1>3. GreenIsDone' /\ AcceptedLast' /\ Released'
  BY <1>1, <1>2 DEF Honest, GreenIsDone, AcceptedLast, Released, Done
<1>4. FailureStops'
  BY <1>1, <1>2 DEF FailureStops, Done, Failed
<1>5. Lanes' \subseteq {"DONE"}
  BY <1>1, <1>2 DEF Lanes, Done
<1>6. Own' = IF s \in Failed THEN {s} ELSE {}
  BY <1>1 DEF Own, Independent, Failed
<1>7. VerdictHonest'
  BY <1>1, <1>5, <1>6 DEF VerdictHonest, Worst, Failed
<1> QED
  BY <1>3, <1>4, <1>7 DEF Honest

LEMMA HonestStep == TypeInv /\ Honest /\ [JoinNext]_joinVars => Honest'
<1> SUFFICES ASSUME TypeInv, Honest, [JoinNext]_joinVars PROVE Honest'
  OBVIOUS
<1>1. ASSUME backend' = backend, parent' = parent PROVE Honest'
  BY <1>1 DEF Honest, GreenIsDone, Released, AcceptedLast, FailureStops, VerdictHonest,
     Lanes, Own, Done, LaneShows
<1>2. ASSUME NEW b \in Branches, Finalize(b) PROVE Honest'
  BY <1>2, FinalizeHonest
<1>3. ASSUME NEW b \in Branches, NEW g \in 1..MaxGeneration, NEW s \in Outcomes,
             NEW c \in BOOLEAN, WriteResult(b, g, s, c)
      PROVE  Honest'
  BY <1>1, <1>3 DEF WriteResult
<1>4. ASSUME NEW b \in Branches,
             SubmitBranchAction(b) \/ EndBranchExecution(b) \/ Redispatch(b)
      PROVE  Honest'
  BY <1>4, DispatchHonest
<1>5. ASSUME NEW b \in Branches, NEW s \in {"RUNNING", "WAIT"}, ReportBranch(b, s) PROVE Honest'
  BY <1>5, ReportHonest
<1>6. ASSUME NEW s \in {"GREEN", "ERROR", "BLOCKED"}, ReducerEnds(s) \/ FinalAcceptance(s)
      PROVE  Honest'
  BY <1>6, ReducerHonest, AcceptanceHonest
<1>7. CASE UNCHANGED joinVars
  BY <1>1, <1>7 DEF joinVars
<1> QED
  BY <1>2, <1>3, <1>4, <1>5, <1>6, <1>7 DEF JoinNext

LEMMA HonestShows == Honest => JoinHonest
<1> SUFFICES ASSUME Honest PROVE JoinHonest
  OBVIOUS
<1>1. Released /\ VerdictHonest
  BY DEF Honest
<1> QED
  BY <1>1 DEF JoinHonest, Released, VerdictHonest, LaneShows, Done, Lanes, Own

\* The foreground CL tells the truth about the lanes: a GREEN barrier or a
\* released reducer means that every lane is DONE with accepted evidence, and
\* the verdict is that of the worst lane, or of the reducer or the acceptance
\* (recompute_parent_aggregate), for every number of lanes and of dispatches.
THEOREM JoinIsHonest == JoinSpec => []JoinHonest
<1>1. JoinInit => JoinIInv
  BY TypeInit, HonestInit DEF JoinIInv
<1>2. JoinIInv /\ [JoinNext]_joinVars => JoinIInv'
  BY TypeStep, HonestStep DEF JoinIInv
<1>3. JoinIInv => JoinHonest
  BY HonestShows DEF JoinIInv
<1> QED
  BY <1>1, <1>2, <1>3, PTL DEF JoinSpec

-----------------------------------------------------------------------------

\* A node that may have run.
Ran == {"READY", "RUNNING", "DONE", "ERROR"}
Bad == {"ERROR", "BLOCKED"}

\* A node is completed when it is DONE, runs after its dependencies, and has a
\* dispatch only if it ran; completed_order follows the dependencies.
Barrier(g) ==
    /\ \A n \in Nodes :
         /\ g.node[n].status = "DONE" <=> n \in Completed(g)
         /\ g.node[n].status \in Ran => task.deps[n] \subseteq Completed(g)
         /\ g.node[n].generation > 0 => g.node[n].status \in {"RUNNING", "DONE", "ERROR"}
         /\ g.node[n].status = "WAIT_DEP" => task.deps[n] # {}
    /\ \A i \in DOMAIN g.completed : task.deps[g.completed[i]] \subseteq {g.completed[j] : j \in 1..(i - 1)}

\* A lane that is not idle has a running node of its own.
LanesSound(g) ==
    /\ \A l \in GraphLanes : g.lane[l] # NoNode => g.node[g.lane[l]].status = "RUNNING"
    /\ \A k, l \in GraphLanes : g.lane[k] = g.lane[l] /\ g.lane[k] # NoNode => k = l

\* The inductive invariant.
GraphIInv ==
    /\ GraphTypeOK /\ Acyclic(task.deps) /\ Barrier(graph) /\ LanesSound(graph)
    /\ graph.status = Overall(graph)

-----------------------------------------------------------------------------
NodeMaps == [Nodes -> [status : NodeStatus, generation : 0..1]]
TaskTypes == [deps : [Nodes -> SUBSET Nodes], max : MaxParallel]
Graphs == [status : NodeStatus \ {"WAIT_DEP"}, node : NodeMaps,
           lane : [GraphLanes -> Nodes \cup {NoNode}], completed : Seq(Nodes)]

LEMMA GraphTypes == GraphTypeOK <=> task \in TaskTypes /\ graph \in Graphs /\ issued \subseteq Dispatches
BY DEF GraphTypeOK, TaskTypes, Graphs, NodeMaps

LEMMA Listed ==
    /\ Len(Order) \in Nat \ {0} /\ DOMAIN Order = 1..Len(Order)
    /\ \A i \in 1..Len(Order) : Order[i] \in Nodes
    /\ \A n \in Nodes : \E i \in 1..Len(Order) : Order[i] = n
    /\ Len(LaneOrder) \in Nat \ {0} /\ DOMAIN LaneOrder = 1..Len(LaneOrder)
    /\ NoNode \notin Nodes
<1>1. Order \in Seq(Nodes) /\ LaneOrder \in Seq(GraphLanes) /\ Order # << >> /\ LaneOrder # << >>
  BY ParallelGraphAssumption
<1> QED
  BY <1>1, ParallelGraphAssumption DEF Nodes

\* What a pass may do: a waiting node becomes READY after its dependencies, or
\* BLOCKED because something failed; nothing else changes.
Moved(old, new) ==
    /\ new \in NodeMaps
    /\ \A n \in Nodes :
         /\ new[n].generation = old[n].generation
         /\ \/ new[n].status = old[n].status
            \/ old[n].status = "WAIT_DEP" /\ new[n].status \in {"READY", "BLOCKED"}
         /\ old[n].status = "WAIT_DEP" /\ new[n].status = "READY"
              => \A d \in task.deps[n] : old[d].status = "DONE"
         /\ old[n].status = "WAIT_DEP" /\ new[n].status = "BLOCKED"
              => \E m \in Nodes : old[m].status \in Bad

LEMMA StatusTypes ==
    ASSUME NEW node \in NodeMaps, NEW n \in Nodes
    PROVE  /\ node[n].status \in NodeStatus /\ node[n].generation \in 0..1
           /\ \A s \in NodeStatus :
                /\ [node EXCEPT ![n].status = s] \in NodeMaps
                /\ [node EXCEPT ![n].status = s][n].status = s
                /\ [node EXCEPT ![n].status = s][n].generation = node[n].generation
                /\ \A m \in Nodes \ {n} : [node EXCEPT ![n].status = s][m] = node[m]
BY DEF NodeMaps

LEMMA SettleMoves ==
    ASSUME task \in TaskTypes, NEW old \in NodeMaps, NEW mid, Moved(old, mid), NEW n \in Nodes
    PROVE  /\ Moved(old, Settle(mid, n))
           /\ \A m \in Nodes : mid[m].status # "WAIT_DEP" => Settle(mid, n)[m].status = mid[m].status
           /\ (\A d \in task.deps[n] : old[d].status = "DONE") /\ task.deps[n] # {}
                => Settle(mid, n)[n].status # "WAIT_DEP"
<1> DEFINE of == {mid[d].status : d \in task.deps[n]}
<1>1. /\ mid \in NodeMaps /\ task.deps[n] \subseteq Nodes
      /\ \A d \in task.deps[n] : old[d].status = "DONE" <=> mid[d].status = "DONE"
  BY DEF Moved, TaskTypes
<1>2. CASE mid[n].status # "WAIT_DEP"
  <2>1. Settle(mid, n) = mid
    BY <1>2 DEF Settle
  <2> QED
    BY <1>2, <2>1
<1>3. CASE mid[n].status = "WAIT_DEP" /\ of \cap {"ERROR", "BLOCKED", "CANCELLED"} # {}
  <2>1. Settle(mid, n) = [mid EXCEPT ![n].status = "BLOCKED"]
    BY <1>3 DEF Settle
  <2>2. PICK d \in task.deps[n] : mid[d].status \in {"ERROR", "BLOCKED", "CANCELLED"}
    BY <1>3
  <2>3. \E m \in Nodes : old[m].status \in Bad
    <3>1. mid[d].status \in Bad /\ d \in Nodes
      BY <1>1, <2>2 DEF Bad, NodeMaps, NodeStatus
    <3> QED
      BY <3>1 DEF Moved, Bad
  <2> DEFINE new == Settle(mid, n)
  <2>4. /\ new \in NodeMaps /\ new[n].status = "BLOCKED" /\ new[n].generation = mid[n].generation
        /\ \A m \in Nodes \ {n} : new[m] = mid[m]
    BY <1>1, <2>1 DEF NodeMaps, NodeStatus
  <2> HIDE DEF new
  <2>5. Moved(old, new)
    BY <1>3, <2>3, <2>4 DEF Moved
  <2>6. \A m \in Nodes : mid[m].status # "WAIT_DEP" => new[m].status = mid[m].status
    BY <1>3, <2>4
  <2>7. new[n].status # "WAIT_DEP"
    BY <2>4
  <2> QED
    BY <2>5, <2>6, <2>7 DEF new
<1>4. CASE mid[n].status = "WAIT_DEP" /\ of \cap {"ERROR", "BLOCKED", "CANCELLED"} = {} /\ of = {"DONE"}
  <2>1. Settle(mid, n) = [mid EXCEPT ![n].status = "READY"]
    BY <1>4 DEF Settle
  <2>2. \A d \in task.deps[n] : mid[d].status = "DONE"
    BY <1>4
  <2> DEFINE new == Settle(mid, n)
  <2>3. /\ new \in NodeMaps /\ new[n].status = "READY" /\ new[n].generation = mid[n].generation
        /\ \A m \in Nodes \ {n} : new[m] = mid[m]
    BY <1>1, <2>1 DEF NodeMaps, NodeStatus
  <2> HIDE DEF new
  <2>4. Moved(old, new)
    BY <1>1, <1>4, <2>2, <2>3 DEF Moved
  <2>5. \A m \in Nodes : mid[m].status # "WAIT_DEP" => new[m].status = mid[m].status
    BY <1>4, <2>3
  <2>6. new[n].status # "WAIT_DEP"
    BY <2>3
  <2> QED
    BY <2>4, <2>5, <2>6 DEF new
<1>5. CASE mid[n].status = "WAIT_DEP" /\ of \cap {"ERROR", "BLOCKED", "CANCELLED"} = {} /\ of # {"DONE"}
  <2>1. Settle(mid, n) = mid
    BY <1>5 DEF Settle
  <2>2. ~((\A d \in task.deps[n] : old[d].status = "DONE") /\ task.deps[n] # {})
    BY <1>1, <1>5
  <2> QED
    BY <2>1, <2>2
<1> QED
  BY <1>2, <1>3, <1>4, <1>5

\* A nonempty set of numbers has a least one: what is wrong after some step of a
\* pass went wrong in a first one.
LEMMA Least ==
    ASSUME NEW k \in Nat, NEW S \in SUBSET (0..k), S # {}
    PROVE  \E i \in S : \A j \in S : ~(j < i)
<1>1. S \subseteq Nat
  OBVIOUS
<1>2. PICK i \in S : \A j \in S : <<j, i>> \notin OpToRel(<, Nat)
  BY <1>1, WFMin, NatLessThanWellFounded
<1> QED
  BY <1>1, <1>2 DEF OpToRel

\* The nodes after each step of a pass.
LEMMA PassSteps ==
    ASSUME task \in TaskTypes, NEW node \in NodeMaps
    PROVE  \E after : /\ \A i \in 0..Len(Order) : Moved(node, after[i])
                      /\ \A i \in 1..Len(Order) : after[i] = Settle(after[i - 1], Order[i])
                      /\ Pass(node) = after[Len(Order)]
<1> DEFINE L == Len(Order)
           Upto(f, k) == /\ f[0] = node
                         /\ \A i \in 0..k : Moved(node, f[i])
                         /\ \A i \in 1..k : f[i] = Settle(f[i - 1], Order[i])
           after[i \in 0..Len(Order)] == IF i = 0 THEN node ELSE Settle(after[i - 1], Order[i])
           Missing == {k \in 0..L : ~\E f : DOMAIN f = 0..k /\ f = [i \in 0..k |-> f[i]] /\ Upto(f, k)}
<1>1. L \in Nat /\ Moved(node, node)
  BY Listed DEF Moved
<1>2. Missing = {}
  <2> SUFFICES ASSUME Missing # {} PROVE FALSE
    OBVIOUS
  <2>1. PICK k \in Missing : \A j \in Missing : ~(j < k)
    <3>1. Missing \subseteq 0..L
      OBVIOUS
    <3> HIDE DEF Missing
    <3> QED
      BY <1>1, <3>1, Least
  <2>2. k # 0
    <3> SUFFICES ASSUME k = 0 PROVE FALSE
      OBVIOUS
    <3> DEFINE f == [i \in 0..0 |-> node]
    <3>1. DOMAIN f = 0..k /\ f = [i \in 0..k |-> f[i]] /\ Upto(f, k)
      BY <1>1
    <3> QED
      BY <2>1, <3>1
  <2>3. k \in 1..L /\ (k - 1) \in 0..L /\ k - 1 \notin Missing
    BY <1>1, <2>1, <2>2
  <2>4. PICK f : DOMAIN f = 0..(k - 1) /\ Upto(f, k - 1)
    BY <2>3
  <2> DEFINE g == [i \in 0..k |-> IF i = k THEN Settle(f[k - 1], Order[k]) ELSE f[i]]
  <2>5. Moved(node, Settle(f[k - 1], Order[k]))
    BY <1>1, <2>3, <2>4, Listed, SettleMoves
  <2>6. Upto(g, k)
    <3>1. g[0] = node /\ g[k] = Settle(f[k - 1], Order[k]) /\ \A i \in 0..(k - 1) : g[i] = f[i]
      BY <1>1, <2>3, <2>4
    <3>2. \A i \in 0..k : Moved(node, g[i])
      <4> HIDE DEF g
      <4> QED
        BY <1>1, <2>3, <2>4, <2>5, <3>1
    <3> HIDE DEF g
    <3>3. ASSUME NEW i \in 1..k
          PROVE  g[i] = Settle(g[i - 1], Order[i])
      <4>1. i - 1 \in 0..(k - 1) /\ g[i - 1] = f[i - 1]
        BY <1>1, <2>3, <3>1
      <4>2. CASE i = k
        BY <3>1, <4>1, <4>2
      <4>3. CASE i # k
        <5>1. i \in 1..(k - 1) /\ i \in 0..(k - 1)
          BY <1>1, <2>3, <4>3
        <5>2. f[i] = Settle(f[i - 1], Order[i])
          BY <2>4, <5>1
        <5> QED
          BY <3>1, <4>1, <5>1, <5>2
      <4> QED
        BY <4>2, <4>3
    <3> QED
      BY <3>1, <3>2, <3>3
  <2>7. DOMAIN g = 0..k /\ g = [i \in 0..k |-> g[i]]
    OBVIOUS
  <2> HIDE DEF g
  <2> QED
    BY <2>1, <2>6, <2>7
<1>3. PICK f : DOMAIN f = 0..L /\ f = [i \in 0..L |-> f[i]] /\ Upto(f, L)
  BY <1>1, <1>2
<1>4. f = [i \in 0..L |-> IF i = 0 THEN node ELSE Settle(f[i - 1], Order[i])]
  <2>1. ASSUME NEW i \in 0..L
        PROVE  f[i] = IF i = 0 THEN node ELSE Settle(f[i - 1], Order[i])
    <3>1. f[0] = node /\ \A j \in 1..L : f[j] = Settle(f[j - 1], Order[j])
      BY <1>3
    <3>2. i = 0 \/ i \in 1..L
      BY <1>1
    <3> QED
      BY <1>1, <3>1, <3>2
  <2> QED
    BY <1>3, <2>1
<1>5. after = [i \in 0..L |-> IF i = 0 THEN node ELSE Settle(after[i - 1], Order[i])]
  BY <1>4
<1>6. Pass(node) = after[L]
  BY DEF Pass
<1> HIDE DEF after
<1>7. after[0] = node /\ \A i \in 1..L : after[i] = Settle(after[i - 1], Order[i])
  <2>1. \A i \in 0..L : after[i] = IF i = 0 THEN node ELSE Settle(after[i - 1], Order[i])
    BY <1>5
  <2> QED
    BY <1>1, <2>1
<1>8. \A i \in 0..L : Moved(node, after[i])
  <2> DEFINE Wrong == {i \in 0..L : ~Moved(node, after[i])}
  <2> SUFFICES ASSUME Wrong # {} PROVE FALSE
    OBVIOUS
  <2>1. PICK i \in Wrong : \A j \in Wrong : ~(j < i)
    BY <1>1, Least
  <2>2. i \in 1..L /\ i - 1 \in 0..L /\ i - 1 \notin Wrong
    BY <1>1, <1>7, <2>1
  <2> QED
    BY <1>7, <2>1, <2>2, Listed, SettleMoves
<1> QED
  BY <1>6, <1>7, <1>8

\* A pass moves nodes, and a node whose dependencies are all DONE waits no longer
\* after it, wherever the list has them.
LEMMA PassMoves ==
    ASSUME task \in TaskTypes, NEW node \in NodeMaps
    PROVE  /\ Moved(node, Pass(node))
           /\ \A n \in Nodes :
                task.deps[n] # {} /\ (\A d \in task.deps[n] : node[d].status = "DONE")
                  => Pass(node)[n].status # "WAIT_DEP"
<1> DEFINE L == Len(Order)
<1>1. PICK after : /\ \A i \in 0..L : Moved(node, after[i])
                   /\ \A i \in 1..L : after[i] = Settle(after[i - 1], Order[i])
                   /\ Pass(node) = after[L]
  BY PassSteps
<1>2. L \in Nat /\ L \in 0..L
  BY Listed
<1>3. ASSUME NEW n \in Nodes, task.deps[n] # {}, \A d \in task.deps[n] : node[d].status = "DONE"
      PROVE  Pass(node)[n].status # "WAIT_DEP"
  <2>1. PICK k \in 1..L : Order[k] = n
    BY Listed
  <2> DEFINE Waiting == {i \in k..L : after[i][n].status = "WAIT_DEP"}
  <2>2. Waiting = {}
    <3> SUFFICES ASSUME Waiting # {} PROVE FALSE
      OBVIOUS
    <3>1. Waiting \in SUBSET (0..L)
      BY <1>2, <2>1
    <3>2. PICK i \in Waiting : \A j \in Waiting : ~(j < i)
      BY <1>2, <3>1, Least
    <3>3. i \in 1..L /\ i - 1 \in 0..L /\ after[i] = Settle(after[i - 1], Order[i]) /\ Moved(node, after[i - 1])
      BY <1>1, <1>2, <2>1, <3>2
    <3>4. CASE i = k
      BY <1>3, <2>1, <3>2, <3>3, <3>4, SettleMoves
    <3>5. CASE i # k
      <4>1. i - 1 \in k..L /\ i - 1 < i
        BY <1>2, <2>1, <3>2, <3>5
      <4>2. after[i - 1][n].status # "WAIT_DEP"
        BY <3>2, <4>1
      <4>3. Order[i] \in Nodes
        BY <3>3, Listed
      <4>4. after[i][n].status = after[i - 1][n].status
        BY <3>3, <4>2, <4>3, SettleMoves
      <4> QED
        BY <3>2, <4>2, <4>4
    <3> QED
      BY <3>4, <3>5
  <2>3. L \in k..L
    BY <1>2, <2>1
  <2> QED
    BY <1>1, <2>2, <2>3
<1> QED
  BY <1>1, <1>2, <1>3

-----------------------------------------------------------------------------
LEMMA OverallTypes ==
    ASSUME NEW g
    PROVE  /\ Overall(g) \in NodeStatus \ {"WAIT_DEP"}
           /\ \A h : h.node = g.node => Overall(h) = Overall(g)
BY DEF Overall, With, NodeStatus

\* A refresh keeps the barrier and the lanes.
LEMMA RefreshSound ==
    ASSUME task \in TaskTypes, NEW g \in Graphs, Barrier(g), LanesSound(g)
    PROVE  /\ Refresh(g) \in Graphs /\ Barrier(Refresh(g)) /\ LanesSound(Refresh(g))
           /\ Refresh(g).status = Overall(Refresh(g))
           /\ Refresh(g).node = Pass(g.node) /\ Moved(g.node, Pass(g.node))
           /\ Refresh(g).lane = g.lane /\ Refresh(g).completed = g.completed
<1> DEFINE new == Pass(g.node)
           h == Refresh(g)
<1>1. g.node \in NodeMaps /\ Moved(g.node, new)
  BY PassMoves DEF Graphs
<1>2. PICK s : h = [[g EXCEPT !.node = new] EXCEPT !.status = s] /\ s = Overall([g EXCEPT !.node = new])
  BY DEF Refresh
<1>3. new \in NodeMaps
  BY <1>1 DEF Moved
<1> HIDE DEF new, h
<1>4. s \in NodeStatus \ {"WAIT_DEP"}
  BY <1>2, OverallTypes
<1>5. /\ h \in Graphs /\ h.node = new /\ h.lane = g.lane /\ h.completed = g.completed /\ h.status = s
      /\ [g EXCEPT !.node = new].node = new
  BY <1>2, <1>3, <1>4 DEF Graphs
<1>6. h.status = Overall(h)
  BY <1>2, <1>5, OverallTypes
<1>7. Completed(h) = Completed(g)
  BY <1>5 DEF Completed
<1>8. LanesSound(h)
  <2>1. \A n \in Nodes : g.node[n].status = "RUNNING" => h.node[n].status = "RUNNING"
    BY <1>1, <1>5 DEF Moved
  <2>2. \A l \in GraphLanes : g.lane[l] \in Nodes \cup {NoNode}
    BY DEF Graphs
  <2> QED
    BY <1>5, <2>1, <2>2 DEF LanesSound
<1>9. Barrier(h)
  <2>1. ASSUME NEW n \in Nodes
        PROVE  /\ h.node[n].status = "DONE" <=> n \in Completed(h)
               /\ h.node[n].status \in Ran => task.deps[n] \subseteq Completed(h)
               /\ h.node[n].generation > 0 => h.node[n].status \in {"RUNNING", "DONE", "ERROR"}
               /\ h.node[n].status = "WAIT_DEP" => task.deps[n] # {}
    <3>1. /\ h.node[n].generation = g.node[n].generation
          /\ \/ h.node[n].status = g.node[n].status
             \/ g.node[n].status = "WAIT_DEP" /\ h.node[n].status \in {"READY", "BLOCKED"}
          /\ g.node[n].status = "WAIT_DEP" /\ h.node[n].status = "READY"
              => \A d \in task.deps[n] : g.node[d].status = "DONE"
      BY <1>1, <1>5 DEF Moved
    <3>2. /\ g.node[n].status = "DONE" <=> n \in Completed(g)
          /\ g.node[n].status \in Ran => task.deps[n] \subseteq Completed(g)
          /\ g.node[n].generation > 0 => g.node[n].status \in {"RUNNING", "DONE", "ERROR"}
          /\ g.node[n].status = "WAIT_DEP" => task.deps[n] # {}
          /\ \A d \in task.deps[n] : g.node[d].status = "DONE" => d \in Completed(g)
      BY DEF Barrier, TaskTypes
    <3> QED
      BY <1>7, <3>1, <3>2 DEF Ran
  <2>2. \A i \in DOMAIN h.completed : task.deps[h.completed[i]] \subseteq {h.completed[j] : j \in 1..(i - 1)}
    BY <1>5 DEF Barrier
  <2> QED
    BY <2>1, <2>2 DEF Barrier
<1> QED
  BY <1>1, <1>5, <1>6, <1>8, <1>9 DEF h, new

-----------------------------------------------------------------------------
\* The places of two elements differ, and the first one has place 1.
LEMMA Places ==
    ASSUME NEW order, NEW k \in Nat, DOMAIN order = 1..k,
           \A i, j \in DOMAIN order : order[i] = order[j] => i = j,
           NEW S, \A x \in S : \E i \in DOMAIN order : order[i] = x
    PROVE  /\ \A x, y \in S : Place(order, S, x) = Place(order, S, y) => x = y
           /\ S # {} => \E x \in S : Place(order, S, x) = 1
<1> DEFINE Upto(n) == {i \in DOMAIN order : order[i] \in S /\ i <= n}
<1>1. ASSUME NEW n \in 1..k
      PROVE  Place(order, S, order[n]) = Cardinality(Upto(n)) /\ IsFiniteSet(Upto(n))
  <2>1. Upto(n) = {i \in DOMAIN order : order[i] \in S /\ \E j \in DOMAIN order : order[j] = order[n] /\ i <= j}
    BY <1>1
  <2>2. Upto(n) \subseteq 1..k /\ IsFiniteSet(1..k)
    BY FS_Interval
  <2> QED
    BY <2>1, <2>2, FS_Subset DEF Place
<1>2. ASSUME NEW m \in 1..k, NEW n \in 1..k, m < n, order[n] \in S
      PROVE  Cardinality(Upto(m)) # Cardinality(Upto(n))
  <2>1. Upto(m) \subseteq Upto(n) /\ n \in Upto(n) /\ n \notin Upto(m)
    BY <1>2
  <2> QED
    BY <1>1, <2>1, FS_Subset
<1>3. ASSUME NEW x \in S, NEW y \in S, Place(order, S, x) = Place(order, S, y)
      PROVE  x = y
  <2>1. PICK m \in 1..k : order[m] = x
    OBVIOUS
  <2>2. PICK n \in 1..k : order[n] = y
    OBVIOUS
  <2>3. ~(m < n) /\ ~(n < m)
    BY <1>1, <1>2, <1>3, <2>1, <2>2
  <2> QED
    BY <2>1, <2>2, <2>3
<1>4. ASSUME S # {}
      PROVE  \E x \in S : Place(order, S, x) = 1
  <2> DEFINE I == {i \in 1..k : order[i] \in S}
  <2>1. I \in SUBSET (0..k) /\ I # {}
    BY <1>4
  <2>2. PICK n \in I : \A j \in I : ~(j < n)
    <3> HIDE DEF I
    <3> QED
      BY <2>1, Least
  <2>3. Upto(n) = {n}
    BY <2>2
  <2> QED
    BY <1>1, <2>2, <2>3, FS_Singleton
<1> QED
  BY <1>3, <1>4

\* A pick takes a ready node to an idle lane, and no other pick takes either.
LEMMA PickFacts ==
    ASSUME task \in TaskTypes, NEW g \in Graphs
    PROVE  /\ \A d \in Picks(g) : /\ d.node \in Nodes /\ g.node[d.node].status = "READY"
                                  /\ d.lane \in GraphLanes /\ g.lane[d.lane] = NoNode
                                  /\ d \in Dispatches
           /\ \A c, d \in Picks(g) : c.node = d.node <=> c.lane = d.lane
<1> DEFINE ready == {n \in Nodes : g.node[n].status = "READY"}
           idle == {l \in GraphLanes : g.lane[l] = NoNode}
<1>1. ASSUME NEW d \in Picks(g)
      PROVE  /\ d.node \in ready /\ d.lane \in idle
             /\ Place(Order, ready, d.node) = Place(LaneOrder, idle, d.lane)
             /\ d = [node |-> d.node, lane |-> d.lane, generation |-> g.node[d.node].generation + 1]
  <2>1. PICK p \in ready \X idle :
          /\ d = [node |-> p[1], lane |-> p[2], generation |-> g.node[p[1]].generation + 1]
          /\ Place(Order, ready, p[1]) = Place(LaneOrder, idle, p[2])
    BY DEF Picks
  <2>2. p[1] \in ready /\ p[2] \in idle /\ d.node = p[1] /\ d.lane = p[2]
    BY <2>1
  <2> HIDE DEF ready, idle
  <2> QED
    BY <2>1, <2>2
<1>2. ASSUME NEW d \in Picks(g)
      PROVE  d \in Dispatches
  <2>1. d.node \in Nodes /\ d.lane \in GraphLanes /\ g.node[d.node].generation + 1 \in Nat
    <3>1. g.node \in NodeMaps /\ d.node \in Nodes /\ d.lane \in GraphLanes
      BY <1>1 DEF Graphs
    <3>2. g.node[d.node].generation \in 0..1
      BY <3>1, StatusTypes
    <3> QED
      BY <3>1, <3>2
  <2> DEFINE e == g.node[d.node].generation + 1
  <2>2. d = [node |-> d.node, lane |-> d.lane, generation |-> e] /\ e \in Nat
    BY <1>1, <2>1
  <2> HIDE DEF e
  <2> QED
    BY <2>1, <2>2 DEF Dispatches
<1>3. \A x, y \in ready : Place(Order, ready, x) = Place(Order, ready, y) => x = y
  <2>1. \A x \in ready : \E i \in DOMAIN Order : Order[i] = x
    BY DEF Nodes
  <2> HIDE DEF ready
  <2> QED
    BY <2>1, Listed, ParallelGraphAssumption, Places
<1>4. \A x, y \in idle : Place(LaneOrder, idle, x) = Place(LaneOrder, idle, y) => x = y
  <2>1. \A x \in idle : \E i \in DOMAIN LaneOrder : LaneOrder[i] = x
    BY DEF GraphLanes
  <2> HIDE DEF idle
  <2> QED
    BY <2>1, Listed, ParallelGraphAssumption, Places
<1>5. \A c, d \in Picks(g) : c.node = d.node <=> c.lane = d.lane
  <2> HIDE DEF ready, idle
  <2> QED
    BY <1>1, <1>3, <1>4
<1> QED
  BY <1>1, <1>2, <1>5

\* The picked nodes start on their lanes.
LEMMA StartSound ==
    ASSUME task \in TaskTypes, NEW g \in Graphs, Barrier(g), LanesSound(g)
    PROVE  LET h == Started(g, Picks(g)) IN h \in Graphs /\ Barrier(h) /\ LanesSound(h)
<1> DEFINE picks == Picks(g)
           h == Started(g, picks)
           picked == {d.node : d \in picks}
           taken == {d.lane : d \in picks}
           Of(l) == (CHOOSE d \in picks : d.lane = l).node
<1>1. \A n \in picked : n \in Nodes /\ g.node[n].status = "READY"
  BY PickFacts
<1>2. \A l \in taken : l \in GraphLanes /\ Of(l) \in picked /\ g.lane[l] = NoNode
  <2> SUFFICES ASSUME NEW l \in taken PROVE l \in GraphLanes /\ Of(l) \in picked /\ g.lane[l] = NoNode
    OBVIOUS
  <2>1. \E d \in picks : d.lane = l
    OBVIOUS
  <2>2. PICK d \in picks : d = (CHOOSE c \in picks : c.lane = l) /\ d.lane = l
    BY <2>1
  <2> QED
    BY <2>2, PickFacts
<1>3. \A k, l \in taken : Of(k) = Of(l) => k = l
  <2> SUFFICES ASSUME NEW k \in taken, NEW l \in taken, Of(k) = Of(l) PROVE k = l
    OBVIOUS
  <2>1. (\E d \in picks : d.lane = l) /\ (\E d \in picks : d.lane = k)
    OBVIOUS
  <2>2. PICK d \in picks : d = (CHOOSE c \in picks : c.lane = l) /\ d.lane = l
    BY <2>1
  <2>3. PICK c \in picks : c = (CHOOSE x \in picks : x.lane = k) /\ c.lane = k
    BY <2>1
  <2> QED
    BY <2>2, <2>3, PickFacts
<1> DEFINE nodes == [n \in Nodes |-> IF n \in picked
                                     THEN [status |-> "RUNNING", generation |-> g.node[n].generation + 1]
                                     ELSE g.node[n]]
           lanes == [l \in GraphLanes |-> IF l \in taken THEN Of(l) ELSE g.lane[l]]
<1>4. h = [g EXCEPT !.node = nodes, !.lane = lanes]
  <2>1. /\ \A n \in Nodes : (\E d \in picks : d.node = n) <=> n \in picked
        /\ \A l \in GraphLanes : (\E d \in picks : d.lane = l) <=> l \in taken
    OBVIOUS
  <2>2. nodes = [n \in Nodes |-> IF \E d \in picks : d.node = n
                                 THEN [status |-> "RUNNING", generation |-> g.node[n].generation + 1]
                                 ELSE g.node[n]]
    BY <2>1
  <2>3. lanes = [l \in GraphLanes |-> IF \E d \in picks : d.lane = l THEN Of(l) ELSE g.lane[l]]
    BY <2>1
  <2> HIDE DEF nodes, lanes, picks
  <2> QED
    BY <2>2, <2>3 DEF Started
<1>5. /\ g.node \in NodeMaps /\ g.lane \in [GraphLanes -> Nodes \cup {NoNode}]
      /\ \A n \in picked : g.node[n].generation = 0
  <2>1. g.node \in NodeMaps /\ g.lane \in [GraphLanes -> Nodes \cup {NoNode}]
    BY DEF Graphs
  <2>2. ASSUME NEW n \in picked
        PROVE  g.node[n].generation = 0
    <3>1. n \in Nodes /\ ~(g.node[n].generation > 0) /\ g.node[n].generation \in 0..1
      BY <1>1, <2>1, StatusTypes DEF Barrier
    <3> QED
      BY <3>1
  <2> QED
    BY <2>1, <2>2
<1> HIDE DEF picked, taken, Of
<1>6. /\ nodes \in NodeMaps
      /\ \A n \in picked : nodes[n].status = "RUNNING"
      /\ \A n \in Nodes \ picked : nodes[n] = g.node[n]
  <2>1. /\ \A n \in picked : [status |-> "RUNNING", generation |-> g.node[n].generation + 1]
                               \in [status : NodeStatus, generation : 0..1]
        /\ \A n \in Nodes : g.node[n] \in [status : NodeStatus, generation : 0..1]
    BY <1>1, <1>5 DEF NodeMaps, NodeStatus
  <2> QED
    BY <1>1, <2>1 DEF NodeMaps
<1>7. /\ lanes \in [GraphLanes -> Nodes \cup {NoNode}]
      /\ \A l \in taken : lanes[l] = Of(l)
      /\ \A l \in GraphLanes \ taken : lanes[l] = g.lane[l]
  BY <1>1, <1>2, <1>5
<1> HIDE DEF nodes, lanes, h
<1>8. h \in Graphs /\ h.node = nodes /\ h.lane = lanes /\ h.completed = g.completed
  BY <1>4, <1>6, <1>7 DEF Graphs
<1>9. LanesSound(h)
  <2>1. ASSUME NEW l \in GraphLanes, h.lane[l] # NoNode
        PROVE  h.node[h.lane[l]].status = "RUNNING"
    <3>1. CASE l \in taken
      BY <1>2, <1>6, <1>7, <1>8, <3>1
    <3>2. CASE l \notin taken
      <4>1. g.node[g.lane[l]].status = "RUNNING" /\ g.lane[l] \in Nodes /\ h.lane[l] = g.lane[l]
        BY <1>5, <1>7, <1>8, <2>1, <3>2 DEF LanesSound
      <4> QED
        BY <1>1, <1>6, <1>8, <4>1
    <3> QED
      BY <3>1, <3>2
  <2>2. ASSUME NEW k \in GraphLanes, NEW l \in GraphLanes, h.lane[k] = h.lane[l], h.lane[k] # NoNode
        PROVE  k = l
    <3>1. \A i \in GraphLanes \ taken : h.lane[i] = g.lane[i] /\ (h.lane[i] # NoNode => h.lane[i] \notin picked)
      <4> SUFFICES ASSUME NEW i \in GraphLanes \ taken
                   PROVE  h.lane[i] = g.lane[i] /\ (h.lane[i] # NoNode => h.lane[i] \notin picked)
        OBVIOUS
      <4>1. h.lane[i] = g.lane[i] /\ (g.lane[i] # NoNode => g.node[g.lane[i]].status = "RUNNING")
        BY <1>7, <1>8 DEF LanesSound
      <4> QED
        BY <1>1, <4>1
    <3>2. \A i \in taken : h.lane[i] = Of(i) /\ h.lane[i] \in picked
      BY <1>2, <1>7, <1>8
    <3>3. CASE k \in taken /\ l \in taken
      BY <1>3, <2>2, <3>2, <3>3
    <3>4. CASE k \notin taken /\ l \notin taken
      BY <2>2, <3>1, <3>4 DEF LanesSound
    <3> QED
      BY <2>2, <3>1, <3>2, <3>3, <3>4
  <2> QED
    BY <2>1, <2>2 DEF LanesSound
<1>10. Barrier(h)
  <2>1. Completed(h) = Completed(g)
    BY <1>8 DEF Completed
  <2>2. ASSUME NEW n \in Nodes
        PROVE  /\ h.node[n].status = "DONE" <=> n \in Completed(h)
               /\ h.node[n].status \in Ran => task.deps[n] \subseteq Completed(h)
               /\ h.node[n].generation > 0 => h.node[n].status \in {"RUNNING", "DONE", "ERROR"}
               /\ h.node[n].status = "WAIT_DEP" => task.deps[n] # {}
    <3>1. CASE n \in picked
      <4>1. h.node[n].status = "RUNNING" /\ g.node[n].status = "READY"
        BY <1>1, <1>6, <1>8, <3>1
      <4> QED
        BY <2>1, <4>1 DEF Barrier, Ran
    <3>2. CASE n \notin picked
      <4>1. h.node[n] = g.node[n]
        BY <1>6, <1>8, <3>2
      <4> QED
        BY <2>1, <4>1 DEF Barrier
    <3> QED
      BY <3>1, <3>2
  <2>3. \A i \in DOMAIN h.completed : task.deps[h.completed[i]] \subseteq {h.completed[j] : j \in 1..(i - 1)}
    BY <1>8 DEF Barrier
  <2> QED
    BY <2>2, <2>3 DEF Barrier
<1> QED
  BY <1>8, <1>9, <1>10 DEF h

\* A running node ends: its lane is idle again, and a pass completes it.
NodeFinished(g, d, pass) ==
    [g EXCEPT !.lane[d.lane] = NoNode,
              !.node[d.node].status = IF pass THEN "DONE" ELSE "ERROR",
              !.completed = IF pass THEN Append(@, d.node) ELSE @]

LEMMA FinishSound ==
    ASSUME task \in TaskTypes, NEW g \in Graphs, Barrier(g), LanesSound(g),
           NEW d \in Dispatches, NEW pass \in BOOLEAN,
           g.node[d.node].status = "RUNNING", g.lane[d.lane] = d.node
    PROVE  NodeFinished(g, d, pass) \in Graphs /\ Barrier(NodeFinished(g, d, pass)) /\ LanesSound(NodeFinished(g, d, pass))
<1> DEFINE n0 == d.node
           l0 == d.lane
           s == IF pass THEN "DONE" ELSE "ERROR"
           nodes == [g.node EXCEPT ![n0].status = s]
           lanes == [g.lane EXCEPT ![l0] = NoNode]
           list == IF pass THEN Append(g.completed, n0) ELSE g.completed
           h == NodeFinished(g, d, pass)
<1>1. /\ n0 \in Nodes /\ l0 \in GraphLanes /\ g.node \in NodeMaps /\ g.completed \in Seq(Nodes)
      /\ g.lane \in [GraphLanes -> Nodes \cup {NoNode}] /\ g.lane[l0] = n0 /\ g.node[n0].status = "RUNNING"
  BY DEF Dispatches, Graphs
<1>2. h = [g EXCEPT !.lane = lanes, !.node = nodes, !.completed = list]
  BY DEF NodeFinished, Graphs
<1>3. /\ nodes \in NodeMaps /\ nodes[n0].status = s /\ nodes[n0].generation = g.node[n0].generation
      /\ \A n \in Nodes \ {n0} : nodes[n] = g.node[n]
  <2>1. s \in NodeStatus
    BY DEF NodeStatus
  <2> HIDE DEF s, n0
  <2> QED
    BY <1>1, <2>1 DEF NodeMaps
<1>4. /\ lanes \in [GraphLanes -> Nodes \cup {NoNode}] /\ lanes[l0] = NoNode
      /\ \A l \in GraphLanes \ {l0} : lanes[l] = g.lane[l]
  <2> HIDE DEF l0
  <2> QED
    BY <1>1
<1>5. /\ list \in Seq(Nodes)
      /\ pass => Len(list) = Len(g.completed) + 1 /\ list[Len(list)] = n0
      /\ ~pass => list = g.completed
      /\ \A i \in 1..Len(g.completed) : list[i] = g.completed[i]
  BY <1>1
<1>6. s = "DONE" <=> pass
  OBVIOUS
<1>7. s \in {"DONE", "ERROR"}
  OBVIOUS
<1> HIDE DEF h, nodes, lanes, list, s, n0, l0
<1>8. h \in Graphs /\ h.node = nodes /\ h.lane = lanes /\ h.completed = list
  BY <1>2, <1>3, <1>4, <1>5 DEF Graphs
<1>9. LanesSound(h)
  <2>1. ASSUME NEW l \in GraphLanes, h.lane[l] # NoNode
        PROVE  h.node[h.lane[l]].status = "RUNNING" /\ h.lane[l] = g.lane[l] /\ l # l0
    <3>1. l # l0 /\ h.lane[l] = g.lane[l]
      BY <1>4, <1>8, <2>1
    <3>2. g.lane[l] # n0 /\ g.lane[l] \in Nodes /\ g.node[g.lane[l]].status = "RUNNING"
      BY <1>1, <2>1, <3>1 DEF LanesSound
    <3> QED
      BY <1>3, <1>8, <3>1, <3>2
  <2> QED
    BY <2>1 DEF LanesSound
<1>10. Barrier(h)
  <2>1. DOMAIN g.completed = 1..Len(g.completed) /\ DOMAIN list = 1..Len(list) /\ Len(g.completed) \in Nat
    BY <1>1, <1>5
  <2>2. Completed(h) = IF pass THEN Completed(g) \cup {n0} ELSE Completed(g)
    <3>1. CASE pass
      <4>0. Len(list) = Len(g.completed) + 1 /\ list[Len(list)] = n0
        BY <1>5, <3>1
      <4>1. Completed(h) \subseteq Completed(g) \cup {n0}
        BY <1>5, <1>8, <2>1, <4>0 DEF Completed
      <4>2. \A i \in DOMAIN g.completed : i \in DOMAIN list /\ list[i] = g.completed[i]
        BY <1>5, <2>1, <4>0
      <4>3. Len(list) \in DOMAIN list /\ list[Len(list)] = n0
        BY <1>5, <2>1, <4>0
      <4>4. Completed(g) \cup {n0} \subseteq Completed(h)
        BY <1>8, <4>2, <4>3 DEF Completed
      <4> QED
        BY <3>1, <4>1, <4>4
    <3>2. CASE ~pass
      BY <1>5, <1>8, <3>2 DEF Completed
    <3> QED
      BY <3>1, <3>2
  <2>3. /\ task.deps[n0] \subseteq Completed(g) /\ n0 \notin Completed(g)
        /\ Completed(g) \subseteq Completed(h)
    BY <1>1, <2>2 DEF Barrier, Ran
  <2>4. ASSUME NEW n \in Nodes
        PROVE  /\ h.node[n].status = "DONE" <=> n \in Completed(h)
               /\ h.node[n].status \in Ran => task.deps[n] \subseteq Completed(h)
               /\ h.node[n].generation > 0 => h.node[n].status \in {"RUNNING", "DONE", "ERROR"}
               /\ h.node[n].status = "WAIT_DEP" => task.deps[n] # {}
    <3>1. CASE n = n0
      BY <1>3, <1>6, <1>7, <1>8, <2>2, <2>3, <3>1
    <3>2. CASE n # n0
      <4>1. h.node[n] = g.node[n] /\ (n \in Completed(h) <=> n \in Completed(g))
        BY <1>3, <1>8, <2>2, <3>2
      <4> QED
        BY <2>3, <4>1 DEF Barrier
    <3> QED
      BY <3>1, <3>2
  <2>5. ASSUME NEW i \in DOMAIN h.completed
        PROVE  task.deps[h.completed[i]] \subseteq {h.completed[j] : j \in 1..(i - 1)}
    <3>1. CASE i \in 1..Len(g.completed)
      <4>1. /\ list[i] = g.completed[i] /\ task.deps[g.completed[i]] \subseteq {g.completed[j] : j \in 1..(i - 1)}
            /\ \A j \in 1..(i - 1) : list[j] = g.completed[j]
        <5>1. \A j \in 1..(i - 1) : j \in 1..Len(g.completed)
          BY <2>1, <3>1
        <5> QED
          BY <1>5, <2>1, <3>1, <5>1 DEF Barrier
      <4> QED
        BY <1>8, <4>1
    <3>2. CASE i \notin 1..Len(g.completed)
      <4>1. pass /\ i = Len(g.completed) + 1 /\ list[i] = n0
        <5>1. pass
          BY <1>5, <1>8, <2>1, <3>2
        <5>2. Len(list) = Len(g.completed) + 1 /\ list[Len(list)] = n0 /\ i \in 1..Len(list)
          BY <1>5, <1>8, <2>1, <5>1
        <5> QED
          BY <2>1, <3>2, <5>1, <5>2
      <4>2. \A x \in Completed(g) : \E j \in 1..(i - 1) : list[j] = x
        <5>1. i - 1 = Len(g.completed)
          BY <2>1, <4>1
        <5> QED
          BY <1>5, <2>1, <5>1 DEF Completed
      <4> QED
        BY <1>8, <2>3, <4>1, <4>2
    <3> QED
      BY <3>1, <3>2
  <2> QED
    BY <2>4, <2>5 DEF Barrier
<1> QED
  BY <1>8, <1>9, <1>10 DEF h

-----------------------------------------------------------------------------
LEMMA GraphStarts == GraphInit => GraphIInv
<1> SUFFICES ASSUME GraphInit PROVE GraphIInv
  OBVIOUS
<1> DEFINE nodes == [n \in Nodes |-> [status |-> IF task.deps[n] = {} THEN "READY" ELSE "WAIT_DEP",
                                      generation |-> 0]]
<1>1. /\ task \in TaskTypes /\ Acyclic(task.deps) /\ issued = {}
      /\ graph = [status |-> "READY", node |-> nodes, lane |-> [l \in GraphLanes |-> NoNode], completed |-> << >>]
  BY DEF GraphInit, TaskTypes
<1>2. /\ nodes \in NodeMaps
      /\ \A n \in Nodes : /\ nodes[n].generation = 0
                          /\ nodes[n].status = IF task.deps[n] = {} THEN "READY" ELSE "WAIT_DEP"
  <2>1. 0 \in 0..1
    OBVIOUS
  <2> QED
    BY <2>1 DEF NodeMaps, NodeStatus
<1> HIDE DEF nodes
<1>3. graph \in Graphs
  BY <1>1, <1>2 DEF Graphs, NodeStatus
<1>4. Barrier(graph)
  <2>1. Completed(graph) = {} /\ DOMAIN graph.completed = {}
    BY <1>1 DEF Completed
  <2> QED
    BY <1>1, <1>2, <2>1 DEF Barrier, Ran
<1>5. LanesSound(graph)
  BY <1>1 DEF LanesSound
<1>6. graph.status = Overall(graph)
  <2>1. \E n \in Nodes : TRUE
    BY Listed
  <2> QED
    BY <1>1, <1>2, <2>1 DEF Overall, With
<1> QED
  BY <1>1, <1>3, <1>4, <1>5, <1>6, GraphTypes DEF GraphIInv

LEMMA GraphStep == GraphIInv /\ [GraphNext]_graphVars => GraphIInv'
<1> SUFFICES ASSUME GraphIInv, [GraphNext]_graphVars PROVE GraphIInv'
  OBVIOUS
<1>1. /\ task \in TaskTypes /\ graph \in Graphs /\ issued \subseteq Dispatches
      /\ Acyclic(task.deps) /\ Barrier(graph) /\ LanesSound(graph)
  BY GraphTypes DEF GraphIInv
<1>2. /\ Refresh(graph) \in Graphs /\ Barrier(Refresh(graph)) /\ LanesSound(Refresh(graph))
      /\ Refresh(graph).status = Overall(Refresh(graph))
  BY <1>1, RefreshSound
<1>3. ASSUME NEW h \in Graphs, Barrier(h), LanesSound(h), h.status = Overall(h),
             graph' = h, task' = task, issued' \subseteq Dispatches
      PROVE  GraphIInv'
  <2>1. GraphTypeOK'
    BY <1>1, <1>3 DEF GraphTypeOK, Graphs, NodeMaps, TaskTypes
  <2>2. Barrier(graph)' /\ LanesSound(graph)' /\ (graph.status = Overall(graph))'
    BY <1>3 DEF Barrier, LanesSound, Overall, With, Completed
  <2> QED
    BY <1>1, <1>3, <2>1, <2>2 DEF GraphIInv
<1>4. CASE DispatchReady
  <2> DEFINE g == Refresh(graph)
             h == Started(g, Picks(g))
  <2>1. h \in Graphs /\ Barrier(h) /\ LanesSound(h)
    BY <1>1, <1>2, StartSound
  <2>2. /\ Refresh(h) \in Graphs /\ Barrier(Refresh(h)) /\ LanesSound(Refresh(h))
        /\ Refresh(h).status = Overall(Refresh(h))
    <3> HIDE DEF h
    <3> QED
      BY <1>1, <2>1, RefreshSound
  <2>3. graph' = Refresh(h) /\ task' = task /\ issued' \subseteq Dispatches
    BY <1>1, <1>2, <1>4, PickFacts DEF DispatchReady
  <2> HIDE DEF h, g
  <2> QED
    BY <1>3, <2>2, <2>3
<1>5. CASE RefreshOnly
  BY <1>1, <1>2, <1>3, <1>5 DEF RefreshOnly
<1>6. ASSUME NEW d \in issued, NEW pass \in BOOLEAN, CompleteNode(d, pass)
      PROVE  GraphIInv'
  <2> DEFINE h == NodeFinished(graph, d, pass)
  <2>1. graph' = Refresh(h) /\ task' = task /\ issued' = issued
    BY <1>6 DEF CompleteNode, NodeFinished
  <2>2. h \in Graphs /\ Barrier(h) /\ LanesSound(h)
    BY <1>1, <1>6, FinishSound DEF CompleteNode
  <2> HIDE DEF h
  <2>3. /\ Refresh(h) \in Graphs /\ Barrier(Refresh(h)) /\ LanesSound(Refresh(h))
        /\ Refresh(h).status = Overall(Refresh(h))
    BY <1>1, <2>2, RefreshSound
  <2> QED
    BY <1>1, <1>3, <2>1, <2>3
<1>7. CASE UNCHANGED graphVars
  <2>1. graph.status = Overall(graph) /\ graph' = graph /\ task' = task /\ issued' = issued
    BY <1>7 DEF graphVars, GraphIInv
  <2> QED
    BY <1>1, <1>3, <2>1
<1> QED
  BY <1>4, <1>5, <1>6, <1>7 DEF GraphNext

LEMMA GraphInvariant == GraphSpec => []GraphIInv
BY GraphStarts, GraphStep, PTL DEF GraphSpec

\* Statuses, generations, lanes and completed_order keep their types for every
\* acyclic graph: no node is dispatched twice.
THEOREM GraphTyped == GraphSpec => []GraphTypeOK
<1>1. GraphIInv => GraphTypeOK
  BY DEF GraphIInv
<1> QED
  BY <1>1, GraphInvariant, PTL

\* A node that was dispatched comes after all its dependencies, in completed_order
\* too, for any graph, list order and late or repeated results (refresh).
THEOREM BarrierHolds == GraphSpec => []BarrierHeld
<1>1. GraphIInv => BarrierHeld
  <2> SUFFICES ASSUME GraphIInv, NEW n \in Nodes
               PROVE  /\ graph.node[n].generation > 0 => task.deps[n] \subseteq Completed(graph)
                      /\ \A i \in DOMAIN graph.completed :
                           graph.completed[i] = n
                             => task.deps[n] \subseteq {graph.completed[j] : j \in 1..(i - 1)}
    BY DEF BarrierHeld
  <2>1. Barrier(graph)
    BY DEF GraphIInv
  <2> QED
    BY <2>1 DEF Barrier, Ran
<1> QED
  BY <1>1, GraphInvariant, PTL

\* While the task has not ended, a node runs or the next dispatch starts one, for
\* every acyclic graph: one pass in list order is enough.
THEOREM SchedulerNeverStuck == GraphSpec => []NeverStuck
<1>1. GraphIInv => NeverStuck
  <2> SUFFICES ASSUME GraphIInv, graph.status \notin NODE_TERMINAL, ~With(graph, "RUNNING")
               PROVE  Picks(Refresh(graph)) # {}
    BY DEF NeverStuck
  <2> DEFINE g == Refresh(graph)
             old == graph.node
             new == Pass(old)
  <2>1. /\ task \in TaskTypes /\ graph \in Graphs /\ Acyclic(task.deps) /\ Barrier(graph)
        /\ LanesSound(graph) /\ graph.status = Overall(graph)
    BY GraphTypes DEF GraphIInv
  <2>2. /\ \A n \in Nodes : old[n].status \in {"WAIT_DEP", "READY", "DONE"}
        /\ \E n \in Nodes : old[n].status # "DONE"
    <3>1. \A n \in Nodes : old[n].status \in NodeStatus
      BY <2>1, StatusTypes DEF Graphs
    <3>2. ~With(graph, "ERROR") /\ ~With(graph, "BLOCKED") /\ ~\A n \in Nodes : old[n].status = "DONE"
      BY <2>1 DEF Overall, NODE_TERMINAL
    <3> QED
      BY <3>1, <3>2 DEF With, NodeStatus
  <2>3. /\ g.node = new /\ g.lane = graph.lane /\ g.status = Overall(g) /\ Moved(old, new) /\ g \in Graphs
        /\ old \in NodeMaps
    BY <2>1, RefreshSound DEF Graphs
  <2>4. PICK n \in Nodes : old[n].status # "DONE" /\ \A d \in task.deps[n] : old[d].status = "DONE"
    <3> DEFINE S == {m \in Nodes : old[m].status # "DONE"}
    <3>0. S \subseteq Nodes /\ S # {}
      BY <2>2
    <3>1. \A T \in (SUBSET Nodes) \ {{}} : \E m \in T : task.deps[m] \cap T = {}
      BY <2>1 DEF Acyclic
    <3> HIDE DEF S
    <3>2. S \in (SUBSET Nodes) \ {{}}
      BY <3>0
    <3>3. PICK m \in S : task.deps[m] \cap S = {}
      BY <3>1, <3>2
    <3> QED
      BY <2>1, <3>3 DEF TaskTypes, S
  <2>5. new[n].status = "READY"
    <3>1. old[n].status = "WAIT_DEP" => new[n].status # "WAIT_DEP"
      BY <2>1, <2>3, <2>4, PassMoves DEF Barrier
    <3>2. ~\E m \in Nodes : old[m].status \in Bad
      BY <2>2 DEF Bad
    <3> QED
      BY <2>2, <2>3, <2>4, <3>1, <3>2 DEF Moved
  <2>6. \A m \in Nodes : new[m].status \in {"WAIT_DEP", "READY", "DONE"}
    BY <2>2, <2>3 DEF Moved, Bad
  <2> HIDE DEF g, new
  <2>7. g.status \notin NODE_TERMINAL
    BY <2>3, <2>5, <2>6 DEF Overall, With, NODE_TERMINAL
  <2> DEFINE ready == {m \in Nodes : g.node[m].status = "READY"}
             idle == {l \in GraphLanes : g.lane[l] = NoNode}
             running == Cardinality({m \in Nodes : g.node[m].status = "RUNNING"})
  <2>8. running = 0
    BY <2>3, <2>6, FS_EmptySet
  <2>9. idle = GraphLanes
    BY <2>1, <2>3 DEF LanesSound, With, Graphs
  <2>10. PICK m \in ready : Place(Order, ready, m) = 1
    <3>1. ready # {} /\ \A x \in ready : \E i \in DOMAIN Order : Order[i] = x
      BY <2>3, <2>5 DEF Nodes
    <3> HIDE DEF ready
    <3> QED
      BY <3>1, Listed, ParallelGraphAssumption, Places
  <2>11. PICK l \in idle : Place(LaneOrder, idle, l) = 1
    <3>1. idle # {} /\ \A x \in idle : \E i \in DOMAIN LaneOrder : LaneOrder[i] = x
      <4>1. 1 \in DOMAIN LaneOrder
        BY Listed
      <4>2. LaneOrder[1] \in GraphLanes /\ \A x \in GraphLanes : \E i \in DOMAIN LaneOrder : LaneOrder[i] = x
        BY <4>1 DEF GraphLanes
      <4> HIDE DEF idle
      <4> QED
        BY <2>9, <4>2
    <3> HIDE DEF idle
    <3> QED
      BY <3>1, Listed, ParallelGraphAssumption, Places
  <2>12. running + Place(Order, ready, m) <= task.max
    <3>1. task.max \in Nat \ {0}
      BY <2>1, ParallelGraphAssumption DEF TaskTypes
    <3> HIDE DEF ready, running
    <3> QED
      BY <2>8, <2>10, <3>1
  <2> DEFINE p == <<m, l>>
  <2>13. /\ p \in ready \X idle /\ p[1] = m /\ p[2] = l
         /\ Place(Order, ready, p[1]) = Place(LaneOrder, idle, p[2])
    BY <2>10, <2>11
  <2>14. [node |-> p[1], lane |-> p[2], generation |-> g.node[p[1]].generation + 1] \in Picks(g)
    <3> HIDE DEF p
    <3> QED
      BY <2>7, <2>12, <2>13 DEF Picks
  <2> QED
    BY <2>14 DEF g
<1> QED
  BY <1>1, GraphInvariant, PTL
=============================================================================
