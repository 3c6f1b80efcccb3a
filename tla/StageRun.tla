------------------------------ MODULE StageRun ------------------------------
(***************************************************************************)
(* One task in the deterministic executor (harness/single_thread.py,       *)
(* dispatch.py, resource_wait.py and the workflows that run them): an      *)
(* action is claimed, executed and verified by a job that works on its own *)
(* checkout and publishes every step.  While it runs, Bridge, Worker,      *)
(* capability probe and Foreground write the same command lists on the     *)
(* canonical branch; a step whose files changed there is refused, keeps its*)
(* commits and the job goes on to the steps that always run.               *)
(***************************************************************************)
EXTENDS Naturals

CONSTANTS
    MaxActions,   \* bound: actions submitted for the task
    MaxEdits,     \* bound: edits of the foreground CL by others
    MaxMishaps    \* bound: publications that fail or whose outcome is lost

ASSUME StageRunAssumption == MaxActions \in Nat /\ MaxEdits \in Nat /\ MaxMishaps \in Nat

VARIABLES
    kind,     \* how the action is bound to a Worker
    main,     \* backend CL, foreground CL and result file on the canonical branch
    stage,    \* the job of the concurrency group
    probe,    \* the capability probe of the task
    sentWakes,\* wakes handed to the Bridge: generations of the dispatch
    counts    \* actions, edits and mishaps so far

stageVars == <<kind, main, stage, probe, sentWakes, counts>>

TaskKinds == {"branch", "worker", "plain"}
Continues(k) == k # "plain"
ResultStatus == {"PASS", "ERROR", "BLOCKED", "NEED"}
DispatchStates == {"NONE", "READY", "RUNNING", "WAIT_RESULT", "WAIT_RESOURCE", "DONE"}
Overalls == {"READY", "RUNNING", "GREEN", "ERROR", "BLOCKED"}
Deliveries == {"PENDING", "CLAIMED", "DELIVERED", "CONSUMED"}

\* rev changes with every write, as updated_at does.  continues: the action
\* whose result the dispatch continues.  0 stands for no action.
Backends == [gen : Nat, state : DispatchStates, wait : 0..MaxActions,
             continues : 0..MaxActions, overall : Overalls, rev : Nat]
TerminalEvents == [action : 0..MaxActions, status : ResultStatus, delivery : Deliveries]
Foregrounds == [overall : Overalls, event : TerminalEvents, rev : Nat]
Results == [action : 0..MaxActions, status : ResultStatus]
Trees == [bg : Backends, fg : Foregrounds, result : Results]

JobSteps == {"idle", "claim", "execute", "verify", "continue", "wake"}
Jobs == [at : JobSteps, action : 0..MaxActions, base : Trees, tree : Trees,
         scheduled : Nat, resourceWait : BOOLEAN]

StageTypeOK ==
    /\ kind \in TaskKinds
    /\ main \in Trees
    /\ stage \in Jobs
    /\ probe \in [at : {"idle", "publish"}, base : Trees, tree : Trees]
    /\ sentWakes \subseteq Nat
    /\ counts \in [actions : 0..MaxActions, edits : 0..MaxEdits, mishaps : 0..MaxMishaps]

NoEvent == [action |-> 0, status |-> "PASS", delivery |-> "CONSUMED"]
Start(k) ==
    [bg |-> [gen |-> IF k = "branch" THEN 1 ELSE 0,
             state |-> IF k = "branch" THEN "RUNNING" ELSE "NONE",
             wait |-> 0, continues |-> 0, overall |-> "READY", rev |-> 0],
     fg |-> [overall |-> "RUNNING", event |-> NoEvent, rev |-> 0],
     result |-> [action |-> 0, status |-> "PASS"]]

Idle(t) == [at |-> "idle", action |-> 0, base |-> t, tree |-> t,
            scheduled |-> 0, resourceWait |-> FALSE]

StageInit ==
    /\ kind \in TaskKinds
    /\ main = Start(kind)
    /\ stage = Idle(Start(kind))
    /\ probe = [at |-> "idle", base |-> Start(kind), tree |-> Start(kind)]
    /\ sentWakes = {}
    /\ counts = [actions |-> 0, edits |-> 0, mishaps |-> 0]

Wrote(file, new) == [new EXCEPT !.rev = file.rev + 1]

-----------------------------------------------------------------------------
\* Publication of a tree made from a base: fetch, rebase and push.  A file that
\* changed on both sides is a conflict; the commits stay in the workspace.
Changed(new, old, f) == new[f] # old[f]
\* Mutant of Conflicting: the runner's side wins, except in a result file.
ConflictingResult(base, tree) == Changed(tree, base, "result") /\ Changed(main, base, "result")
Conflicting(base, tree) ==
    \E f \in {"bg", "fg", "result"} : Changed(tree, base, f) /\ Changed(main, base, f)
Rebased(base, tree) ==
    [bg |-> IF Changed(tree, base, "bg") THEN tree.bg ELSE main.bg,
     fg |-> IF Changed(tree, base, "fg") THEN tree.fg ELSE main.fg,
     result |-> IF Changed(tree, base, "result") THEN tree.result ELSE main.result]

Mishap == counts.mishaps < MaxMishaps /\ counts' = [counts EXCEPT !.mishaps = @ + 1]

\* A step of the job commits tree and publishes; the job goes to ok or else.
PublishStep(tree, ok, else, job) ==
    LET rebased == Rebased(stage.base, tree) IN
    \/ /\ Conflicting(stage.base, tree)
       /\ stage' = [job EXCEPT !.at = else, !.tree = tree]
       /\ UNCHANGED <<main, counts>>
    \/ /\ ~Conflicting(stage.base, tree)
       /\ main' = rebased
       /\ stage' = [job EXCEPT !.at = ok, !.tree = rebased, !.base = rebased]
       /\ UNCHANGED counts
    \/ /\ ~Conflicting(stage.base, tree)
       /\ Mishap
       /\ \/ /\ main' = main
             /\ stage' = [job EXCEPT !.at = else, !.tree = rebased, !.base = main]
          \/ /\ main' = rebased
             /\ stage' = [job EXCEPT !.at = else, !.tree = rebased, !.base = rebased]

-----------------------------------------------------------------------------
\* stage_action_submit for a semantic dispatch; a task without one has its
\* action committed by Foreground.  The job checks out the triggering commit.
Submit ==
    /\ stage.at = "idle" /\ counts.actions < MaxActions
    /\ IF kind = "plain" \/ main.bg.state = "NONE"
       THEN UNCHANGED main
       ELSE /\ main.bg.state = "RUNNING"
            /\ main' = [main EXCEPT
                 !.bg = Wrote(@, [@ EXCEPT !.state = "WAIT_RESULT", !.overall = "RUNNING",
                                           !.wait = counts.actions + 1]),
                 !.fg = Wrote(@, [@ EXCEPT !.overall = "RUNNING"])]
    /\ counts' = [counts EXCEPT !.actions = @ + 1]
    /\ stage' = [Idle(main') EXCEPT !.at = "claim", !.action = counts.actions + 1]
    /\ UNCHANGED <<kind, probe, sentWakes>>

\* What claim writes on both command lists.
ClaimTree(t) ==
    [t EXCEPT !.bg = Wrote(t.bg, [t.bg EXCEPT !.overall = "RUNNING"]),
              !.fg = Wrote(t.fg, IF kind = "branch" THEN [t.fg EXCEPT !.overall = "RUNNING"] ELSE t.fg)]

Claim ==
    /\ stage.at = "claim"
    /\ PublishStep(ClaimTree(stage.tree), "execute", "continue", stage)
    /\ UNCHANGED <<kind, probe, sentWakes>>

\* enter_resource_wait.
EnterResourceWait(bg) ==
    IF bg.state \in {"RUNNING", "WAIT_RESULT", "WAIT_RESOURCE"}
    THEN [bg EXCEPT !.state = "WAIT_RESOURCE", !.wait = 0, !.overall = "RUNNING"]
    ELSE bg

Verdict(status) == IF status \in {"BLOCKED", "NEED"} THEN "BLOCKED" ELSE "ERROR"

\* The command lists after a result: a branch goes on, and waits for a resource
\* it needs; any other task ends with a result that is no PASS.
Executed(t, status) ==
    LET branch == kind = "branch"
        goesOn == branch \/ status = "PASS"
        bg == [t.bg EXCEPT !.overall = IF goesOn THEN "RUNNING" ELSE Verdict(status)]
    IN  [t EXCEPT !.result = [action |-> stage.action, status |-> status],
                  !.bg = Wrote(t.bg, IF branch /\ status = "NEED" THEN EnterResourceWait(bg) ELSE bg),
                  !.fg = Wrote(t.fg, [t.fg EXCEPT !.overall = IF branch THEN "RUNNING"
                                                              ELSE IF goesOn THEN @
                                                              ELSE Verdict(status)])]

\* The executor leaves a result of its own, or the harness writes an ERROR for
\* it (timed out, exited without a result, the file of another action).
Execute(status) ==
    /\ stage.at = "execute"
    /\ PublishStep(Executed(stage.tree, status), "verify", "continue", stage)
    /\ UNCHANGED <<kind, probe, sentWakes>>

\* publish_foreground_terminal_event: one event for each result; another result
\* is refused until the event before it is consumed.
Event(status) == [action |-> stage.action, status |-> status, delivery |-> "PENDING"]
\* Mutant of Refused: the next event replaces the one before.
RefusedNever(old) == FALSE
Refused(old) == old.action \notin {0, stage.action} /\ old.delivery # "CONSUMED"

\* verify() on a branch: its Worker goes on with whatever came out, unless a
\* need of a resource is not backed by evidence.
VerifiedBranch(t, verified) ==
    LET need == t.result.status = "NEED"
        bg == IF need THEN EnterResourceWait(t.bg) ELSE t.bg
    IN  IF need /\ ~verified
        THEN [t EXCEPT !.bg.overall = "ERROR"]
        ELSE [t EXCEPT !.bg = [bg EXCEPT !.overall = "RUNNING"], !.fg.overall = "RUNNING"]

\* verify() on a task that has a Worker, or none: then this is its end.
VerifiedTask(t, verified) ==
    LET s == t.result.status
        overall == IF kind = "worker" THEN "RUNNING"
                   ELSE IF kind = "plain" /\ s = "PASS" /\ verified THEN "GREEN"
                   ELSE Verdict(s)
    IN  [t EXCEPT !.bg.overall = overall, !.fg.overall = overall]

Verify(verified) ==
    /\ stage.at = "verify"
    /\ LET t == stage.tree
           old == t.fg.event
           event == IF ~verified \/ Continues(kind) \/ old.action = stage.action
                    THEN old ELSE Event(t.result.status)
           new == IF kind = "branch" THEN VerifiedBranch(t, verified)
                  ELSE VerifiedTask(t, verified)
       IN  IF event # old /\ Refused(old)
           THEN PublishStep(t, "continue", "continue", stage)
           ELSE PublishStep([new EXCEPT !.bg = Wrote(t.bg, new.bg),
                                        !.fg = Wrote(t.fg, [new.fg EXCEPT !.event = event])],
                            "continue", "continue", stage)
    /\ UNCHANGED <<kind, probe, sentWakes>>

\* Mutant of MaySchedule: the result is not looked at.
MayScheduleUnfinished(t) ==
    \/ t.bg.state = "NONE"
    \/ t.bg.state = "WAIT_RESULT" /\ t.bg.wait = stage.action

\* continue_after_result: the next generation of the waiting dispatch, from a
\* result of this very action; the first of a task without one.
MaySchedule(t) ==
    /\ t.result.action = stage.action
    /\ \/ t.bg.state = "NONE"
       \/ t.bg.state = "WAIT_RESULT" /\ t.bg.wait = stage.action

\* The generation is noted for the wake before the commit is published.
Continue ==
    /\ stage.at = "continue"
    /\ LET t == stage.tree
           next == [t.bg EXCEPT !.gen = @ + 1, !.state = "READY", !.wait = 0,
                                !.continues = stage.action, !.overall = "READY"]
       IN  IF Continues(kind) /\ t.bg.state # "WAIT_RESOURCE" /\ MaySchedule(t)
           THEN PublishStep([t EXCEPT !.bg = Wrote(t.bg, next)], "wake", "wake",
                            [stage EXCEPT !.scheduled = next.gen])
           ELSE /\ stage' = [stage EXCEPT !.at = "wake",
                                          !.resourceWait = t.bg.state = "WAIT_RESOURCE"]
                /\ UNCHANGED <<main, counts>>
    /\ UNCHANGED <<kind, probe, sentWakes>>

\* emit_wake for the scheduled generation; without one the wake names no
\* dispatch (generation 0) and the Bridge cannot admit it.
Wake ==
    /\ stage.at = "wake"
    /\ sentWakes' = IF Continues(kind) /\ ~stage.resourceWait
                    THEN sentWakes \cup {stage.scheduled} ELSE sentWakes
    /\ stage' = Idle(main)
    /\ UNCHANGED <<kind, main, probe, counts>>

-----------------------------------------------------------------------------
\* The Bridge admits a wake of the current generation, the Worker starts.
Admit ==
    /\ main.bg.state = "READY" /\ main.bg.gen \in sentWakes
    /\ main' = [main EXCEPT !.bg = Wrote(@, [@ EXCEPT !.state = "RUNNING",
                                                      !.overall = "RUNNING"])]
    /\ UNCHANGED <<kind, stage, probe, sentWakes, counts>>

\* The Worker ends its task, with or without waiting for its action.
BranchEnds ==
    /\ kind = "branch" /\ main.bg.state \in {"RUNNING", "WAIT_RESULT"}
    /\ main' = [main EXCEPT !.bg = Wrote(@, [@ EXCEPT !.state = "DONE", !.wait = 0,
                                                      !.overall = "GREEN"]),
                            !.fg = Wrote(@, @)]
    /\ UNCHANGED <<kind, stage, probe, sentWakes, counts>>

\* resume_after_capability on the checkout of the probe's request.
ProbeResume ==
    /\ probe.at = "idle" /\ main.bg.state = "WAIT_RESOURCE"
    /\ LET next == [main.bg EXCEPT !.gen = @ + 1, !.state = "READY", !.wait = 0,
                                   !.overall = "READY"]
       IN  probe' = [at |-> "publish", base |-> main,
                     tree |-> [main EXCEPT !.bg = Wrote(main.bg, next)]]
    /\ UNCHANGED <<kind, main, stage, sentWakes, counts>>

\* The wake follows only a publication that succeeded.
ProbePublish ==
    /\ probe.at = "publish"
    /\ LET conflict == Conflicting(probe.base, probe.tree)
           rebased  == Rebased(probe.base, probe.tree)
       IN  \/ /\ ~conflict
              /\ main' = rebased
              /\ sentWakes' = sentWakes \cup {probe.tree.bg.gen}
              /\ UNCHANGED counts
           \/ /\ conflict
              /\ UNCHANGED <<main, sentWakes, counts>>
           \/ /\ ~conflict
              /\ Mishap
              /\ main' \in {main, rebased}
              /\ UNCHANGED sentWakes
    /\ probe' = [probe EXCEPT !.at = "idle", !.base = main', !.tree = main']
    /\ UNCHANGED <<kind, stage>>

\* The delivery of a terminal event to the Foreground conversation advances.
\* It is found only while the result it names is still there.
AdvanceDelivery ==
    /\ main.fg.event.action # 0
    /\ main.result.action = main.fg.event.action
    /\ \E step \in {<<"PENDING", "CLAIMED">>, <<"CLAIMED", "DELIVERED">>,
                    <<"DELIVERED", "CONSUMED">>} :
         /\ main.fg.event.delivery = step[1]
         /\ main' = [main EXCEPT !.fg = Wrote(@, [@ EXCEPT !.event.delivery = step[2]])]
    /\ UNCHANGED <<kind, stage, probe, sentWakes, counts>>

\* Foreground edits its command list.
EditForeground ==
    /\ counts.edits < MaxEdits
    /\ counts' = [counts EXCEPT !.edits = @ + 1]
    /\ main' = [main EXCEPT !.fg = Wrote(@, @)]
    /\ UNCHANGED <<kind, stage, probe, sentWakes>>

StageNext ==
    \/ Submit
    \/ Claim
    \/ \E s \in IF kind = "branch" THEN ResultStatus ELSE ResultStatus \ {"NEED"} : Execute(s)
    \/ \E v \in BOOLEAN : Verify(v)
    \/ Continue
    \/ Wake
    \/ Admit
    \/ BranchEnds
    \/ ProbeResume
    \/ ProbePublish
    \/ AdvanceDelivery
    \/ EditForeground

StageSpec == StageInit /\ [][StageNext]_stageVars

-----------------------------------------------------------------------------
\* A dispatch that continues an action is on the branch together with the
\* result it continues: no Worker is woken for a result that is not durable,
\* even when an earlier step of the job could not be published.
ContinuationHasResult ==
    main.bg.continues > 0 => main.result.action >= main.bg.continues

\* The dispatch of the task moves by fences only: the generation grows by one,
\* from a dispatch that waits or from none, and one that ended never moves
\* again, although job and probe work on old checkouts.
FencedAdvance ==
    [][/\ main'.bg.gen # main.bg.gen
            => /\ main'.bg.gen = main.bg.gen + 1
               /\ main.bg.state \in {"NONE", "WAIT_RESULT", "WAIT_RESOURCE"}
               /\ main'.bg.state = "READY"
       /\ main.bg.state = "DONE" => main'.bg.state = "DONE"]_stageVars

\* A terminal event on the branch tells the outcome its action has there, and
\* is replaced only after it was consumed (single_thread.py: refuses to replace
\* an unconsumed event).
TerminalTruthful ==
    [][main'.fg.event.action # main.fg.event.action
         => /\ main.fg.event.delivery = "CONSUMED"
            /\ main'.fg.event.action = main'.result.action
            /\ main'.fg.event.status = main'.result.status]_stageVars
=============================================================================
