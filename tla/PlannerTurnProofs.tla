-------------------------- MODULE PlannerTurnProofs --------------------------
(***************************************************************************)
(* Proofs about the Planner's turn, for any lanes, Helpers, contract       *)
(* revisions and generations.  The inductive invariant says how many more  *)
(* dispatches a lane may still get, that a rotation has a generation left, *)
(* and that a Helper whose result was not reported has no event yet.       *)
(***************************************************************************)
EXTENDS PlannerTurn, TLAPS

\* Dispatches of the lane, with those already asked for.
Reserved(l) ==
    dispatches[l] + (IF paper.slots[l] \in {"DIRECTION", "REJECT"} THEN 1 ELSE 0)
    + (IF backend[l] = "CONTINUE" /\ children[l].state = "WAITING" THEN 1 ELSE 0)

\* A lane stays within its dispatches, whatever is asked for it, and a child at
\* its checkpoint has one left.
LaneBudget(l) ==
    /\ children[l].gen <= dispatches[l]
    /\ children[l].state = "WAITING" => children[l].gen > 0
    /\ Reserved(l) <= MaxDispatch
    /\ children[l].state = "REVIEW_PENDING" => dispatches[l] < MaxDispatch
Budget == \A l \in Lanes : LaneBudget(l)

\* While the successor is being created there is a generation left for it.
GenerationLeft == successor = "REQUESTED" => authority.gen < MaxGen

\* The Planner has seen no revision that does not exist yet.
RevisionSeen == known <= contract

\* A Helper that was not reported has no event.
HelperFresh ==
    \A h \in Helpers : helpers[h].state # "EMITTED" => events[HelperResult(h)] = "ABSENT"

IInv ==
    /\ TypeOK /\ Budget /\ GenerationLeft /\ RevisionSeen /\ HelperFresh
    /\ ClaimedIsRung /\ OneOwner /\ OpenTurnIsAsked /\ ParkedHasWake

-----------------------------------------------------------------------------
(* Types.                                                                  *)

\* A step keeps the status of the cell well-typed.
LEMMA CellStep ==
  ASSUME TypeOK, [Next]_vars
  PROVE  CellTypes'
<1> USE DEF TypeOK, CellTypes, Activities, Waits
<1>1. CASE UNCHANGED cell
  BY <1>1 DEF cell
<1>2. CASE UNCHANGED vars
  BY <1>1, <1>2 DEF vars
<1>3. EditContract \/ Planner \/ OtherCell => UNCHANGED cell
  BY DEF EditContract, Planner, OtherCell, WriteSlot, WriteOutcome
<1>4. ASSUME NEW l \in Lanes, NEW s \in {"CONTINUE", "PASS"}, WorkerEnds(l, s)
      PROVE  UNCHANGED cell
  BY <1>4 DEF WorkerEnds
<1>5. ASSUME NEW h \in Helpers, NEW f \in {"READY", "DONE"}, HelperWrites(h, f)
      PROVE  UNCHANGED cell
  BY <1>5 DEF HelperWrites
<1>6. CASE ReduceTurn
  BY <1>6
  DEF ReduceTurn, ReduceContinue, ReduceWait, ReduceNeedHelper, ReduceNeedUser, ReduceError,
      ReduceComplete, Reduce
<1>7. ASSUME NEW h \in Helpers, HelperDone(h) PROVE CellTypes'
  BY <1>7 DEF HelperDone
<1>8. CASE Rotate
  BY <1>8 DEF Rotate
<1>8a. CASE Handoff \/ RequestRotation \/ RotateDue
  BY <1>8, <1>8a DEF Handoff, RequestRotation, RotateDue
<1>9. CASE Tick
  <2>1. CASE IntentEvent \/ RequestRetire
    BY <2>1 DEF IntentEvent, RequestRetire, cell
  <2>2. CASE Ring
    BY <2>2 DEF Ring, cell
  <2>3. ASSUME NEW l \in Lanes, AutoContinue(l) \/ ResultEvent(l) PROVE CellTypes'
    BY <2>3 DEF AutoContinue, ResultEvent, cell
  <2>4. ASSUME NEW h \in Helpers, StageHelper(h) \/ HelperEvent(h) PROVE CellTypes'
    BY <2>4 DEF StageHelper, HelperEvent, cell
  <2>5. QED BY <1>9, <2>1, <2>2, <2>3, <2>4, <1>8a DEF Tick
<1>10. CASE Browser
  BY <1>10
  DEF Browser, PromptDone, HelperPromptDone, BootstrapDone, PromoteDone, RetireDone, Claim,
      Delivered, Answered, Cleaned, Consumed, Deliver, TerminalReset, cell
<1>11. ASSUME NEW r \in BOOLEAN, WatchdogReplay(r) PROVE UNCHANGED cell
  BY <1>11 DEF WatchdogReplay
<1>12. QED BY <1>1, <1>2, <1>3, <1>4, <1>5, <1>6, <1>7, <1>8a, <1>9, <1>10, <1>11 DEF Next

-----------------------------------------------------------------------------
(* What a step does to the events and the turn.                            *)

Kept == UNCHANGED <<events, doorbell, turn>>
Inserted(e) ==
    /\ events' = Insert(e) /\ UNCHANGED <<doorbell, turn>>
    /\ \A h \in Helpers : e = HelperResult(h) => helpers'[h].state = "EMITTED"
Reduced ==
    /\ TurnDue /\ turn = doorbell
    /\ events' = [e \in Events |-> IF e \in doorbell.events THEN "CONSUMED" ELSE events[e]]
    /\ doorbell' = NoBell /\ turn' = NoBell
Rung(g, E) ==
    /\ doorbell.events \subseteq E /\ E \subseteq Pending \cup doorbell.events
    /\ events' = [e \in Events |-> IF e \in E THEN "CLAIMED" ELSE events[e]]
    /\ doorbell' = Bell(g, E) /\ turn' = doorbell'
Cleared ==
    /\ events' = [e \in Events |-> "ABSENT"] /\ doorbell' = NoBell /\ turn' = NoBell
    /\ closed'
InboxStep ==
    \/ Kept \/ Reduced \/ Cleared
    \/ \E e \in Events : Inserted(e)
    \/ \E g \in 1..MaxGen, E \in SUBSET Events : Rung(g, E)

\* Every step treats the inbox in one of five ways: it leaves it alone, it
\* inserts an event, it rings the doorbell, it reduces the open turn, or it
\* ends the task.
LEMMA InboxSteps ==
  ASSUME TypeOK, Budget, RevisionSeen, [Next]_vars
  PROVE  InboxStep
<1> USE DEF InboxStep
<1>1. CASE UNCHANGED vars
  BY <1>1 DEF vars, inbox, Kept
<1>2. EditContract \/ Planner \/ OtherCell => Kept
  BY DEF EditContract, Planner, OtherCell, WriteSlot, WriteOutcome, inbox, Kept
<1>3. ASSUME NEW l \in Lanes, NEW s \in {"CONTINUE", "PASS"}, WorkerEnds(l, s) PROVE Kept
  BY <1>3 DEF WorkerEnds, inbox, Kept
<1>4. ASSUME NEW h \in Helpers, NEW f \in {"READY", "DONE"}, HelperWrites(h, f) PROVE Kept
  BY <1>4 DEF HelperWrites, inbox, Kept
<1>5. CASE ReduceTurn
  <2>1. CASE ReduceComplete
    BY <2>1 DEF ReduceComplete, EndTurn, Cleared
  <2>2. ASSUME NEW act, NEW on, Reduce(act, on) PROVE Reduced
    BY <2>2 DEF Reduce, Reducible, EndTurn, Reduced
  <2>3. QED
    BY <1>5, <2>1, <2>2
    DEF ReduceTurn, ReduceContinue, ReduceWait, ReduceNeedHelper, ReduceNeedUser, ReduceError
<1>6. ASSUME NEW h \in Helpers, HelperDone(h) PROVE Kept
  BY <1>6 DEF HelperDone, inbox, Kept
<1>7. ASSUME Rotate PROVE \E g \in 1..MaxGen, E \in SUBSET Events : Rung(g, E)
  <2> DEFINE E == Pending \cup doorbell.events
  <2>1. authority.gen + 1 \in 1..MaxGen
    <3>1. authority.gen \in 1..MaxGen
      BY DEF TypeOK, SuccessionTypes
    <3>2. authority.gen < MaxGen
      BY <1>7 DEF Rotate
    <3>3. QED BY <3>1, <3>2, PlannerTurnAssumption
  <2>2. E \in SUBSET Events
    BY DEF TypeOK, InboxTypes, Pending
  <2>3. Rung(authority.gen + 1, E)
    BY <1>7 DEF Rotate, Rung
  <2>4. QED BY <2>1, <2>2, <2>3
<1>8. CASE Ring
  <2>1. authority.gen \in 1..MaxGen /\ Claimable \in SUBSET Events
    BY DEF TypeOK, SuccessionTypes, Claimable, Pending
  <2>2. Rung(authority.gen, Claimable)
    BY <1>8 DEF Ring, RingDue, Rung, Claimable, NoBell, Bell
  <2>3. QED BY <2>1, <2>2
<1>9. CASE IntentEvent
  <2>1. ForegroundIntent(contract) \in Events
    <3>1. known \in 0..MaxRevisions /\ contract \in 0..MaxRevisions /\ known <= contract
      BY DEF TypeOK, OtherTypes, RevisionSeen
    <3>2. known # contract
      BY <1>9 DEF IntentEvent, IntentDue
    <3>3. contract \in 1..MaxRevisions
      BY <3>1, <3>2, PlannerTurnAssumption
    <3>4. QED BY <3>3 DEF Events, Intents
  <2>2. Inserted(ForegroundIntent(contract))
    BY <1>9 DEF IntentEvent, Inserted, HelperResult, ForegroundIntent
  <2>3. QED BY <2>1, <2>2
<1>10. ASSUME NEW l \in Lanes, AutoContinue(l) PROVE Kept
  BY <1>10 DEF AutoContinue, inbox, Kept
<1>11. ASSUME NEW l \in Lanes, ResultEvent(l) PROVE InboxStep
  <2>1. Inserted(WorkerResult(l, dispatches[l]))
    BY <1>11 DEF ResultEvent, Inserted, HelperResult, WorkerResult
  <2>2. WorkerResult(l, dispatches[l]) \in Events
    BY <1>11, PlannerTurnAssumption DEF ResultEvent, TypeOK, WorkTypes, Budget, LaneBudget, Events
  <2>3. QED BY <2>1, <2>2
<1>12. ASSUME NEW h \in Helpers, StageHelper(h) PROVE Kept
  BY <1>12 DEF StageHelper, inbox, Kept
<1>13. ASSUME NEW h \in Helpers, HelperEvent(h) PROVE InboxStep
  <2>1. HelperResult(h) \in Events
    BY DEF Events
  <2>2. helpers'[h].state = "EMITTED"
    BY <1>13 DEF HelperEvent, TypeOK, OtherTypes
  <2>3. Inserted(HelperResult(h))
    BY <1>13, <2>2 DEF HelperEvent, Inserted, HelperResult
  <2>4. QED BY <2>1, <2>3
<1>14. RequestRetire => Kept
  BY DEF RequestRetire, inbox, Kept
<1>15. CASE Cleaned \/ Consumed
  BY <1>15 DEF Cleaned, Consumed, TerminalReset, EndTurn, Cleared
<1>16. PromptDone \/ HelperPromptDone \/ BootstrapDone \/ PromoteDone \/ RetireDone
         \/ Claim \/ Delivered \/ Answered => Kept
  BY DEF PromptDone, HelperPromptDone, BootstrapDone, PromoteDone, RetireDone, Claim,
     Delivered, Answered, Deliver, inbox, Kept
<1>17. ASSUME NEW r \in BOOLEAN, WatchdogReplay(r) PROVE Kept
  BY <1>17 DEF WatchdogReplay, Kept
<1>18. QED
  BY <1>1, <1>2, <1>3, <1>4, <1>5, <1>6, <1>7, <1>8, <1>9, <1>10, <1>11, <1>12, <1>13, <1>14,
     <1>15, <1>16, <1>17
  DEF Next, Tick, Browser, Handoff, RequestRotation, RotateDue

\* What a step does to the pending output and the papers of the turn.
LEMMA PendingStep ==
  ASSUME TypeOK, [Next]_vars
  PROVE  pending' \in {"NONE", "DELIVERY_PENDING", "WAITING"}
<1>0. pending \in {"NONE", "DELIVERY_PENDING", "WAITING"}
  BY DEF TypeOK, InboxTypes
<1>1. CASE UNCHANGED vars
  BY <1>0, <1>1 DEF vars, inbox
<1>2. EditContract \/ Planner \/ OtherCell => UNCHANGED pending
  BY DEF EditContract, Planner, OtherCell, WriteSlot, WriteOutcome, inbox
<1>3. ASSUME NEW l \in Lanes, NEW s \in {"CONTINUE", "PASS"}, WorkerEnds(l, s)
      PROVE  UNCHANGED pending
  BY <1>3 DEF WorkerEnds, inbox
<1>4. ASSUME NEW h \in Helpers, NEW f \in {"READY", "DONE"}, HelperWrites(h, f)
      PROVE  UNCHANGED pending
  BY <1>4 DEF HelperWrites, inbox
<1>5. ReduceTurn => pending' = "NONE"
  BY DEF ReduceTurn, ReduceContinue, ReduceWait, ReduceNeedHelper, ReduceNeedUser, ReduceError,
     ReduceComplete, Reduce, EndTurn
<1>6. ASSUME NEW h \in Helpers, HelperDone(h) \/ StageHelper(h) \/ HelperEvent(h)
      PROVE  UNCHANGED pending
  BY <1>6 DEF HelperDone, StageHelper, HelperEvent, inbox
<1>7. Rotate \/ Ring => pending' = "DELIVERY_PENDING"
  BY DEF Rotate, Ring
<1>8. ASSUME NEW l \in Lanes, AutoContinue(l) \/ ResultEvent(l)
      PROVE  UNCHANGED pending
  BY <1>8 DEF AutoContinue, ResultEvent, inbox
<1>9. IntentEvent \/ RequestRetire => UNCHANGED pending
  BY DEF IntentEvent, RequestRetire, inbox
<1>10. Browser => pending' \in {"NONE", "DELIVERY_PENDING", "WAITING"}
  BY <1>0
  DEF Browser, PromptDone, HelperPromptDone, BootstrapDone, PromoteDone, RetireDone, Claim,
      Delivered, Answered, Cleaned, Consumed, Deliver, TerminalReset, EndTurn, inbox
<1>11. ASSUME NEW r \in BOOLEAN, WatchdogReplay(r) PROVE pending' = "WAITING"
  BY <1>11 DEF WatchdogReplay
<1>12. QED
  BY <1>0, <1>1, <1>2, <1>3, <1>4, <1>5, <1>6, <1>7, <1>8, <1>9, <1>10, <1>11
  DEF Next, Tick, Handoff, RequestRotation, RotateDue

\* The slots and the outcome of a turn.
Papers == [signal : Outcomes \cup {"", "HANDOFF"}, slots : [Lanes -> Entries]]

\* A step keeps the slots and the outcome of the turn well-typed.
LEMMA PaperStep ==
  ASSUME TypeOK, [Next]_vars
  PROVE  paper' \in Papers
<1>0. paper \in Papers /\ Blank \in Papers
  BY DEF TypeOK, InboxTypes, Papers, Blank, Entries
<1>1. CASE UNCHANGED vars
  BY <1>0, <1>1 DEF vars, inbox
<1>2. EditContract \/ OtherCell => UNCHANGED paper
  BY DEF EditContract, OtherCell, inbox
<1>3. ASSUME NEW signal \in Outcomes \cup {"HANDOFF"}, WriteOutcome(signal)
      PROVE  paper' \in Papers
  BY <1>0, <1>3 DEF WriteOutcome, Papers
<1>4. ASSUME NEW l \in Lanes, NEW entry \in Entries \ {""}, WriteSlot(l, entry)
      PROVE  paper' \in Papers
  BY <1>0, <1>4 DEF WriteSlot, Papers
<1>5. ASSUME NEW l \in Lanes, NEW s \in {"CONTINUE", "PASS"}, WorkerEnds(l, s)
      PROVE  UNCHANGED paper
  BY <1>5 DEF WorkerEnds, inbox
<1>6. ASSUME NEW h \in Helpers, NEW f \in {"READY", "DONE"}, HelperWrites(h, f)
      PROVE  UNCHANGED paper
  BY <1>6 DEF HelperWrites, inbox
<1>7. ReduceTurn \/ Ring => paper' = Blank
  BY DEF ReduceTurn, ReduceContinue, ReduceWait, ReduceNeedHelper, ReduceNeedUser, ReduceError,
     ReduceComplete, Reduce, EndTurn, Ring
<1>8. ASSUME NEW h \in Helpers, HelperDone(h) \/ StageHelper(h) \/ HelperEvent(h)
      PROVE  UNCHANGED paper
  BY <1>8 DEF HelperDone, StageHelper, HelperEvent, inbox
<1>9. ASSUME Rotate PROVE paper' \in Papers
  <2> DEFINE copied == [l \in Lanes |-> IF paper.slots[l] = "DIRECTION" THEN "DIRECTION" ELSE ""]
  <2>1. copied \in [Lanes -> Entries]
    BY DEF Entries
  <2>2. paper' = [signal |-> "", slots |-> copied]
    BY <1>9 DEF Rotate
  <2>3. QED BY <2>1, <2>2 DEF Papers
<1>10. ASSUME NEW l \in Lanes, AutoContinue(l) \/ ResultEvent(l)
      PROVE  UNCHANGED paper
  BY <1>10 DEF AutoContinue, ResultEvent, inbox
<1>11. IntentEvent \/ RequestRetire => UNCHANGED paper
  BY DEF IntentEvent, RequestRetire, inbox
<1>12. Browser => paper' = Blank \/ UNCHANGED paper
  BY <1>0
  DEF Browser, PromptDone, HelperPromptDone, BootstrapDone, PromoteDone, RetireDone, Claim,
      Delivered, Answered, Cleaned, Consumed, Deliver, TerminalReset, EndTurn, inbox
<1>13. ASSUME NEW r \in BOOLEAN, WatchdogReplay(r) PROVE UNCHANGED paper
  BY <1>13 DEF WatchdogReplay
<1>14. QED
  BY <1>0, <1>1, <1>2, <1>3, <1>4, <1>5, <1>6, <1>7, <1>8, <1>9, <1>10, <1>11, <1>12, <1>13
  DEF Next, Planner, Tick, Handoff, RequestRotation, RotateDue

\* A step keeps the inbox well-typed.
LEMMA InboxTypesStep ==
  ASSUME TypeOK, Budget, RevisionSeen, [Next]_vars
  PROVE  InboxTypes'
<1>1. events' \in [Events -> {"ABSENT", "PENDING", "CLAIMED", "CONSUMED"}]
  <2>1. events \in [Events -> {"ABSENT", "PENDING", "CLAIMED", "CONSUMED"}]
    BY DEF TypeOK, InboxTypes
  <2>2. QED BY <2>1, InboxSteps DEF InboxStep, Kept, Inserted, Insert, Reduced, Rung, Cleared
<1>2. {doorbell', turn'} \subseteq [gen : 0..MaxGen, events : SUBSET Events]
  <2>1. {doorbell, turn} \subseteq [gen : 0..MaxGen, events : SUBSET Events]
    BY DEF TypeOK, InboxTypes
  <2>2. NoBell \in [gen : 0..MaxGen, events : SUBSET Events]
    BY PlannerTurnAssumption DEF NoBell, Bell
  <2>3. ASSUME NEW g \in 1..MaxGen, NEW E \in SUBSET Events, Rung(g, E)
        PROVE  {doorbell', turn'} \subseteq [gen : 0..MaxGen, events : SUBSET Events]
    BY <2>3, PlannerTurnAssumption DEF Rung, Bell
  <2>4. QED BY <2>1, <2>2, <2>3, InboxSteps DEF InboxStep, Kept, Inserted, Reduced, Cleared
<1>3. QED BY <1>1, <1>2, PendingStep, PaperStep DEF InboxTypes, Papers

\* A step keeps the state of the rotation well-typed: a generation is counted
\* up only when the rotation made sure that there is one left.
LEMMA SuccessionTypesStep ==
  ASSUME TypeOK, GenerationLeft, [Next]_vars
  PROVE  SuccessionTypes'
<1> USE DEF SuccessionTypes
<1>0. SuccessionTypes /\ MaxPrompts \in Nat \ {0} /\ MaxGen \in Nat \ {0}
  BY PlannerTurnAssumption DEF TypeOK
<1>1. (UNCHANGED succession) => SuccessionTypes'
  BY <1>0 DEF succession
<1>2. (UNCHANGED vars) \/ EditContract \/ Planner \/ OtherCell => UNCHANGED succession
  BY DEF vars, EditContract, Planner, OtherCell, WriteSlot, WriteOutcome
<1>3. ASSUME NEW l \in Lanes, NEW s \in {"CONTINUE", "PASS"}, WorkerEnds(l, s)
      PROVE  UNCHANGED succession
  BY <1>3 DEF WorkerEnds
<1>4. ASSUME NEW h \in Helpers, NEW f \in {"READY", "DONE"}, HelperWrites(h, f)
      PROVE  UNCHANGED succession
  BY <1>4 DEF HelperWrites
<1>5. CASE ReduceTurn
  <2>1. CASE ReduceComplete
    <3>1. prompts' = 0 /\ promoted' = FALSE /\ UNCHANGED <<authority, successor, moved>>
      BY <2>1 DEF ReduceComplete
    <3>2. prompts' \in 0..MaxPrompts
      BY <1>0, <3>1
    <3>3. promoted' \in BOOLEAN
      BY <3>1
    <3>4. QED BY <1>0, <3>1, <3>2, <3>3
  <2>2. ASSUME NEW act, NEW on, Reduce(act, on) PROVE UNCHANGED succession
    BY <2>2 DEF Reduce
  <2>3. QED
    BY <1>1, <1>5, <2>1, <2>2
    DEF ReduceTurn, ReduceContinue, ReduceWait, ReduceNeedHelper, ReduceNeedUser, ReduceError
<1>6. ASSUME NEW h \in Helpers, HelperDone(h) \/ StageHelper(h) \/ HelperEvent(h)
      PROVE  UNCHANGED succession
  BY <1>6 DEF HelperDone, StageHelper, HelperEvent
<1>7. Rotate => SuccessionTypes'
  BY <1>0 DEF Rotate, succession
<1>8. ASSUME NEW l \in Lanes, AutoContinue(l) \/ ResultEvent(l)
      PROVE  UNCHANGED succession
  BY <1>8 DEF AutoContinue, ResultEvent
<1>9. IntentEvent \/ RequestRetire \/ Ring => UNCHANGED succession
  BY DEF IntentEvent, RequestRetire, Ring
<1>10. CASE Browser
  <2>1. Claim \/ Delivered \/ Answered \/ HelperPromptDone => UNCHANGED succession
    BY DEF Claim, Delivered, Answered, Deliver, HelperPromptDone
  <2>2. CASE PromptDone
    BY <1>0, <2>2 DEF PromptDone
  <2>3. CASE BootstrapDone
    <3>1. authority.gen \in 1..MaxGen /\ authority.gen < MaxGen
      BY <1>0, <2>3 DEF BootstrapDone, GenerationLeft
    <3>2. authority.gen + 1 \in 1..MaxGen
      BY <1>0, <3>1
    <3>3. QED BY <1>0, <2>3, <3>2 DEF BootstrapDone
  <2>4. CASE PromoteDone
    BY <1>0, <2>4 DEF PromoteDone
  <2>5. CASE RetireDone
    BY <1>0, <2>5 DEF RetireDone
  <2>6. CASE Cleaned \/ Consumed
    <3>1. /\ successor' = "NONE" /\ promoted' = FALSE /\ prompts' = 0
          /\ UNCHANGED <<authority, moved>>
      BY <2>6 DEF Cleaned, Consumed, TerminalReset
    <3>2. prompts' \in 0..MaxPrompts
      BY <1>0, <3>1
    <3>3. promoted' \in BOOLEAN
      BY <3>1
    <3>4. QED BY <1>0, <3>1, <3>2, <3>3
  <2>7. QED BY <1>1, <1>10, <2>1, <2>2, <2>3, <2>4, <2>5, <2>6 DEF Browser
<1>11. ASSUME NEW r \in BOOLEAN, WatchdogReplay(r) PROVE SuccessionTypes'
  BY <1>0, <1>11 DEF WatchdogReplay
<1>12. QED
  BY <1>1, <1>2, <1>3, <1>4, <1>5, <1>6, <1>7, <1>8, <1>9, <1>10, <1>11
  DEF Next, Tick, Handoff, RequestRotation, RotateDue

\* What may be under delivery.
Deliveries == [kind : {"NONE", "QUERY", "PASS", "ERROR"},
               state : {"NONE", "PENDING", "CLAIMED", "DELIVERED", "CONSUMED"},
               cleaned : BOOLEAN]

\* A step keeps the rest of the state well-typed.
LEMMA OtherTypesStep ==
  ASSUME TypeOK, [Next]_vars
  PROVE  OtherTypes'
<1> USE DEF OtherTypes, SlotKinds
<1>0. OtherTypes /\ MaxRevisions \in Nat
  BY PlannerTurnAssumption DEF TypeOK
<1>1. UNCHANGED <<memory, helpers, delivery, slot>> => OtherTypes'
  BY <1>0 DEF memory
<1>2. CASE UNCHANGED vars
  BY <1>1, <1>2 DEF vars
<1>3. CASE EditContract
  <2>1. contract' \in 0..MaxRevisions
    <3>1. contract < MaxRevisions /\ contract' = contract + 1
      BY <1>3 DEF EditContract
    <3>2. contract \in 0..MaxRevisions /\ MaxRevisions \in Nat
      BY <1>0
    <3>3. QED BY <3>1, <3>2
  <2>2. UNCHANGED <<known, readOnly, helpers, delivery, slot>>
    BY <1>3 DEF EditContract
  <2>3. QED BY <1>0, <2>1, <2>2
<1>4. CASE Planner
  BY <1>1, <1>4 DEF Planner, WriteSlot, WriteOutcome
<1>5. CASE OtherCell
  BY <1>0, <1>5 DEF OtherCell, memory
<1>6. ASSUME NEW l \in Lanes, NEW s \in {"CONTINUE", "PASS"}, WorkerEnds(l, s)
      PROVE  OtherTypes'
  BY <1>1, <1>6 DEF WorkerEnds
<1>7. ASSUME NEW h \in Helpers, NEW f \in {"READY", "DONE"}, HelperWrites(h, f)
      PROVE  OtherTypes'
  BY <1>0, <1>7 DEF HelperWrites, memory
<1>8. CASE ReduceTurn
  <2>1. CASE ReduceComplete
    BY <1>0, <2>1 DEF ReduceComplete, NoHelper
  <2>2. CASE ReduceContinue \/ ReduceWait
    BY <1>0, <2>2 DEF ReduceContinue, ReduceWait, Reduce
  <2>3. ASSUME NEW h \in Helpers, ReduceNeedHelper(h) PROVE OtherTypes'
    BY <1>0, <2>3 DEF ReduceNeedHelper, Reduce
  <2>4. CASE ReduceNeedUser \/ ReduceError
    <3>1. /\ UNCHANGED <<known, contract, helpers, slot>> /\ readOnly' \in {readOnly, TRUE}
          /\ \E k \in {"QUERY", "ERROR"} :
                delivery' = [kind |-> k, state |-> "PENDING", cleaned |-> FALSE]
      BY <2>4 DEF ReduceNeedUser, ReduceError, Reduce
    <3>2. readOnly' \in BOOLEAN
      BY <1>0, <3>1
    <3>3. delivery' \in Deliveries
      BY <3>1 DEF Deliveries
    <3>4. QED BY <1>0, <3>1, <3>2, <3>3 DEF Deliveries
  <2>5. QED BY <1>8, <2>1, <2>2, <2>3, <2>4 DEF ReduceTurn
<1>9. ASSUME NEW h \in Helpers, HelperDone(h) \/ StageHelper(h) \/ HelperEvent(h)
      PROVE  OtherTypes'
  <2>1. CASE HelperDone(h)
    <3>1. helpers' = [helpers EXCEPT ![h].done = TRUE] /\ UNCHANGED <<memory, delivery, slot>>
      BY <2>1 DEF HelperDone
    <3>2. QED BY <1>0, <3>1 DEF memory
  <2>2. CASE StageHelper(h)
    BY <1>0, <2>2 DEF StageHelper, memory
  <2>3. CASE HelperEvent(h)
    <3>1. /\ helpers' = [helpers EXCEPT ![h].state = "EMITTED"]
          /\ UNCHANGED <<memory, delivery, slot>>
      BY <2>3 DEF HelperEvent
    <3>2. QED BY <1>0, <3>1 DEF memory
  <2>4. QED BY <1>9, <2>1, <2>2, <2>3
<1>10. Rotate => OtherTypes'
  BY <1>0 DEF Rotate, memory
<1>11. ASSUME NEW l \in Lanes, AutoContinue(l) \/ ResultEvent(l)
      PROVE  OtherTypes'
  BY <1>1, <1>11 DEF AutoContinue, ResultEvent
<1>12. CASE IntentEvent \/ RequestRetire \/ Ring
  BY <1>0, <1>12 DEF IntentEvent, RequestRetire, Ring, memory
<1>13. CASE Browser
  <2>1. CASE PromptDone \/ HelperPromptDone \/ BootstrapDone \/ PromoteDone \/ RetireDone
    BY <1>0, <2>1
    DEF PromptDone, HelperPromptDone, BootstrapDone, PromoteDone, RetireDone, memory
  <2>2. CASE Claim \/ Delivered \/ Answered
    BY <1>0, <2>2 DEF Claim, Delivered, Answered, Deliver, memory
  <2>3. CASE Cleaned \/ Consumed
    <3>1. /\ UNCHANGED memory /\ slot' \in {slot, "FREE"}
          /\ helpers' = [h \in Helpers |-> NoHelper]
          /\ delivery' \in {[delivery EXCEPT !.cleaned = TRUE], NoDelivery}
      BY <2>3 DEF Cleaned, Consumed, TerminalReset
    <3>2. delivery' \in Deliveries
      <4>1. delivery \in Deliveries
        BY <1>0 DEF Deliveries
      <4>2. [delivery EXCEPT !.cleaned = TRUE] \in Deliveries
        BY <4>1 DEF Deliveries
      <4>3. NoDelivery \in Deliveries
        BY DEF Deliveries, NoDelivery
      <4>4. QED BY <3>1, <4>2, <4>3
    <3>3. helpers' \in [Helpers -> [state : {"NONE", "REQUEST_PENDING", "WAITING", "EMITTED"},
                                   file : {"", "READY", "DONE"}, done : BOOLEAN]]
      BY <3>1 DEF NoHelper
    <3>4. QED BY <1>0, <3>1, <3>2, <3>3 DEF memory, Deliveries
  <2>4. QED BY <1>13, <2>1, <2>2, <2>3 DEF Browser
<1>14. ASSUME NEW r \in BOOLEAN, WatchdogReplay(r) PROVE OtherTypes'
  BY <1>1, <1>14 DEF WatchdogReplay
<1>15. QED
  BY <1>2, <1>3, <1>4, <1>5, <1>6, <1>7, <1>8, <1>9, <1>10, <1>11, <1>12, <1>13, <1>14
  DEF Next, Tick, Handoff, RequestRotation, RotateDue

-----------------------------------------------------------------------------
(* The dispatches of the lanes.                                            *)

\* A lane's child.
Children == [state : {"NONE", "WAITING", "EMITTED", "REVIEW_PENDING"}, gen : 0..MaxDispatch]

\* The types of one lane, in the form the arithmetic below uses.
LEMMA LaneTypes ==
  ASSUME WorkTypes, NEW l \in Lanes
  PROVE  /\ children[l] \in Children /\ children[l].gen \in Nat
         /\ dispatches[l] \in 0..MaxDispatch /\ dispatches[l] \in Nat
         /\ backend[l] \in {"RUNNING", "CONTINUE", "PASS"} /\ MaxDispatch \in Nat
<1>1. children[l] \in Children /\ dispatches[l] \in 0..MaxDispatch
      /\ backend[l] \in {"RUNNING", "CONTINUE", "PASS"}
  BY DEF WorkTypes, Children
<1>2. MaxDispatch \in Nat
  BY PlannerTurnAssumption
<1>3. children[l].gen \in 0..MaxDispatch
  BY <1>1 DEF Children
<1>4. QED BY <1>1, <1>2, <1>3

\* A step that leaves the lanes alone and asks for no new dispatch keeps the
\* budget of every lane.
LEMMA WorkUntouched ==
  ASSUME WorkTypes, Budget, UNCHANGED work,
         \A l \in Lanes : paper'.slots[l] \in {"DIRECTION", "REJECT"} => UNCHANGED paper.slots[l]
  PROVE  WorkTypes' /\ Budget'
<1>1. WorkTypes'
  BY DEF WorkTypes, work
<1>2. ASSUME NEW l \in Lanes PROVE LaneBudget(l)'
  <2>types. /\ children[l] \in Children /\ children[l].gen \in Nat
            /\ dispatches[l] \in 0..MaxDispatch /\ dispatches[l] \in Nat
            /\ backend[l] \in {"RUNNING", "CONTINUE", "PASS"} /\ MaxDispatch \in Nat
    BY LaneTypes
  <2>1. LaneBudget(l)
    BY DEF Budget
  <2>2. UNCHANGED <<children, dispatches, backend>>
    BY DEF work
  <2>3. QED BY <2>1, <2>2, <2>types DEF LaneBudget, Reserved
<1>3. QED BY <1>1, <1>2 DEF Budget

\* A step that lets every child go keeps the budget of every lane.
LEMMA WorkDropped ==
  ASSUME WorkTypes, Budget, UNCHANGED <<dispatches, backend>>,
         paper' = Blank, children' = [l \in Lanes |-> NoChild]
  PROVE  WorkTypes' /\ Budget'
<1>1. WorkTypes'
  BY PlannerTurnAssumption DEF WorkTypes, NoChild
<1>2. ASSUME NEW l \in Lanes PROVE LaneBudget(l)'
  <2>types. /\ children[l] \in Children /\ children[l].gen \in Nat
            /\ dispatches[l] \in 0..MaxDispatch /\ dispatches[l] \in Nat
            /\ backend[l] \in {"RUNNING", "CONTINUE", "PASS"} /\ MaxDispatch \in Nat
    BY LaneTypes
  <2>1. children'[l].gen = 0 /\ children'[l].state = "NONE"
    BY DEF NoChild
  <2>2. paper'.slots[l] \notin {"DIRECTION", "REJECT"}
    BY DEF Blank
  <2>3. QED BY <2>1, <2>2, <2>types DEF LaneBudget, Reserved
<1>3. QED BY <1>1, <1>2 DEF Budget

\* The reduction of a turn dispatches a lane only if the budget had room for it.
LEMMA WorkSettled ==
  ASSUME WorkTypes, Budget, paper' = Blank, children' = Settled, Dispatch(Redispatched)
  PROVE  WorkTypes' /\ Budget'
<1>1. ASSUME NEW l \in Lanes
      PROVE  /\ children'[l] \in Children /\ dispatches'[l] \in 0..MaxDispatch
             /\ backend'[l] \in {"RUNNING", "CONTINUE", "PASS"} /\ LaneBudget(l)'
  <2>types. /\ children[l] \in Children /\ children[l].gen \in Nat
            /\ dispatches[l] \in 0..MaxDispatch /\ dispatches[l] \in Nat
            /\ backend[l] \in {"RUNNING", "CONTINUE", "PASS"} /\ MaxDispatch \in Nat
    BY LaneTypes
  <2>0. LaneBudget(l) /\ paper'.slots[l] \notin {"DIRECTION", "REJECT"}
    BY DEF Budget, Blank
  <2>1. CASE l \in Redispatched
    <3>1. /\ children'[l] = [state |-> "WAITING", gen |-> children[l].gen + 1]
          /\ dispatches'[l] = dispatches[l] + 1 /\ backend'[l] = "RUNNING"
      BY <2>1 DEF Settled, Dispatch
    <3>2. paper.slots[l] \in {"DIRECTION", "REJECT"} \/ children[l].state = "REVIEW_PENDING"
      BY <2>1 DEF Redispatched
    <3>3. dispatches[l] + 1 <= MaxDispatch
      BY <2>0, <3>2, <2>types DEF LaneBudget, Reserved
    <3>4. children[l].gen + 1 <= dispatches[l] + 1
      BY <2>0, <2>types DEF LaneBudget
    <3>5. children[l].gen + 1 \in 0..MaxDispatch /\ dispatches[l] + 1 \in 0..MaxDispatch
      BY <3>3, <3>4, <2>types
    <3>6. children'[l] \in Children
      BY <3>1, <3>5 DEF Children
    <3>7. LaneBudget(l)'
      BY <2>0, <3>1, <3>3, <3>4, <2>types DEF LaneBudget, Reserved
    <3>8. QED BY <3>1, <3>5, <3>6, <3>7
  <2>2. CASE l \notin Redispatched
    <3>1. children'[l] \in {children[l], NoChild} /\ UNCHANGED backend[l]
      BY <2>2 DEF Settled, Dispatch
    <3>2. dispatches'[l] = dispatches[l]
      BY <2>2, <2>types DEF Dispatch
    <3>3. children'[l] \in Children
      BY <3>1, <2>types DEF NoChild, Children
    <3>4. LaneBudget(l)'
      BY <2>0, <3>1, <3>2, <2>types DEF LaneBudget, Reserved, NoChild
    <3>5. QED BY <3>1, <3>2, <3>3, <3>4, <2>types
  <2>3. QED BY <2>1, <2>2
<1>2. WorkTypes'
  BY <1>1 DEF WorkTypes, Settled, Dispatch, Children
<1>3. QED BY <1>1, <1>2 DEF Budget

\* A step keeps the lanes well-typed and within their budget.
LEMMA WorkStep ==
  ASSUME TypeOK, Budget, [Next]_vars
  PROVE  WorkTypes' /\ Budget'
<1>0. WorkTypes /\ Budget
  BY DEF TypeOK
<1>1. UNCHANGED <<work, paper>> => WorkTypes' /\ Budget'
  BY <1>0, WorkUntouched
<1>2. (UNCHANGED vars) \/ EditContract \/ OtherCell => UNCHANGED <<work, paper>>
  BY DEF vars, inbox, EditContract, OtherCell
<1>3. ASSUME NEW signal \in Outcomes \cup {"HANDOFF"}, WriteOutcome(signal)
      PROVE  WorkTypes' /\ Budget'
  <2>1. (UNCHANGED work) /\ paper'.slots = paper.slots
    BY <1>3 DEF WriteOutcome, TypeOK, InboxTypes
  <2>2. QED BY <1>0, <2>1, WorkUntouched
<1>4. ASSUME NEW k \in Lanes, NEW entry \in Entries, WriteSlot(k, entry)
      PROVE  WorkTypes' /\ Budget'
  <2>1. UNCHANGED <<children, dispatches, backend>>
    BY <1>4 DEF WriteSlot, work
  <2>2. paper.slots \in [Lanes -> Entries] /\ paper'.slots = [paper.slots EXCEPT ![k] = entry]
    BY <1>4 DEF WriteSlot, TypeOK, InboxTypes
  <2>3. ASSUME NEW l \in Lanes PROVE LaneBudget(l)'
    <3>1. LaneBudget(l)
      BY <1>0 DEF Budget
    <3>2. CASE l = k /\ entry \in {"DIRECTION", "REJECT"}
      <4>1. Room(l)
        BY <1>4, <3>2 DEF WriteSlot
      <4>2. dispatches[l] \in Nat /\ MaxDispatch \in Nat
        BY <1>0, LaneTypes
      <4>3. dispatches[l] + 1
            + (IF backend[l] = "CONTINUE" /\ children[l].state = "WAITING" THEN 1 ELSE 0)
            <= MaxDispatch
        BY <4>1, <4>2 DEF Room
      <4>4. paper'.slots[l] \in {"DIRECTION", "REJECT"}
        BY <2>2, <3>2
      <4>5. QED BY <2>1, <3>1, <4>3, <4>4 DEF LaneBudget, Reserved
    <3>3. CASE l # k \/ entry \notin {"DIRECTION", "REJECT"}
      <4>1. paper'.slots[l] \in {"DIRECTION", "REJECT"} => paper'.slots[l] = paper.slots[l]
        BY <2>2, <3>3
      <4>2. dispatches[l] \in Nat /\ MaxDispatch \in Nat
        BY <1>0, LaneTypes
      <4>3. QED BY <2>1, <3>1, <4>1, <4>2 DEF LaneBudget, Reserved
    <3>4. QED BY <3>2, <3>3
  <2>4. WorkTypes'
    BY <1>0, <2>1 DEF WorkTypes
  <2>5. QED BY <2>3, <2>4 DEF Budget
<1>5. ASSUME NEW k \in Lanes, NEW s \in {"CONTINUE", "PASS"}, WorkerEnds(k, s)
      PROVE  WorkTypes' /\ Budget'
  <2>1. UNCHANGED <<children, dispatches, paper>> /\ backend' = [backend EXCEPT ![k] = s]
    BY <1>5 DEF WorkerEnds, inbox
  <2>2. WorkTypes'
    BY <1>0, <2>1 DEF WorkTypes
  <2>3. ASSUME NEW l \in Lanes PROVE LaneBudget(l)'
    <3>1. LaneBudget(l)
      BY <1>0 DEF Budget
    <3>2. dispatches[l] \in Nat /\ MaxDispatch \in Nat
      BY <1>0, LaneTypes
    <3>3. CASE l = k /\ s = "CONTINUE"
      <4>1. Room(l) /\ backend[l] = "RUNNING"
        BY <1>5, <3>3 DEF WorkerEnds
      <4>2. dispatches[l] + (IF paper.slots[l] \in {"DIRECTION", "REJECT"} THEN 1 ELSE 0) + 1
            <= MaxDispatch
        BY <4>1, <3>2 DEF Room
      <4>3. QED BY <2>1, <3>1, <3>2, <4>2 DEF LaneBudget, Reserved
    <3>4. CASE l # k \/ s # "CONTINUE"
      <4>1. backend'[l] = "CONTINUE" => backend[l] = "CONTINUE"
        BY <1>0, <2>1, <3>4 DEF WorkTypes
      <4>2. QED BY <2>1, <3>1, <3>2, <4>1 DEF LaneBudget, Reserved
    <3>5. QED BY <3>3, <3>4
  <2>4. QED BY <2>2, <2>3 DEF Budget
<1>6. ASSUME NEW h \in Helpers, NEW f \in {"READY", "DONE"}, HelperWrites(h, f)
      PROVE  UNCHANGED <<work, paper>>
  BY <1>6 DEF HelperWrites, inbox
<1>7. CASE ReduceTurn
  <2>1. CASE ReduceComplete
    <3>1. /\ paper' = Blank /\ children' = [l \in Lanes |-> NoChild]
          /\ UNCHANGED <<dispatches, backend>>
      BY <2>1 DEF ReduceComplete, EndTurn
    <3>2. QED BY <1>0, <3>1, WorkDropped
  <2>2. ASSUME NEW act, NEW on, Reduce(act, on) PROVE WorkTypes' /\ Budget'
    <3>1. paper' = Blank /\ children' = Settled /\ Dispatch(Redispatched)
      BY <2>2 DEF Reduce, EndTurn
    <3>2. QED BY <1>0, <3>1, WorkSettled
  <2>3. QED
    BY <1>7, <2>1, <2>2
    DEF ReduceTurn, ReduceContinue, ReduceWait, ReduceNeedHelper, ReduceNeedUser, ReduceError
<1>8. ASSUME NEW h \in Helpers, HelperDone(h) \/ StageHelper(h) \/ HelperEvent(h)
      PROVE  UNCHANGED <<work, paper>>
  BY <1>8 DEF HelperDone, StageHelper, HelperEvent, inbox
<1>9. ASSUME Rotate PROVE WorkTypes' /\ Budget'
  <2>1. \A l \in Lanes : paper'.slots[l] \in {"DIRECTION", "REJECT"} => UNCHANGED paper.slots[l]
    BY <1>9 DEF Rotate
  <2>2. UNCHANGED work
    BY <1>9 DEF Rotate
  <2>3. QED BY <1>0, <2>1, <2>2, WorkUntouched
<1>10. ASSUME Ring PROVE WorkTypes' /\ Budget'
  <2>1. \A l \in Lanes : paper'.slots[l] \notin {"DIRECTION", "REJECT"}
    BY <1>10 DEF Ring, Blank
  <2>2. UNCHANGED work
    BY <1>10 DEF Ring
  <2>3. QED BY <1>0, <2>1, <2>2, WorkUntouched
<1>11. ASSUME NEW k \in Lanes, AutoContinue(k) PROVE WorkTypes' /\ Budget'
  <2>1. /\ children[k].state = "WAITING" /\ backend[k] = "CONTINUE"
        /\ children' = [children EXCEPT ![k].gen = @ + 1]
        /\ Dispatch({k}) /\ UNCHANGED paper
    BY <1>11 DEF AutoContinue, inbox
  <2>2. LaneBudget(k) /\ dispatches[k] \in Nat /\ MaxDispatch \in Nat /\ children[k] \in Children
        /\ children[k].gen \in Nat
    BY <1>0, LaneTypes DEF Budget
  <2>3. dispatches[k] + 1 + (IF paper.slots[k] \in {"DIRECTION", "REJECT"} THEN 1 ELSE 0)
        <= MaxDispatch
    BY <2>1, <2>2 DEF LaneBudget, Reserved
  <2>4. children[k].gen + 1 <= dispatches[k] + 1 /\ dispatches[k] + 1 <= MaxDispatch
    BY <2>2, <2>3 DEF LaneBudget
  <2>5. children[k].gen + 1 \in 0..MaxDispatch /\ dispatches[k] + 1 \in 0..MaxDispatch
    BY <2>2, <2>4
  <2>6. children'[k] = [state |-> "WAITING", gen |-> children[k].gen + 1]
    BY <1>0, <2>1, <2>2 DEF WorkTypes, Children
  <2>7. dispatches'[k] = dispatches[k] + 1 /\ backend'[k] = "RUNNING"
    BY <2>1 DEF Dispatch
  <2>8. LaneBudget(k)'
    BY <2>1, <2>2, <2>3, <2>4, <2>6, <2>7 DEF LaneBudget, Reserved
  <2>9. ASSUME NEW l \in Lanes, l # k
        PROVE  UNCHANGED <<children[l], dispatches[l], backend[l]>> /\ LaneBudget(l)'
    <3>1. UNCHANGED <<children[l], backend[l]>>
      BY <1>0, <2>1, <2>9 DEF WorkTypes, Dispatch
    <3>2. LaneBudget(l) /\ dispatches[l] \in Nat /\ MaxDispatch \in Nat
      BY <1>0, LaneTypes DEF Budget
    <3>3. dispatches'[l] = dispatches[l]
      BY <2>1, <2>9, <3>2 DEF Dispatch
    <3>4. QED BY <2>1, <3>1, <3>2, <3>3 DEF LaneBudget, Reserved
  <2>10. WorkTypes'
    <3>1. children' \in [Lanes -> Children]
      BY <1>0, <2>1, <2>2, <2>5 DEF WorkTypes, Children
    <3>2. dispatches' \in [Lanes -> 0..MaxDispatch]
      BY <1>0, <2>1, <2>5, <2>7, <2>9 DEF WorkTypes, Dispatch
    <3>3. backend' \in [Lanes -> {"RUNNING", "CONTINUE", "PASS"}]
      BY <1>0, <2>1 DEF WorkTypes, Dispatch
    <3>4. QED BY <3>1, <3>2, <3>3 DEF WorkTypes, Children
  <2>11. QED BY <2>8, <2>9, <2>10 DEF Budget
<1>12. ASSUME NEW k \in Lanes, ResultEvent(k) PROVE WorkTypes' /\ Budget'
  <2> DEFINE ended == IF backend[k] = "CONTINUE" THEN "REVIEW_PENDING" ELSE "EMITTED"
  <2>1. /\ children[k].state = "WAITING" /\ UNCHANGED <<dispatches, backend, paper>>
        /\ children' = [children EXCEPT ![k].state = ended]
    BY <1>12 DEF ResultEvent
  <2>2. WorkTypes'
    BY <1>0, <2>1 DEF WorkTypes
  <2>3. ASSUME NEW l \in Lanes PROVE LaneBudget(l)'
    <3>1. /\ LaneBudget(l) /\ dispatches[l] \in Nat /\ MaxDispatch \in Nat
          /\ children[l].gen \in Nat
      BY <1>0, LaneTypes DEF Budget
    <3>2. children'[l].gen = children[l].gen
      BY <1>0, <2>1 DEF WorkTypes
    <3>3. CASE l = k
      <4>1. children'[l].state = ended
        BY <1>0, <2>1, <3>3 DEF WorkTypes
      <4>2. QED BY <2>1, <3>1, <3>2, <3>3, <4>1 DEF LaneBudget, Reserved
    <3>4. CASE l # k
      <4>1. children'[l] = children[l]
        BY <1>0, <2>1, <3>4 DEF WorkTypes
      <4>2. QED BY <2>1, <3>1, <4>1 DEF LaneBudget, Reserved
    <3>5. QED BY <3>3, <3>4
  <2>4. QED BY <2>2, <2>3 DEF Budget
<1>13. IntentEvent \/ RequestRetire => UNCHANGED <<work, paper>>
  BY DEF IntentEvent, RequestRetire, inbox
<1>14. CASE Browser
  <2>1. PromptDone \/ HelperPromptDone \/ BootstrapDone \/ PromoteDone \/ RetireDone
          \/ Claim \/ Delivered \/ Answered => UNCHANGED <<work, paper>>
    BY DEF PromptDone, HelperPromptDone, BootstrapDone, PromoteDone, RetireDone, Claim,
       Delivered, Answered, Deliver, inbox
  <2>2. Cleaned \/ Consumed =>
          /\ paper' = Blank /\ children' = [l \in Lanes |-> NoChild]
          /\ UNCHANGED <<dispatches, backend>>
    BY DEF Cleaned, Consumed, TerminalReset, EndTurn
  <2>3. QED BY <1>0, <1>1, <1>14, <2>1, <2>2, WorkDropped DEF Browser
<1>15. ASSUME NEW r \in BOOLEAN, WatchdogReplay(r) PROVE UNCHANGED <<work, paper>>
  BY <1>15 DEF WatchdogReplay
<1>16. QED
  BY <1>1, <1>2, <1>3, <1>4, <1>5, <1>6, <1>7, <1>8, <1>9, <1>10, <1>11, <1>12, <1>13, <1>14,
     <1>15
  DEF Next, Planner, Tick, Handoff, RequestRotation, RotateDue

-----------------------------------------------------------------------------
(* The events of the inbox.                                                *)

\* A step keeps the claimed events those of the active doorbell.
LEMMA ClaimedStep ==
  ASSUME TypeOK, Budget, RevisionSeen, ClaimedIsRung, [Next]_vars
  PROVE  ClaimedIsRung'
<1> USE DEF ClaimedIsRung
<1>0. /\ doorbell.events \subseteq Events
      /\ events \in [Events -> {"ABSENT", "PENDING", "CLAIMED", "CONSUMED"}]
  BY DEF TypeOK, InboxTypes
<1>1. Kept => ClaimedIsRung'
  BY DEF Kept
<1>2. ASSUME NEW e \in Events, Inserted(e) PROVE ClaimedIsRung'
  BY <1>0, <1>2 DEF Inserted, Insert
<1>3. Reduced => ClaimedIsRung'
  BY <1>0 DEF Reduced, NoBell, Bell
<1>4. ASSUME NEW g \in 1..MaxGen, NEW E \in SUBSET Events, Rung(g, E) PROVE ClaimedIsRung'
  BY <1>0, <1>4 DEF Rung, Bell
<1>5. Cleared => ClaimedIsRung'
  BY DEF Cleared, NoBell, Bell
<1>6. QED BY <1>1, <1>2, <1>3, <1>4, <1>5, InboxSteps DEF InboxStep

\* A reported Helper stays reported until the task ends.
HelperStaysReported ==
    \A h \in Helpers : helpers[h].state = "EMITTED" => helpers'[h].state = "EMITTED"

\* A step un-reports a Helper only when the task ends.
LEMMA ReportedStep ==
  ASSUME TypeOK, [Next]_vars
  PROVE  HelperStaysReported \/ Cleared
<1> USE DEF HelperStaysReported
<1>0. UNCHANGED helpers => HelperStaysReported
  OBVIOUS
<1>1. (UNCHANGED vars) \/ EditContract \/ Planner \/ OtherCell => UNCHANGED helpers
  BY DEF vars, EditContract, Planner, OtherCell, WriteSlot, WriteOutcome
<1>2. ASSUME NEW l \in Lanes, NEW s \in {"CONTINUE", "PASS"}, WorkerEnds(l, s)
      PROVE  UNCHANGED helpers
  BY <1>2 DEF WorkerEnds
<1>3. ASSUME NEW h \in Helpers, NEW f \in {"READY", "DONE"}, HelperWrites(h, f)
      PROVE  HelperStaysReported
  <2>1. helpers' = [helpers EXCEPT ![h].file = f]
    BY <1>3 DEF HelperWrites
  <2>2. QED BY <2>1 DEF TypeOK, OtherTypes
<1>4. CASE ReduceTurn
  <2>1. ReduceComplete => Cleared
    BY DEF ReduceComplete, EndTurn, Cleared
  <2>2. ReduceContinue \/ ReduceWait \/ ReduceNeedUser \/ ReduceError => UNCHANGED helpers
    BY DEF ReduceContinue, ReduceWait, ReduceNeedUser, ReduceError
  <2>3. ASSUME NEW h \in Helpers, ReduceNeedHelper(h) PROVE HelperStaysReported
    <3>1. helpers[h] = NoHelper /\ helpers' = [helpers EXCEPT ![h].state = "REQUEST_PENDING"]
      BY <2>3 DEF ReduceNeedHelper
    <3>2. NoHelper.state = "NONE"
      BY DEF NoHelper
    <3>3. helpers[h].state = "NONE"
      BY <3>1, <3>2
    <3>4. QED BY <3>1, <3>3 DEF TypeOK, OtherTypes
  <2>4. QED BY <1>0, <1>4, <2>1, <2>2, <2>3 DEF ReduceTurn
<1>5. ASSUME NEW h \in Helpers, HelperDone(h) \/ StageHelper(h) \/ HelperEvent(h)
      PROVE  HelperStaysReported
  <2>1. CASE HelperDone(h)
    <3>1. helpers' = [helpers EXCEPT ![h].done = TRUE]
      BY <2>1 DEF HelperDone
    <3>2. QED BY <3>1 DEF TypeOK, OtherTypes
  <2>2. CASE StageHelper(h)
    <3>1. /\ helpers[h].state = "REQUEST_PENDING"
          /\ helpers' = [helpers EXCEPT ![h].state = "WAITING"]
      BY <2>2 DEF StageHelper
    <3>2. QED BY <3>1 DEF TypeOK, OtherTypes
  <2>3. CASE HelperEvent(h)
    <3>1. helpers' = [helpers EXCEPT ![h].state = "EMITTED"]
      BY <2>3 DEF HelperEvent
    <3>2. QED BY <3>1 DEF TypeOK, OtherTypes
  <2>4. QED BY <1>5, <2>1, <2>2, <2>3
<1>6. Rotate \/ Ring \/ IntentEvent \/ RequestRetire => UNCHANGED helpers
  BY DEF Rotate, Ring, IntentEvent, RequestRetire
<1>7. ASSUME NEW l \in Lanes, AutoContinue(l) \/ ResultEvent(l) PROVE UNCHANGED helpers
  BY <1>7 DEF AutoContinue, ResultEvent
<1>8. CASE Browser
  <2>1. Cleaned \/ Consumed => Cleared
    BY DEF Cleaned, Consumed, TerminalReset, EndTurn, Cleared
  <2>2. PromptDone \/ HelperPromptDone \/ BootstrapDone \/ PromoteDone \/ RetireDone
          \/ Claim \/ Delivered \/ Answered => UNCHANGED helpers
    BY DEF PromptDone, HelperPromptDone, BootstrapDone, PromoteDone, RetireDone, Claim,
       Delivered, Answered, Deliver
  <2>3. QED BY <1>0, <1>8, <2>1, <2>2 DEF Browser
<1>9. ASSUME NEW r \in BOOLEAN, WatchdogReplay(r) PROVE UNCHANGED helpers
  BY <1>9 DEF WatchdogReplay
<1>10. QED
  BY <1>0, <1>1, <1>2, <1>3, <1>4, <1>5, <1>6, <1>7, <1>8, <1>9
  DEF Next, Tick, Handoff, RequestRotation, RotateDue

\* A step keeps the event of an unreported Helper absent.
LEMMA FreshStep ==
  ASSUME TypeOK, Budget, RevisionSeen, ClaimedIsRung, HelperFresh, [Next]_vars
  PROVE  HelperFresh'
<1>0. /\ doorbell.events \subseteq Events
      /\ events \in [Events -> {"ABSENT", "PENDING", "CLAIMED", "CONSUMED"}]
  BY DEF TypeOK, InboxTypes
<1>1. SUFFICES ASSUME NEW h \in Helpers, helpers'[h].state # "EMITTED"
               PROVE  events'[HelperResult(h)] = "ABSENT"
  BY DEF HelperFresh
<1> DEFINE e == HelperResult(h)
<1>2. e \in Events
  BY DEF Events
<1> HIDE DEF e
<1>3. CASE Cleared
  BY <1>2, <1>3 DEF Cleared, e
<1>4. CASE HelperStaysReported
  <2>1. events[e] = "ABSENT"
    BY <1>1, <1>4 DEF HelperStaysReported, HelperFresh, e
  <2>2. e \notin doorbell.events /\ e \notin Pending
    BY <2>1, <1>2 DEF ClaimedIsRung, Pending
  <2>3. Kept => events'[e] = "ABSENT"
    BY <2>1 DEF Kept
  <2>4. ASSUME NEW d \in Events, Inserted(d) PROVE events'[e] = "ABSENT"
    <3>1. d # e
      BY <1>1, <2>4 DEF Inserted, e
    <3>2. QED BY <1>0, <2>1, <2>4, <3>1 DEF Inserted, Insert
  <2>5. Reduced => events'[e] = "ABSENT"
    BY <1>2, <2>1, <2>2 DEF Reduced
  <2>6. ASSUME NEW g \in 1..MaxGen, NEW E \in SUBSET Events, Rung(g, E)
        PROVE  events'[e] = "ABSENT"
    BY <1>2, <2>1, <2>2, <2>6 DEF Rung
  <2>7. Cleared => events'[e] = "ABSENT"
    BY <1>2 DEF Cleared
  <2>8. QED BY <2>3, <2>4, <2>5, <2>6, <2>7, InboxSteps DEF InboxStep, e
<1>5. QED BY <1>3, <1>4, ReportedStep DEF e

-----------------------------------------------------------------------------
(* The authority, the open turn and the control slot.                      *)

\* The parts of the invariant about the owner of the turn, kept together.
TurnOwned == GenerationLeft /\ OneOwner /\ OpenTurnIsAsked

\* A step keeps the revision the Planner has seen an existing one.
LEMMA RevisionStep ==
  ASSUME TypeOK, RevisionSeen, [Next]_vars
  PROVE  RevisionSeen'
<1> USE DEF RevisionSeen
<1>0. known \in 0..MaxRevisions /\ contract \in 0..MaxRevisions /\ known <= contract
  BY DEF TypeOK, OtherTypes
<1>1. (UNCHANGED <<known, contract>>) => RevisionSeen'
  BY <1>0
<1>2. EditContract => contract' = contract + 1 /\ known' = known
  BY DEF EditContract
<1>3. EditContract => RevisionSeen'
  BY <1>0, <1>2
<1>4. (UNCHANGED vars) \/ Planner \/ OtherCell => UNCHANGED <<known, contract>>
  BY DEF vars, memory, Planner, OtherCell, WriteSlot, WriteOutcome
<1>5. ASSUME NEW l \in Lanes, NEW s \in {"CONTINUE", "PASS"}, WorkerEnds(l, s)
      PROVE  UNCHANGED <<known, contract>>
  BY <1>5 DEF WorkerEnds, memory
<1>6. ASSUME NEW h \in Helpers, NEW f \in {"READY", "DONE"}, HelperWrites(h, f)
      PROVE  UNCHANGED <<known, contract>>
  BY <1>6 DEF HelperWrites, memory
<1>7. ReduceTurn => UNCHANGED <<known, contract>>
  BY DEF ReduceTurn, ReduceContinue, ReduceWait, ReduceNeedHelper, ReduceNeedUser, ReduceError,
     ReduceComplete, Reduce
<1>8. ASSUME NEW h \in Helpers, HelperDone(h) \/ StageHelper(h) \/ HelperEvent(h)
      PROVE  UNCHANGED <<known, contract>>
  BY <1>8 DEF HelperDone, StageHelper, HelperEvent, memory
<1>9. Rotate \/ Ring \/ RequestRetire => UNCHANGED <<known, contract>>
  BY DEF Rotate, Ring, RequestRetire, memory
<1>10. IntentEvent => known' = contract /\ contract' = contract
  BY DEF IntentEvent
<1>11. IntentEvent => RevisionSeen'
  BY <1>0, <1>10
<1>12. ASSUME NEW l \in Lanes, AutoContinue(l) \/ ResultEvent(l)
       PROVE  UNCHANGED <<known, contract>>
  BY <1>12 DEF AutoContinue, ResultEvent, memory
<1>13. Browser => UNCHANGED <<known, contract>>
  BY DEF Browser, PromptDone, HelperPromptDone, BootstrapDone, PromoteDone, RetireDone, Claim,
     Delivered, Answered, Cleaned, Consumed, Deliver, TerminalReset, memory
<1>14. ASSUME NEW r \in BOOLEAN, WatchdogReplay(r) PROVE UNCHANGED <<known, contract>>
  BY <1>14 DEF WatchdogReplay, memory
<1>15. QED
  BY <1>1, <1>3, <1>4, <1>5, <1>6, <1>7, <1>8, <1>9, <1>11, <1>12, <1>13, <1>14
  DEF Next, Tick, Handoff, RequestRotation, RotateDue

\* A step keeps one owner of the authority and the open turn asked for.
LEMMA OwnerStep ==
  ASSUME TypeOK, TurnOwned, [Next]_vars
  PROVE  TurnOwned'
<1> USE DEF TurnOwned, GenerationLeft, OneOwner, OpenTurnIsAsked
<1>0. /\ authority.gen \in Nat /\ authority.fenced \in BOOLEAN
      /\ authority \in [gen : 1..MaxGen, fenced : BOOLEAN]
      /\ enabled \in BOOLEAN /\ promoted \in BOOLEAN
  BY DEF TypeOK, CellTypes, SuccessionTypes
<1> DEFINE same == UNCHANGED <<enabled, doorbell, turn, pending, authority, successor, promoted>>
<1>1. same /\ UNCHANGED slot => TurnOwned'
  OBVIOUS
<1>2. (UNCHANGED vars) \/ EditContract \/ Planner => same /\ UNCHANGED slot
  BY DEF vars, cell, inbox, succession, EditContract, Planner, WriteSlot, WriteOutcome
<1>3. OtherCell => same /\ slot \in {"FREE", "OTHER"} /\ slot' \in {"FREE", "OTHER"}
  BY DEF OtherCell, cell, inbox, succession
<1>4. OtherCell => TurnOwned'
  BY <1>3
<1>5. ASSUME NEW l \in Lanes, NEW s \in {"CONTINUE", "PASS"}, WorkerEnds(l, s)
      PROVE  same /\ UNCHANGED slot
  BY <1>5 DEF WorkerEnds, cell, inbox, succession
<1>6. ASSUME NEW h \in Helpers, NEW f \in {"READY", "DONE"}, HelperWrites(h, f)
      PROVE  same /\ UNCHANGED slot
  BY <1>6 DEF HelperWrites, cell, inbox, succession
<1>7. CASE ReduceTurn
  <2>1. /\ successor = "NONE" /\ doorbell' = NoBell /\ turn' = NoBell
        /\ UNCHANGED <<enabled, authority, successor, slot>>
        /\ (UNCHANGED promoted) \/ promoted' = FALSE
    <3>1. ASSUME NEW act, NEW on, Reduce(act, on)
          PROVE  /\ successor = "NONE" /\ doorbell' = NoBell /\ turn' = NoBell
                 /\ UNCHANGED <<enabled, authority, successor, slot, promoted>>
      BY <3>1 DEF Reduce, EndTurn, TurnDue, succession
    <3>2. ASSUME ReduceComplete
          PROVE  /\ successor = "NONE" /\ doorbell' = NoBell /\ turn' = NoBell
                 /\ UNCHANGED <<enabled, authority, successor, slot>> /\ promoted' = FALSE
      BY <3>2 DEF ReduceComplete, EndTurn, TurnDue
    <3>3. QED
      BY <1>7, <3>1, <3>2
      DEF ReduceTurn, ReduceContinue, ReduceWait, ReduceNeedHelper, ReduceNeedUser, ReduceError
  <2>2. QED BY <2>1
<1>8. ASSUME NEW h \in Helpers, HelperDone(h) \/ HelperEvent(h) PROVE same /\ UNCHANGED slot
  BY <1>8 DEF HelperDone, HelperEvent, cell, inbox, succession
<1>9. ASSUME NEW h \in Helpers, StageHelper(h) PROVE TurnOwned'
  <2>1. same /\ slot = "FREE" /\ slot' = "HELPER_PROMPT"
    BY <1>9 DEF StageHelper, AfterResults, AfterIntent, TickOpen, cell, inbox, succession
  <2>2. QED BY <2>1
<1>10. ASSUME Rotate PROVE TurnOwned'
  <2>1. /\ slot = "FREE" /\ successor = "NONE" /\ authority.gen < MaxGen
        /\ doorbell'.gen = authority.gen + 1 /\ pending' = "DELIVERY_PENDING"
        /\ authority' = [authority EXCEPT !.fenced = TRUE]
        /\ successor' = "REQUESTED" /\ promoted' = FALSE /\ slot' = "BOOTSTRAP"
    BY <1>10 DEF Rotate, Bell
  <2>2. authority'.gen = authority.gen /\ authority'.fenced = TRUE
    BY <1>0, <2>1
  <2>3. QED BY <2>1, <2>2
<1>11. ASSUME Ring PROVE TurnOwned'
  <2>1. /\ slot = "FREE" /\ successor = "NONE"
        /\ doorbell'.gen = authority.gen /\ pending' = "DELIVERY_PENDING"
        /\ UNCHANGED <<enabled, authority, successor, promoted>> /\ slot' = "PROMPT"
    BY <1>11
    DEF Ring, RingDue, AfterOutputs, AfterRequests, AfterResults, AfterIntent, TickOpen, Bell,
        succession
  <2>2. enabled => ~authority.fenced
    BY <2>1
  <2>3. QED BY <1>0, <2>1, <2>2
<1>12. IntentEvent => same /\ UNCHANGED slot
  BY DEF IntentEvent, cell, succession
<1>13. ASSUME NEW l \in Lanes, AutoContinue(l) \/ ResultEvent(l) PROVE same /\ UNCHANGED slot
  BY <1>13 DEF AutoContinue, ResultEvent, cell, inbox, succession
<1>14. RequestRetire => same /\ slot = "FREE" /\ slot' = "RETIRE" /\ promoted
  BY DEF RequestRetire, AfterOutputs, AfterRequests, AfterResults, AfterIntent, TickOpen,
     cell, inbox, succession
<1>15. RequestRetire => TurnOwned'
  BY <1>14
<1>16. CASE Browser
  <2>1. PromptDone =>
          /\ slot = "PROMPT" /\ slot' = "FREE" /\ pending' = "WAITING"
          /\ UNCHANGED <<enabled, doorbell, turn, authority, successor, promoted>>
    BY DEF PromptDone, cell
  <2>2. HelperPromptDone => same /\ slot = "HELPER_PROMPT" /\ slot' = "FREE"
    BY DEF HelperPromptDone, cell, inbox, succession
  <2>3. ASSUME BootstrapDone PROVE TurnOwned'
    <3>1. /\ slot = "BOOTSTRAP" /\ successor = "REQUESTED"
          /\ authority' = [gen |-> authority.gen + 1, fenced |-> FALSE]
          /\ successor' = "PROMOTED" /\ promoted' = FALSE /\ slot' = "PROMOTE"
          /\ pending' = IF pending = "NONE" THEN "NONE" ELSE "WAITING"
          /\ UNCHANGED <<enabled, doorbell, turn>>
      BY <2>3 DEF BootstrapDone
    <3>2. authority'.gen = authority.gen + 1 /\ authority'.fenced = FALSE
      BY <3>1
    <3>3. QED BY <1>0, <3>1, <3>2
  <2>4. PromoteDone =>
          /\ slot = "PROMOTE" /\ slot' = "FREE" /\ promoted' = TRUE
          /\ UNCHANGED <<enabled, doorbell, turn, pending, authority, successor>>
    BY DEF PromoteDone, cell, inbox
  <2>5. RetireDone =>
          /\ slot = "RETIRE" /\ slot' = "FREE" /\ promoted' = TRUE /\ successor' = "NONE"
          /\ UNCHANGED <<enabled, doorbell, turn, pending, authority>>
    BY DEF RetireDone, inbox
  <2>6. Claim \/ Delivered \/ Answered => same /\ UNCHANGED slot
    BY DEF Claim, Delivered, Answered, Deliver, cell, inbox, succession
  <2>7. Cleaned \/ Consumed =>
          enabled' = FALSE /\ successor' = "NONE" /\ turn' = NoBell
    BY DEF Cleaned, Consumed, TerminalReset, EndTurn
  <2>8. PromptDone => TurnOwned'
    BY <2>1
  <2>9. HelperPromptDone => TurnOwned'
    BY <2>2
  <2>10. PromoteDone => TurnOwned'
    BY <2>4
  <2>11. RetireDone => TurnOwned'
    BY <1>0, <2>5
  <2>12. Cleaned \/ Consumed => TurnOwned'
    BY <2>7
  <2>13. QED BY <1>1, <1>16, <2>3, <2>6, <2>8, <2>9, <2>10, <2>11, <2>12 DEF Browser
<1>17. ASSUME NEW r \in BOOLEAN, WatchdogReplay(r) PROVE TurnOwned'
  <2>1. /\ pending' = "WAITING"
        /\ UNCHANGED <<enabled, doorbell, turn, authority, successor, promoted, slot>>
    BY <1>17 DEF WatchdogReplay, cell
  <2>2. QED BY <2>1
<1>18. QED
  BY <1>1, <1>2, <1>4, <1>5, <1>6, <1>7, <1>8, <1>9, <1>10, <1>11, <1>12, <1>13, <1>15, <1>16,
     <1>17
  DEF Next, Tick, Handoff, RequestRotation, RotateDue

-----------------------------------------------------------------------------
(* What wakes a parked Planner.                                            *)

\* What the invariant says of a parked Planner, its two sides.
Woken ==
    \/ \E l \in Lanes : children[l].state = "WAITING"
    \/ \E h \in Helpers : helpers[h].state \in {"REQUEST_PENDING", "WAITING"}
    \/ Pending # {} \/ turn # NoBell
Parked == activity = "PARKED_WAIT_EVENT" /\ wait \in {"WAIT_RESULT", "WAIT_HELPER"}

\* A step keeps a parked Planner waking.
LEMMA ParkedStep ==
  ASSUME TypeOK, HelperFresh, Parked => Woken, [Next]_vars
  PROVE  Parked' => Woken'
<1> USE DEF Parked
<1>0. /\ events \in [Events -> {"ABSENT", "PENDING", "CLAIMED", "CONSUMED"}]
      /\ helpers \in [Helpers -> [state : {"NONE", "REQUEST_PENDING", "WAITING", "EMITTED"},
                                  file : {"", "READY", "DONE"}, done : BOOLEAN]]
      /\ children \in [Lanes -> Children]
  BY DEF TypeOK, InboxTypes, OtherTypes, WorkTypes, Children
<1>1. ASSUME UNCHANGED <<activity, wait>>, Woken => Woken' PROVE Parked' => Woken'
  BY <1>1
<1> DEFINE kept == UNCHANGED <<activity, wait, children, helpers, events, turn>>
<1>2. kept => (Parked' => Woken')
  BY DEF Woken, Pending
<1>3. (UNCHANGED vars) \/ EditContract \/ Planner \/ OtherCell => kept
  BY DEF vars, cell, inbox, work, EditContract, Planner, OtherCell, WriteSlot, WriteOutcome
<1>4. ASSUME NEW l \in Lanes, NEW s \in {"CONTINUE", "PASS"}, WorkerEnds(l, s) PROVE kept
  BY <1>4 DEF WorkerEnds, cell, inbox
<1>5. ASSUME NEW h \in Helpers, NEW f \in {"READY", "DONE"}, HelperWrites(h, f)
      PROVE  Parked' => Woken'
  <2>1. /\ helpers' = [helpers EXCEPT ![h].file = f]
        /\ UNCHANGED <<activity, wait, children, events, turn>>
    BY <1>5 DEF HelperWrites, cell, inbox, work
  <2>2. \A i \in Helpers : helpers'[i].state = helpers[i].state
    BY <1>0, <2>1
  <2>3. QED BY <1>1, <2>1, <2>2 DEF Woken, Pending
<1>6. CASE ReduceTurn
  <2>1. ReduceNeedUser \/ ReduceError \/ ReduceComplete => activity' # "PARKED_WAIT_EVENT"
    BY DEF ReduceNeedUser, ReduceError, ReduceComplete, Reduce
  <2>2. ReduceWait => wait' = "WAIT_DEP"
    BY DEF ReduceWait, Reduce
  <2>3. ASSUME ReduceContinue, Parked' PROVE Woken'
    <3>1. children' = Settled
          /\ wait' = IF \E l \in Lanes : Settled[l].state = "WAITING"
                      THEN "WAIT_RESULT" ELSE "NONE"
      BY <2>3 DEF ReduceContinue, Reduce
    <3>2. QED BY <2>3, <3>1 DEF Woken
  <2>4. ASSUME NEW h \in Helpers, ReduceNeedHelper(h) PROVE Woken'
    <3>1. helpers' = [helpers EXCEPT ![h].state = "REQUEST_PENDING"]
      BY <2>4 DEF ReduceNeedHelper
    <3>2. helpers'[h].state = "REQUEST_PENDING"
      BY <1>0, <3>1
    <3>3. QED BY <3>2 DEF Woken
  <2>5. QED BY <1>6, <2>1, <2>2, <2>3, <2>4 DEF ReduceTurn
<1>7. ASSUME NEW h \in Helpers, HelperDone(h) PROVE Parked' => Woken'
  <2>1. /\ helpers' = [helpers EXCEPT ![h].done = TRUE]
        /\ UNCHANGED <<activity, children, events, turn>>
        /\ wait' = wait \/ wait = "WAIT_HELPER"
    BY <1>7 DEF HelperDone, inbox, work
  <2>2. \A i \in Helpers : helpers'[i].state = helpers[i].state
    BY <1>0, <2>1
  <2>3. Woken => Woken'
    BY <2>1, <2>2 DEF Woken, Pending
  <2>4. QED BY <2>1, <2>3
<1>8. ASSUME NEW h \in Helpers, StageHelper(h) PROVE Parked' => Woken'
  <2>1. helpers' = [helpers EXCEPT ![h].state = "WAITING"]
    BY <1>8 DEF StageHelper
  <2>2. helpers'[h].state = "WAITING"
    BY <1>0, <2>1
  <2>3. QED BY <2>2 DEF Woken
<1>9. ASSUME NEW h \in Helpers, HelperEvent(h) PROVE Woken'
  <2>1. helpers[h].state = "WAITING" /\ events' = Insert(HelperResult(h))
    BY <1>9 DEF HelperEvent
  <2>2. HelperResult(h) \in Events
    BY DEF Events
  <2>3. events[HelperResult(h)] = "ABSENT"
    BY <2>1 DEF HelperFresh
  <2>4. events'[HelperResult(h)] = "PENDING"
    BY <1>0, <2>1, <2>2, <2>3 DEF Insert
  <2>5. QED BY <2>2, <2>4 DEF Woken, Pending
<1>10. Rotate \/ Ring => activity' # "PARKED_WAIT_EVENT"
  BY DEF Rotate, Ring
<1>11. ASSUME IntentEvent PROVE Parked' => Woken'
  <2>1. /\ events' = Insert(ForegroundIntent(contract))
        /\ UNCHANGED <<activity, wait, children, helpers, turn>>
    BY <1>11 DEF IntentEvent, cell, work
  <2>2. \A e \in Events : events[e] = "PENDING" => events'[e] = "PENDING"
    BY <1>0, <2>1 DEF Insert
  <2>3. QED BY <1>1, <2>1, <2>2 DEF Woken, Pending
<1>12. ASSUME NEW l \in Lanes, AutoContinue(l) PROVE Woken'
  <2>1. children[l].state = "WAITING" /\ children' = [children EXCEPT ![l].gen = @ + 1]
    BY <1>12 DEF AutoContinue
  <2>2. children'[l].state = "WAITING"
    BY <1>0, <2>1 DEF Children
  <2>3. QED BY <2>2 DEF Woken
<1>13. ASSUME NEW l \in Lanes, ResultEvent(l) PROVE activity' # "PARKED_WAIT_EVENT"
  BY <1>13 DEF ResultEvent
<1>14. RequestRetire => kept
  BY DEF RequestRetire, cell, inbox, work
<1>15. CASE Browser
  <2>1. PromptDone \/ HelperPromptDone \/ PromoteDone \/ Claim \/ Delivered \/ Answered => kept
    BY DEF PromptDone, HelperPromptDone, PromoteDone, Claim, Delivered, Answered, Deliver, cell,
       inbox, work
  <2>2. BootstrapDone \/ RetireDone \/ Cleaned \/ Consumed => activity' # "PARKED_WAIT_EVENT"
    BY DEF BootstrapDone, RetireDone, Cleaned, Consumed, TerminalReset
  <2>3. QED BY <1>2, <1>15, <2>1, <2>2 DEF Browser
<1>16. ASSUME NEW r \in BOOLEAN, WatchdogReplay(r) PROVE kept
  BY <1>16 DEF WatchdogReplay, cell, work
<1>17. QED
  BY <1>2, <1>3, <1>4, <1>5, <1>6, <1>7, <1>8, <1>9, <1>10, <1>11, <1>12, <1>13, <1>14, <1>15,
     <1>16
  DEF Next, Tick, Handoff, RequestRotation, RotateDue

-----------------------------------------------------------------------------
(* The theorems.                                                           *)

\* The inductive invariant holds when the first Planner starts.
LEMMA InitInv == Init => IInv
<1> SUFFICES ASSUME Init PROVE IInv
  OBVIOUS
<1> USE DEF Init
<1>1. CellTypes
  BY DEF CellTypes, Activities, Waits
<1>2. InboxTypes
  <2>1. events \in [Events -> {"ABSENT", "PENDING", "CLAIMED", "CONSUMED"}]
    OBVIOUS
  <2>2. {doorbell, turn} \subseteq [gen : 0..MaxGen, events : SUBSET Events]
    BY PlannerTurnAssumption DEF Bell
  <2>3. paper \in Papers
    BY DEF Papers, Blank, Entries
  <2>4. pending \in {"NONE", "DELIVERY_PENDING", "WAITING"}
    OBVIOUS
  <2>5. QED BY <2>1, <2>2, <2>3, <2>4 DEF InboxTypes, Papers
<1>3. SuccessionTypes
  <2>1. authority \in [gen : 1..MaxGen, fenced : BOOLEAN]
    BY PlannerTurnAssumption
  <2>2. /\ successor \in {"NONE", "REQUESTED", "PROMOTED"}
        /\ promoted \in BOOLEAN /\ moved \in BOOLEAN
    OBVIOUS
  <2>3. prompts \in 0..MaxPrompts
    BY PlannerTurnAssumption
  <2>4. QED BY <2>1, <2>2, <2>3 DEF SuccessionTypes
<1>4. WorkTypes
  BY PlannerTurnAssumption DEF WorkTypes, NoChild
<1>5. OtherTypes
  <2>1. known \in 0..MaxRevisions /\ contract \in 0..MaxRevisions
    BY PlannerTurnAssumption
  <2>2. readOnly \in BOOLEAN /\ slot \in SlotKinds
    BY DEF SlotKinds
  <2>3. delivery \in Deliveries
    BY DEF Deliveries, NoDelivery
  <2>4. helpers \in [Helpers -> [state : {"NONE", "REQUEST_PENDING", "WAITING", "EMITTED"},
                                 file : {"", "READY", "DONE"}, done : BOOLEAN]]
    BY DEF NoHelper
  <2>5. QED BY <2>1, <2>2, <2>3, <2>4 DEF OtherTypes, Deliveries
<1>6. Budget
  <2>1. ASSUME NEW l \in Lanes PROVE LaneBudget(l)
    <3>1. /\ children[l].gen = 0 /\ children[l].state = "NONE"
          /\ dispatches[l] = 0 /\ backend[l] = "PASS"
      BY DEF NoChild
    <3>2. paper.slots[l] \notin {"DIRECTION", "REJECT"}
      BY DEF Blank
    <3>3. QED BY <3>1, <3>2, PlannerTurnAssumption DEF LaneBudget, Reserved
  <2>2. QED BY <2>1 DEF Budget
<1>7. GenerationLeft /\ RevisionSeen
  BY DEF GenerationLeft, RevisionSeen
<1>8. HelperFresh
  BY DEF HelperFresh, Events
<1>9. ClaimedIsRung
  BY DEF ClaimedIsRung, Bell
<1>10. OneOwner
  BY DEF OneOwner, Bell
<1>11. OpenTurnIsAsked /\ ParkedHasWake
  BY DEF OpenTurnIsAsked, ParkedHasWake
<1>12. QED
  BY <1>1, <1>2, <1>3, <1>4, <1>5, <1>6, <1>7, <1>8, <1>9, <1>10, <1>11 DEF IInv, TypeOK

\* Every step keeps the inductive invariant.
LEMMA StepInv == IInv /\ [Next]_vars => IInv'
<1> SUFFICES ASSUME IInv, [Next]_vars PROVE IInv'
  OBVIOUS
<1> USE DEF IInv
<1>1. TypeOK'
  <2>1. CellTypes' /\ InboxTypes'
    BY CellStep, InboxTypesStep
  <2>2. SuccessionTypes' /\ OtherTypes'
    BY SuccessionTypesStep, OtherTypesStep
  <2>3. WorkTypes'
    BY WorkStep
  <2>4. QED BY <2>1, <2>2, <2>3 DEF TypeOK
<1>2. Budget'
  BY WorkStep
<1>3. (GenerationLeft /\ OneOwner /\ OpenTurnIsAsked)'
  BY OwnerStep DEF TurnOwned
<1>4. RevisionSeen' /\ ClaimedIsRung'
  BY RevisionStep, ClaimedStep
<1>5. HelperFresh'
  BY FreshStep
<1>6. ParkedHasWake'
  <2>1. Parked => Woken
    BY DEF ParkedHasWake, Parked, Woken
  <2>2. Parked' => Woken'
    BY <2>1, ParkedStep
  <2>3. QED BY <2>2 DEF ParkedHasWake, Parked, Woken
<1>7. QED BY <1>1, <1>2, <1>3, <1>4, <1>5, <1>6

\* The inductive invariant holds in every reachable state.
LEMMA Invariant == Spec => []IInv
BY InitInv, StepInv, PTL DEF Spec

\* The state of the Planner's turn is well-typed; the bounds on dispatches and
\* generations are never exceeded.
THEOREM TypeCorrect == Spec => []TypeOK
<1>1. IInv => TypeOK
  BY DEF IInv
<1>2. QED BY <1>1, Invariant, PTL

\* Whatever rotations, endings and late reports of the browser come between,
\* the claimed events are those of the active doorbell, which the open turn
\* answers.
THEOREM ClaimsAreRung == Spec => []ClaimedIsRung
<1>1. IInv => ClaimedIsRung
  BY DEF IInv
<1>2. QED BY <1>1, Invariant, PTL

\* At every moment exactly one Planner generation may answer, and the control
\* slot holds the request of a rotation under way.
THEOREM OwnerIsUnique == Spec => []OneOwner
<1>1. IInv => OneOwner
  BY DEF IInv
<1>2. QED BY <1>1, Invariant, PTL

\* An open turn is on its way in the control slot or guarded by the watchdog.
THEOREM TurnIsAsked == Spec => []OpenTurnIsAsked
<1>1. IInv => OpenTurnIsAsked
  BY DEF IInv
<1>2. QED BY <1>1, Invariant, PTL

\* A Planner parked for a result or a Helper has something that will wake it.
THEOREM ParkedIsWoken == Spec => []ParkedHasWake
<1>1. IInv => ParkedHasWake
  BY DEF IInv
<1>2. QED BY <1>1, Invariant, PTL

\* Until the task ends a step moves events only forward, and consumes them only
\* through a committed turn that named them.
LEMMA KeptStep ==
  ASSUME IInv, [Next]_vars
  PROVE  closed' \/ \A e \in Events : EventKept(e)
<1> SUFFICES ASSUME NEW e \in Events PROVE closed' \/ EventKept(e)
  OBVIOUS
<1>0. /\ events[e] \in {"ABSENT", "PENDING", "CLAIMED", "CONSUMED"}
      /\ events \in [Events -> {"ABSENT", "PENDING", "CLAIMED", "CONSUMED"}]
      /\ events[e] = "CLAIMED" <=> e \in doorbell.events
  BY DEF IInv, TypeOK, InboxTypes, ClaimedIsRung
<1>1. UNCHANGED events[e] => EventKept(e)
  BY <1>0 DEF EventKept, Stage
<1>stages. /\ Stage("ABSENT") = 0 /\ Stage("PENDING") = 1
      /\ Stage("CLAIMED") = 2 /\ Stage("CONSUMED") = 3
  BY DEF Stage
<1>2. Kept => UNCHANGED events[e]
  BY DEF Kept
<1>3. ASSUME NEW d \in Events, Inserted(d) PROVE EventKept(e)
  <2>1. UNCHANGED events[e] \/ (events[e] = "ABSENT" /\ events'[e] = "PENDING")
    BY <1>0, <1>3 DEF Inserted, Insert
  <2>2. QED BY <1>1, <1>stages, <2>1 DEF EventKept
<1>4. ASSUME Reduced PROVE EventKept(e)
  <2>1. UNCHANGED events[e] \/ (events[e] = "CLAIMED" /\ events'[e] = "CONSUMED")
    BY <1>0, <1>4 DEF Reduced
  <2>2. events[e] = "CLAIMED" => e \in turn.events /\ paper.signal \in Outcomes
    BY <1>0, <1>4 DEF Reduced, TurnDue
  <2>3. QED BY <1>1, <1>stages, <2>1, <2>2 DEF EventKept
<1>5. ASSUME NEW g \in 1..MaxGen, NEW E \in SUBSET Events, Rung(g, E) PROVE EventKept(e)
  <2>1. UNCHANGED events[e] \/ (events[e] = "PENDING" /\ events'[e] = "CLAIMED")
    BY <1>0, <1>5 DEF Rung, Pending
  <2>2. QED BY <1>1, <1>stages, <2>1 DEF EventKept
<1>6. Cleared => closed'
  BY DEF Cleared
<1>7. QED BY <1>1, <1>2, <1>3, <1>4, <1>5, <1>6, InboxSteps DEF IInv, InboxStep

\* Until the task ends no event is lost or goes back, and only a committed turn
\* whose doorbell named it consumes it.
THEOREM EventsAreKept == Spec => EventsKept
<1>1. IInv /\ [Next]_vars => [closed' \/ \A e \in Events : EventKept(e)]_vars
  BY KeptStep
<1>2. QED BY <1>1, Invariant, PTL DEF Spec, EventsKept

-----------------------------------------------------------------------------
(* The inbox keeps the promises of EventInbox.                             *)

\* What the refinement needs besides: a task whose end is being delivered is
\* closed, and a Planner whose successor was asked for is fenced.
EndIsClosed == delivery.kind \in {"PASS", "ERROR"} => closed
RequestedIsFenced == successor = "REQUESTED" => authority.fenced

\* A step opens no task again and delivers the end of closed tasks only.
LEMMA ClosedStep ==
  ASSUME TypeOK, EndIsClosed, [Next]_vars
  PROVE  EndIsClosed'
<1> USE DEF EndIsClosed
<1>0. delivery \in [kind : {"NONE", "QUERY", "PASS", "ERROR"},
                    state : {"NONE", "PENDING", "CLAIMED", "DELIVERED", "CONSUMED"},
                    cleaned : BOOLEAN]
  BY DEF TypeOK, OtherTypes
<1> DEFINE same == UNCHANGED <<closed, delivery>>
<1>1. same => EndIsClosed'
  OBVIOUS
<1>2. (UNCHANGED vars) \/ EditContract \/ Planner \/ OtherCell => same
  BY DEF vars, cell, EditContract, Planner, OtherCell, WriteSlot, WriteOutcome
<1>3. ASSUME NEW l \in Lanes, NEW s \in {"CONTINUE", "PASS"}, WorkerEnds(l, s) PROVE same
  BY <1>3 DEF WorkerEnds, cell
<1>4. ASSUME NEW h \in Helpers, NEW f \in {"READY", "DONE"}, HelperWrites(h, f) PROVE same
  BY <1>4 DEF HelperWrites, cell
<1>5. ReduceContinue \/ ReduceWait \/ (\E h \in Helpers : ReduceNeedHelper(h)) => same
  BY DEF ReduceContinue, ReduceWait, ReduceNeedHelper
<1>6. ReduceNeedUser => delivery'.kind = "QUERY"
  BY DEF ReduceNeedUser
<1>7. ReduceError \/ ReduceComplete => closed'
  BY DEF ReduceError, ReduceComplete
<1>8. ASSUME NEW h \in Helpers, HelperDone(h) \/ StageHelper(h) \/ HelperEvent(h) PROVE same
  BY <1>8 DEF HelperDone, StageHelper, HelperEvent, cell
<1>9. Rotate \/ Ring \/ IntentEvent \/ RequestRetire => same
  BY DEF Rotate, Ring, IntentEvent, RequestRetire, cell
<1>10. ASSUME NEW l \in Lanes, AutoContinue(l) \/ ResultEvent(l) PROVE same
  BY <1>10 DEF AutoContinue, ResultEvent, cell
<1>11. PromptDone \/ HelperPromptDone \/ BootstrapDone \/ PromoteDone \/ RetireDone => same
  BY DEF PromptDone, HelperPromptDone, BootstrapDone, PromoteDone, RetireDone, cell
<1>12. Claim \/ Delivered \/ Answered => (UNCHANGED closed) /\ delivery'.kind = delivery.kind
  BY <1>0 DEF Claim, Delivered, Answered, Deliver, cell
<1>13. Cleaned \/ Consumed => closed'
  BY DEF Cleaned, Consumed, TerminalReset
<1>14. ASSUME NEW r \in BOOLEAN, WatchdogReplay(r) PROVE same
  BY <1>14 DEF WatchdogReplay, cell
<1>15. Browser => EndIsClosed'
  BY <1>1, <1>11, <1>12, <1>13 DEF Browser
<1>16. ReduceTurn => EndIsClosed'
  BY <1>1, <1>5, <1>6, <1>7 DEF ReduceTurn
<1>17. Tick \/ Handoff \/ RequestRotation => same
  BY <1>8, <1>9, <1>10 DEF Tick, Handoff, RequestRotation, RotateDue
<1>18. QED
  BY <1>1, <1>2, <1>3, <1>4, <1>8, <1>14, <1>15, <1>16, <1>17 DEF Next

\* A step asks for a successor of a fenced Planner only.
LEMMA FencedStep ==
  ASSUME TypeOK, RequestedIsFenced, [Next]_vars
  PROVE  RequestedIsFenced'
<1> USE DEF RequestedIsFenced
<1>0. authority \in [gen : 1..MaxGen, fenced : BOOLEAN]
  BY DEF TypeOK, SuccessionTypes
<1> DEFINE same == UNCHANGED <<authority, successor>>
<1>1. same => RequestedIsFenced'
  OBVIOUS
<1>2. (UNCHANGED vars) \/ EditContract \/ Planner \/ OtherCell => same
  BY DEF vars, succession, EditContract, Planner, OtherCell, WriteSlot, WriteOutcome
<1>3. ASSUME NEW l \in Lanes, NEW s \in {"CONTINUE", "PASS"}, WorkerEnds(l, s) PROVE same
  BY <1>3 DEF WorkerEnds, succession
<1>4. ASSUME NEW h \in Helpers, NEW f \in {"READY", "DONE"}, HelperWrites(h, f) PROVE same
  BY <1>4 DEF HelperWrites, succession
<1>5. ReduceTurn => same
  BY DEF ReduceTurn, ReduceContinue, ReduceWait, ReduceNeedHelper, ReduceNeedUser, ReduceError,
         ReduceComplete, Reduce, succession
<1>6. ASSUME NEW h \in Helpers, HelperDone(h) \/ StageHelper(h) \/ HelperEvent(h) PROVE same
  BY <1>6 DEF HelperDone, StageHelper, HelperEvent, succession
<1>7. Ring \/ IntentEvent \/ RequestRetire => same
  BY DEF Ring, IntentEvent, RequestRetire, succession
<1>8. ASSUME NEW l \in Lanes, AutoContinue(l) \/ ResultEvent(l) PROVE same
  BY <1>8 DEF AutoContinue, ResultEvent, succession
<1>9. Rotate => authority'.fenced
  BY <1>0 DEF Rotate
<1>10. PromptDone \/ HelperPromptDone \/ PromoteDone \/ Claim \/ Delivered \/ Answered => same
  BY DEF PromptDone, HelperPromptDone, PromoteDone, Claim, Delivered, Answered, Deliver, succession
<1>11. BootstrapDone \/ RetireDone \/ Cleaned \/ Consumed => successor' # "REQUESTED"
  BY DEF BootstrapDone, RetireDone, Cleaned, Consumed, TerminalReset
<1>12. ASSUME NEW r \in BOOLEAN, WatchdogReplay(r) PROVE same
  BY <1>12 DEF WatchdogReplay
<1>13. QED
  BY <1>1, <1>2, <1>3, <1>4, <1>5, <1>6, <1>7, <1>8, <1>9, <1>10, <1>11, <1>12
  DEF Next, Tick, Browser, Handoff, RequestRotation, RotateDue

\* What EventInbox sees of the cell stands still.
Unseen == UNCHANGED <<events, turn, paper, authority, closed>>
LEMMA UnseenRests ==
  ASSUME Unseen
  PROVE  UNCHANGED Inbox!vars
BY DEF Unseen, Inbox!vars, Answering

\* Slots of a turn are not its outcome.
LEMMA SlotRests ==
  ASSUME TypeOK, NEW l \in Lanes, NEW entry, WriteSlot(l, entry)
  PROVE  UNCHANGED Inbox!vars
<1>1. paper'.signal = paper.signal
  BY DEF WriteSlot, TypeOK, InboxTypes
<1>2. UNCHANGED <<events, turn, authority, closed>>
  BY DEF WriteSlot, cell, succession
<1>3. QED BY <1>1, <1>2 DEF Inbox!vars, Answering

\* The outcome that the Planner writes is its answer.
LEMMA OutcomeAnswers ==
  ASSUME TypeOK, NEW signal \in Outcomes \cup {"HANDOFF"}, WriteOutcome(signal)
  PROVE  Inbox!Answer(signal)
<1>1. paper'.signal = signal
  BY DEF WriteOutcome, TypeOK, InboxTypes
<1>2. UNCHANGED <<events, turn, Answering, closed>>
  BY DEF WriteOutcome, cell, succession, Answering
<1>3. turn # Inbox!NoTurn /\ paper.signal = ""
  BY DEF WriteOutcome, NoBell, Bell, Inbox!NoTurn
<1>4. QED BY <1>1, <1>2, <1>3 DEF Inbox!Answer

\* An event that is inserted is raised, or was before.
LEMMA InsertRaises ==
  ASSUME TypeOK, NEW e \in Events, events' = Insert(e),
         UNCHANGED <<turn, paper, authority, closed>>
  PROVE  [Inbox!Next]_(Inbox!vars)
<1>0. events \in [Events -> {"ABSENT", "PENDING", "CLAIMED", "CONSUMED"}]
  BY DEF TypeOK, InboxTypes
<1>1. CASE events[e] = "ABSENT"
  <2>1. events' = [events EXCEPT ![e] = "PENDING"]
    BY <1>1 DEF Insert
  <2>2. Inbox!Raise(e)
    BY <1>1, <2>1 DEF Inbox!Raise, Answering
  <2>3. QED BY <2>2 DEF Inbox!Next
<1>2. CASE events[e] # "ABSENT"
  <2>1. events' = events
    BY <1>0, <1>2 DEF Insert
  <2>2. QED BY <2>1, UnseenRests DEF Unseen
<1>3. QED BY <1>1, <1>2

\* The doorbell opens a turn for the generation in authority.
LEMMA RingOpens ==
  ASSUME TypeOK, OneOwner, ClaimedIsRung, Ring
  PROVE  Inbox!Open(Claimable)
<1>1. enabled /\ successor = "NONE" /\ doorbell = NoBell /\ Claimable # {} /\ ~closed
  BY DEF Ring, RingDue, AfterOutputs, AfterRequests, AfterResults, AfterIntent, TickOpen
<1>2. authority.fenced = FALSE
  <2>1. ~authority.fenced
    BY <1>1 DEF OneOwner
  <2>2. authority.fenced \in BOOLEAN
    BY DEF TypeOK, SuccessionTypes
  <2>3. QED BY <2>1, <2>2
<1>3. authority.gen \in Nat
  BY DEF TypeOK, SuccessionTypes
<1>4. Answering = authority.gen
  BY <1>2, <1>3 DEF Answering
<1>5. /\ events' = [e \in Events |-> IF e \in Claimable THEN "CLAIMED" ELSE events[e]]
      /\ turn' = [gen |-> authority.gen, events |-> Claimable]
      /\ paper'.signal = ""
      /\ UNCHANGED <<authority, closed>>
  BY DEF Ring, Bell, Blank, succession
<1>6. turn = Inbox!NoTurn
  BY <1>1 DEF ClaimedIsRung, NoBell, Bell, Inbox!NoTurn
<1>7. UNCHANGED Answering
  BY <1>5 DEF Answering
<1>8. QED BY <1>1, <1>4, <1>5, <1>6, <1>7 DEF Inbox!Open, Inbox!Give

\* A rotation passes the open turn and all that waits on to the next generation.
LEMMA RotatePasses ==
  ASSUME TypeOK, OneOwner, ClaimedIsRung, Rotate
  PROVE  Inbox!PassOn
<1>1. enabled /\ successor = "NONE"
  BY DEF Rotate
<1>2. authority.fenced = FALSE
  <2>1. ~authority.fenced
    BY <1>1 DEF OneOwner
  <2>2. authority.fenced \in BOOLEAN
    BY DEF TypeOK, SuccessionTypes
  <2>3. QED BY <2>1, <2>2
<1>3. authority \in [gen : 1..MaxGen, fenced : BOOLEAN] /\ authority.gen \in Nat
  BY DEF TypeOK, SuccessionTypes
<1>4. Answering = authority.gen
  BY <1>2, <1>3 DEF Answering
<1>5. authority'.gen = authority.gen /\ authority'.fenced = TRUE
  BY <1>3 DEF Rotate
<1>6. Answering' = authority.gen + 1
  BY <1>5 DEF Answering
<1>7. Inbox!Waiting \cup turn.events = Pending \cup doorbell.events
  BY DEF Inbox!Waiting, Pending, ClaimedIsRung
<1>8. /\ events' = [e \in Events |->
                      IF e \in Pending \cup doorbell.events THEN "CLAIMED" ELSE events[e]]
      /\ turn' = [gen |-> authority.gen + 1, events |-> Pending \cup doorbell.events]
      /\ paper'.signal = ""
      /\ UNCHANGED closed
  BY DEF Rotate, Bell
<1>9. QED BY <1>4, <1>6, <1>7, <1>8 DEF Inbox!PassOn, Inbox!Give

\* The reduction of a turn consumes what the turn was opened for.
LEMMA ReduceConsumes ==
  ASSUME NEW act, NEW on, Reduce(act, on)
  PROVE  Inbox!Consume /\ paper.signal \in Outcomes
<1>1. turn = doorbell /\ turn # NoBell /\ paper.signal \in Outcomes
  BY DEF Reduce, Reducible, TurnDue
<1>2. /\ events' = [e \in Events |-> IF e \in doorbell.events THEN "CONSUMED" ELSE events[e]]
      /\ turn' = NoBell /\ paper'.signal = "" /\ UNCHANGED authority
  BY DEF Reduce, EndTurn, Blank, succession
<1>3. NoBell = Inbox!NoTurn
  BY DEF NoBell, Bell, Inbox!NoTurn
<1>4. QED BY <1>1, <1>2, <1>3 DEF Inbox!Consume, Answering

\* Every committed outcome ends its turn: with the task going on, with an error,
\* or with its end.
LEMMA ReduceEndsTurn ==
  ASSUME ReduceTurn
  PROVE  Inbox!Commit \/ Inbox!Fail \/ Inbox!End
<1>1. ASSUME ReduceContinue \/ ReduceWait \/ (\E h \in Helpers : ReduceNeedHelper(h))
             \/ ReduceNeedUser
      PROVE  Inbox!Commit
  <2>1. \E act, on : Reduce(act, on)
    BY <1>1 DEF ReduceContinue, ReduceWait, ReduceNeedHelper, ReduceNeedUser
  <2>2. paper.signal \notin {"COMPLETE", "ERROR"} /\ UNCHANGED closed
    BY <1>1 DEF ReduceContinue, ReduceWait, ReduceNeedHelper, ReduceNeedUser
  <2>3. QED BY <2>1, <2>2, ReduceConsumes DEF Inbox!Commit
<1>2. ASSUME ReduceError PROVE Inbox!Fail
  <2>1. Reduce("ERROR", "NONE") /\ paper.signal = "ERROR" /\ closed' = TRUE
    BY <1>2 DEF ReduceError
  <2>2. QED BY <2>1, ReduceConsumes DEF Inbox!Fail
<1>3. ASSUME ReduceComplete PROVE Inbox!End
  <2>1. /\ turn # NoBell /\ paper.signal = "COMPLETE"
        /\ events' = [e \in Events |-> "ABSENT"]
        /\ turn' = NoBell /\ paper'.signal = "" /\ closed' = TRUE /\ UNCHANGED authority
    BY <1>3 DEF ReduceComplete, TurnDue, EndTurn, Blank
  <2>2. QED BY <2>1 DEF Inbox!End, Inbox!NoTurn, NoBell, Bell, Answering
<1>4. QED BY <1>1, <1>2, <1>3 DEF ReduceTurn

\* Clean-up and consumption of the end drop what is left of a closed task.
LEMMA ResetEnds ==
  ASSUME EndIsClosed, Cleaned \/ Consumed
  PROVE  Inbox!End
<1>1. closed
  BY DEF EndIsClosed, Cleaned, Consumed
<1>2. /\ events' = [e \in Events |-> "ABSENT"]
      /\ turn' = NoBell /\ paper'.signal = "" /\ closed' = TRUE /\ UNCHANGED authority
  <2>1. PICK final : TerminalReset(final)
    BY DEF Cleaned, Consumed
  <2>2. QED BY <2>1 DEF TerminalReset, EndTurn, Blank
<1>3. QED BY <1>1, <1>2 DEF Inbox!End, Inbox!NoTurn, NoBell, Bell, Answering

\* The generation that answers is the same before and after it is bootstrapped.
LEMMA BootstrapRests ==
  ASSUME TypeOK, RequestedIsFenced, BootstrapDone
  PROVE  UNCHANGED Inbox!vars
<1>1. successor = "REQUESTED" /\ authority' = [gen |-> authority.gen + 1, fenced |-> FALSE]
  BY DEF BootstrapDone
<1>2. authority.gen \in Nat /\ authority.fenced \in BOOLEAN
  BY DEF TypeOK, SuccessionTypes
<1>3. Answering = authority.gen + 1
  BY <1>1, <1>2 DEF RequestedIsFenced, Answering
<1>4. Answering' = authority.gen + 1
  <2>1. authority'.gen = authority.gen + 1 /\ authority'.fenced = FALSE
    BY <1>1
  <2>2. QED BY <1>2, <2>1 DEF Answering
<1>5. UNCHANGED <<events, turn, paper, closed>>
  BY DEF BootstrapDone
<1>6. QED BY <1>3, <1>4, <1>5 DEF Inbox!vars

\* Every step of the cell is one of the inbox, or none.
LEMMA InboxRefined ==
  ASSUME IInv, EndIsClosed, RequestedIsFenced, [Next]_vars
  PROVE  [Inbox!Next]_(Inbox!vars)
<1> USE DEF IInv
<1>1. CASE (UNCHANGED vars) \/ EditContract \/ OtherCell
  BY <1>1, UnseenRests DEF vars, cell, inbox, succession, EditContract, OtherCell, Unseen
<1>2. CASE Planner
  <2>1. ASSUME NEW signal \in Outcomes \cup {"HANDOFF"}, WriteOutcome(signal)
        PROVE  Inbox!Next
    BY <2>1, OutcomeAnswers DEF Inbox!Next
  <2>2. ASSUME NEW l \in Lanes, NEW entry, WriteSlot(l, entry) PROVE UNCHANGED Inbox!vars
    BY <2>2, SlotRests
  <2>3. QED BY <1>2, <2>1, <2>2 DEF Planner
<1>3. ASSUME NEW l \in Lanes, NEW s \in {"CONTINUE", "PASS"}, WorkerEnds(l, s) PROVE Unseen
  BY <1>3 DEF WorkerEnds, cell, inbox, succession, Unseen
<1>4. ASSUME NEW h \in Helpers, NEW f \in {"READY", "DONE"}, HelperWrites(h, f) PROVE Unseen
  BY <1>4 DEF HelperWrites, cell, inbox, succession, Unseen
<1>5. CASE ReduceTurn
  BY <1>5, ReduceEndsTurn DEF Inbox!Next
<1>6. ASSUME NEW h \in Helpers, HelperDone(h) \/ StageHelper(h) PROVE Unseen
  BY <1>6 DEF HelperDone, StageHelper, cell, inbox, succession, Unseen
<1>7. ASSUME NEW h \in Helpers, HelperEvent(h) PROVE [Inbox!Next]_(Inbox!vars)
  <2>1. HelperResult(h) \in Events
    BY DEF Events
  <2>2. /\ events' = Insert(HelperResult(h))
        /\ UNCHANGED <<turn, paper, authority, closed>>
    BY <1>7 DEF HelperEvent, cell, succession
  <2>3. QED BY <2>1, <2>2, InsertRaises
<1>8. CASE Rotate
  BY <1>8, RotatePasses DEF Inbox!Next
<1>9. CASE Ring
  <2>1. Claimable \in SUBSET Inbox!Waiting
    BY DEF Claimable, Pending, Inbox!Waiting
  <2>2. QED BY <1>9, <2>1, RingOpens DEF Inbox!Next
<1>10. ASSUME IntentEvent PROVE [Inbox!Next]_(Inbox!vars)
  <2>1. ForegroundIntent(contract) \in Events
    <3>1. known \in 0..MaxRevisions /\ contract \in 0..MaxRevisions /\ known <= contract
      BY DEF TypeOK, OtherTypes, RevisionSeen
    <3>2. known # contract
      BY <1>10 DEF IntentEvent, IntentDue
    <3>3. contract \in 1..MaxRevisions
      BY <3>1, <3>2, PlannerTurnAssumption
    <3>4. QED BY <3>3 DEF Events, Intents
  <2>2. /\ events' = Insert(ForegroundIntent(contract))
        /\ UNCHANGED <<turn, paper, authority, closed>>
    BY <1>10 DEF IntentEvent, cell, succession
  <2>3. QED BY <2>1, <2>2, InsertRaises
<1>11. ASSUME NEW l \in Lanes, AutoContinue(l) PROVE Unseen
  BY <1>11 DEF AutoContinue, cell, inbox, succession, Unseen
<1>12. ASSUME NEW l \in Lanes, ResultEvent(l) PROVE [Inbox!Next]_(Inbox!vars)
  <2>1. WorkerResult(l, dispatches[l]) \in Events
    BY <1>12, PlannerTurnAssumption
    DEF ResultEvent, TypeOK, WorkTypes, Budget, LaneBudget, Events
  <2>2. /\ events' = Insert(WorkerResult(l, dispatches[l]))
        /\ UNCHANGED <<turn, paper, authority, closed>>
    BY <1>12 DEF ResultEvent, succession
  <2>3. QED BY <2>1, <2>2, InsertRaises
<1>13. RequestRetire => Unseen
  BY DEF RequestRetire, cell, inbox, succession, Unseen
<1>14. PromptDone \/ HelperPromptDone \/ PromoteDone \/ RetireDone
         \/ Claim \/ Delivered \/ Answered => Unseen
  BY DEF PromptDone, HelperPromptDone, PromoteDone, RetireDone, Claim, Delivered, Answered,
     Deliver, cell, inbox, succession, Unseen
<1>15. CASE BootstrapDone
  BY <1>15, BootstrapRests
<1>16. CASE Cleaned \/ Consumed
  BY <1>16, ResetEnds DEF Inbox!Next
<1>17. ASSUME NEW r \in BOOLEAN, WatchdogReplay(r) PROVE Unseen
  BY <1>17 DEF WatchdogReplay, cell, Unseen
<1>18. QED
  BY <1>1, <1>2, <1>3, <1>4, <1>5, <1>6, <1>7, <1>8, <1>9, <1>10, <1>11, <1>12, <1>13, <1>14,
     <1>15, <1>16, <1>17, UnseenRests
  DEF Next, Tick, Browser, Handoff, RequestRotation, RotateDue

\* The first turn of the cell is the one the inbox starts with.
LEMMA InboxStarts ==
  ASSUME Init
  PROVE  Inbox!Init /\ EndIsClosed /\ RequestedIsFenced
<1>1. EndIsClosed /\ RequestedIsFenced
  BY DEF Init, NoDelivery, EndIsClosed, RequestedIsFenced
<1>2. paper.signal = ""
  BY DEF Init, Blank
<1>3. Answering = 1
  <2>1. authority.gen = 1 /\ authority.fenced = FALSE
    BY DEF Init
  <2>2. QED BY <2>1 DEF Answering
<1>4. events = [e \in Events |-> "ABSENT"] /\ turn = [gen |-> 1, events |-> {}]
      /\ closed = FALSE
  BY DEF Init, Bell
<1>5. QED BY <1>1, <1>2, <1>3, <1>4 DEF Inbox!Init

\* Refinement: whatever is replayed, rotated or ended in between, the cell keeps
\* the promises of EventInbox for its events.
THEOREM InboxIsKept == Spec => ImplementsEventInbox
<1>1. IInv /\ EndIsClosed /\ RequestedIsFenced /\ [Next]_vars
      => EndIsClosed' /\ RequestedIsFenced' /\ [Inbox!Next]_(Inbox!vars)
  BY ClosedStep, FencedStep, InboxRefined DEF IInv
<1>2. QED BY <1>1, InboxStarts, Invariant, PTL DEF Spec, ImplementsEventInbox, Inbox!Spec

=============================================================================
