---------------------------- MODULE HarnessProofs ----------------------------
(*****************************************************************************)
(* Proofs about the six components that the run Harness checks together, for *)
(* every value of their constants: a behaviour of the harness is, seen by    *)
(* each component, a behaviour of that component, so that what was proved of *)
(* the component alone holds of the composition.                             *)
(*****************************************************************************)
EXTENDS MCHarness, RunnerProofs, ParallelProofs, BridgeProofs

\* A component starts as it does alone.
LEMMA ComponentsStart ==
    ASSUME Init
    PROVE  /\ PublisherInit /\ GraphInit /\ JoinInit
           /\ StageInit /\ DeliveryInit /\ DrainInit
BY DEF Init

\* A component takes a step of its own or rests.
LEMMA ComponentsStep ==
    ASSUME [Next]_vars
    PROVE  /\ [PublisherNext]_publisherVars /\ [GraphNext]_graphVars /\ [JoinNext]_joinVars
           /\ [StageNext]_stageVars /\ [DeliveryNext]_deliveryVars /\ [DrainNext]_drainVars
<1>1. CASE PublisherMoves
  BY <1>1 DEF PublisherMoves
<1>2. CASE GraphMoves
  BY <1>2 DEF GraphMoves
<1>3. CASE JoinMoves
  BY <1>3 DEF JoinMoves
<1>4. CASE StageMoves
  BY <1>4 DEF StageMoves
<1>5. CASE DeliveryMoves
  BY <1>5 DEF DeliveryMoves
<1>6. CASE DrainMoves
  BY <1>6 DEF DrainMoves
<1>7. CASE UNCHANGED vars
  BY <1>7 DEF vars
<1> QED
  BY <1>1, <1>2, <1>3, <1>4, <1>5, <1>6, <1>7 DEF Next

\* The composition implements each of its components: whatever one of them is
\* followed or rests, none of the others disturbs it.
THEOREM HarnessComposes ==
    Spec => /\ PublisherSpec /\ GraphSpec /\ JoinSpec
            /\ StageSpec /\ DeliverySpec /\ DrainSpec
BY ComponentsStart, ComponentsStep, PTL
   DEF Spec, PublisherSpec, GraphSpec, JoinSpec, StageSpec, DeliverySpec, DrainSpec

\* The variables of all six components have their types, followed or not.
THEOREM HarnessTyped == Spec => []HarnessTypeOK
<1>1. /\ PublisherTypeOK /\ GraphTypeOK /\ JoinTypeOK
      /\ StageTypeOK /\ DeliveryTypeOK /\ DrainTypeOK
      => HarnessTypeOK
  BY DEF HarnessTypeOK
<1> QED
  BY <1>1, HarnessComposes, PublisherTypes, GraphTyped, JoinTypes, StageIsTyped,
     DeliveryTypesHold, DrainTypes, PTL

\* What the run checks in every state holds of the composition: a publication
\* that is reported is on the branch, a node runs on finished dependencies and
\* the graph is never stuck, the verdict follows the lanes, a continuation has
\* its result, a recorded delivery was made and a DONE receipt is true.
THEOREM HarnessIsHonest ==
    Spec => [](/\ PublishHonest /\ BarrierHeld /\ NeverStuck /\ JoinHonest
               /\ ContinuationHasResult /\ DeliveryHonest /\ DoneIsTrue)
BY HarnessComposes, PublishersAreHonest, BarrierHolds, SchedulerNeverStuck, JoinIsHonest,
   ContinuationsAreDurable, DeliveriesAreHonest, ReceiptsAreTrue, PTL

\* What the run checks of every step holds of the composition: accepted evidence
\* stays, a dispatch moves by fences, a terminal event tells the outcome and a
\* final receipt is never rewritten.
THEOREM HarnessStepsAreSound ==
    Spec => EvidencePinned /\ FencedAdvance /\ TerminalTruthful /\ FinalSticks
BY HarnessComposes, EvidenceIsPinned, DispatchIsFenced, EventsAreTruthful, ReceiptsAreFinal
=============================================================================
