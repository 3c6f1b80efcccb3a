------------------------------ MODULE MCHarness ------------------------------
(***************************************************************************)
(* Six components that share no state in one run: each behaviour follows   *)
(* one of them (focus) while the others rest in one initial state.         *)
(***************************************************************************)
EXTENDS Publisher, ParallelGraph, BranchJoin, StageRun, TerminalDelivery, RequestDrain, TLC

CONSTANTS j1, j2, k1, fgfile, bgfile

VARIABLE focus

MCTouches == (j1 :> {bgfile}) @@ (j2 :> {fgfile}) @@ (k1 :> {fgfile})
MCOrder == <<"n1", "n2", "n3", "n4">>
MCLanes == <<"l1", "l2">>
MCRevisions == ("b1" :> 2) @@ ("b2" :> 1)
MCTerminals == <<"x1", "x2">>
MCPlanners == <<"p1">>
Request(f, k, g, b) == [file |-> f, kind |-> k, gen |-> g, body |-> b]
MCLedger == {Request("wake", "wake", 1, "PASS"), Request("analysis", "finalize", 1, "PASS")}
MCAsked == ("d1" :> {"finalize"}) @@ ("d2" :> {"wake"})

Parts == {"publish", "graph", "join", "stage", "delivery", "drain"}
vars == <<focus, publisherVars, graphVars, joinVars, stageVars, deliveryVars, drainVars>>

Init ==
    /\ focus \in Parts
    /\ PublisherInit
    /\ focus # "publish" => \A r \in Runners : publish[r].leftover = "none" /\ publish[r].owned
    /\ GraphInit
    /\ focus # "graph" => task.max = 1 /\ \A n \in Nodes : task.deps[n] = {}
    /\ JoinInit
    /\ StageInit
    /\ focus # "stage" => kind = "plain"
    /\ DeliveryInit
    /\ DrainInit

PublisherMoves ==
    /\ focus = "publish" /\ PublisherNext
    /\ UNCHANGED <<focus, graphVars, joinVars, stageVars, deliveryVars, drainVars>>
GraphMoves ==
    /\ focus = "graph" /\ GraphNext
    /\ UNCHANGED <<focus, publisherVars, joinVars, stageVars, deliveryVars, drainVars>>
JoinMoves ==
    /\ focus = "join" /\ JoinNext
    /\ UNCHANGED <<focus, publisherVars, graphVars, stageVars, deliveryVars, drainVars>>
StageMoves ==
    /\ focus = "stage" /\ StageNext
    /\ UNCHANGED <<focus, publisherVars, graphVars, joinVars, deliveryVars, drainVars>>
DeliveryMoves ==
    /\ focus = "delivery" /\ DeliveryNext
    /\ UNCHANGED <<focus, publisherVars, graphVars, joinVars, stageVars, drainVars>>
DrainMoves ==
    /\ focus = "drain" /\ DrainNext
    /\ UNCHANGED <<focus, publisherVars, graphVars, joinVars, stageVars, deliveryVars>>

Next ==
    \/ PublisherMoves \/ GraphMoves \/ JoinMoves
    \/ StageMoves \/ DeliveryMoves \/ DrainMoves

\* The fairness of TerminalDelivery and RequestDrain, while they are followed.
Fairness ==
    /\ WF_deliveryVars(focus = "delivery" /\ HostRound)
    /\ WF_deliveryVars(focus = "delivery" /\ ObserveTerminal)
    /\ WF_deliveryVars(focus = "delivery" /\ Replying)
    /\ WF_deliveryVars(focus = "delivery" /\ UserLeavesPage)
    /\ WF_drainVars(focus = "drain" /\ BridgeServes)
    /\ WF_drainVars(focus = "drain" /\ Elapse)

Spec == Init /\ [][Next]_vars /\ Fairness

\* The variables of the six components have their types.
HarnessTypeOK ==
    /\ focus = "publish" => PublisherTypeOK
    /\ focus = "graph" => GraphTypeOK
    /\ focus = "join" => JoinTypeOK
    /\ focus = "stage" => StageTypeOK
    /\ focus = "delivery" => DeliveryTypeOK
    /\ focus = "drain" => DrainTypeOK

\* While it is followed, the delivery of last messages ends (DeliveriesEnd).
MessagesEnd == []<>(focus = "delivery" => Told)
=============================================================================
